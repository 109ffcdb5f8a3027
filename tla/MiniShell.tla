------------------------------ MODULE MiniShell ------------------------------
(***************************************************************************)
(* 01_processes/mini_shell: the shell and the processes of the command     *)
(* line that it runs.  Process 0 is the shell, processes 1 .. n are the    *)
(* commands of the line; pipe i leads from command i to command i + 1.     *)
(* ends[p] are the pipe ends that p holds, <<i, "r">> or <<i, "w">>, and a *)
(* pipe holds a number of bytes.                                           *)
(*                                                                         *)
(* pc     prompt, pipe, fork, close, wait, exit                            *)
(* child  none, born (before its dup2 and close calls), wired (before      *)
(*        exec), prog (a program runs), eof (and it has seen the end of    *)
(*        its input), end and sigpipe (it has ended, and is not waited for *)
(*        yet)                                                             *)
(*                                                                         *)
(* Ctrl+C only prints a prompt in the shell: its handler is installed with *)
(* signal(), which restarts waitpid and fgets (macOS, BSD).  A program may *)
(* end because of it.                                                      *)
(***************************************************************************)
EXTENDS Integers, FiniteSets

CONSTANTS
  MAX_PIPES,     \* 10
  FILES,         \* descriptors that the shell can open besides its own three
  PIPE_BUF,      \* bytes that a pipe holds
  WRITES         \* bound: bytes that a program writes

ASSUME ShellAssumption ==
  {MAX_PIPES, FILES, PIPE_BUF, WRITES} \subseteq Nat \ {0}

VARIABLES
  pc,
  num_commands,
  i,               \* the loop variable: the command to fork or to wait for
  ends, held,      \* pipe ends of each process; bytes in each pipe
  child, written,
  redir_out,       \* is the output file of a single command open?
  leaked           \* output files that were opened, and will not be closed

shellVars == <<pc, num_commands, i, ends, held, child, written, redir_out, leaked>>
commands == <<ends, held, child, written>>

Commands == 1 .. MAX_PIPES + 1
Pipes == 1 .. MAX_PIPES

ShellInit ==
  /\ pc = "prompt"
  /\ num_commands = 0
  /\ i = 1
  /\ ends = [p \in {0} \cup Commands |-> {}]
  /\ held = [k \in Pipes |-> 0]
  /\ child = [c \in Commands |-> "none"]
  /\ written = [c \in Commands |-> 0]
  /\ redir_out = FALSE
  /\ leaked = 0

-----------------------------------------------------------------------------
(* main: a line is read and split.  Built-in commands and empty lines      *)
(* start nothing; a `&' is taken off and has no effect.                    *)

(* `exit', or the end of the input.                                        *)
Quit ==
  /\ pc = "prompt"
  /\ pc' = "exit"
  /\ UNCHANGED <<num_commands, i, commands, redir_out, leaked>>

(* A line with a `|'.  The part after the last pipe that fits is dropped,  *)
(* and empty parts do not count: there may be no command at all.           *)
PipedLine ==
  /\ pc = "prompt"
  /\ num_commands' \in 0 .. MAX_PIPES + 1
  /\ i' = 1
  /\ pc' = "pipe"
  /\ UNCHANGED <<commands, redir_out, leaked>>

(* A single command.  With a redirection, extract_redirection is called    *)
(* twice: if the first call can open the file, it lowers arg_count to the  *)
(* operator, its result is lost with the descriptor, and the second call   *)
(* does not look so far; only if the first open fails does the result of   *)
(* the second one count.  The arguments still have the operator and the    *)
(* file's name, so the program gets both: what it does with them is its    *)
(* own affair.                                                             *)
SingleLine ==
  /\ pc = "prompt"
  /\ num_commands' = 1
  /\ i' = 1
  /\ pc' = "fork"
  /\ \/ UNCHANGED <<redir_out, leaked>>
     \/ leaked < FILES /\ leaked' = leaked + 1 /\ UNCHANGED redir_out
     \/ leaked < FILES /\ redir_out' = TRUE /\ UNCHANGED leaked
  /\ UNCHANGED commands

-----------------------------------------------------------------------------
(* execute_single_command and execute_piped_commands.                      *)

Ends(n) == (1 .. n - 1) \X {"r", "w"}

(* Too few descriptors, or another error: the shell exits.                 *)
ShellFails ==
  /\ pc \in {"pipe", "fork"}
  /\ pc' = "exit"
  /\ ends' = [ends EXCEPT ![0] = {}]
  /\ redir_out' = FALSE
  /\ UNCHANGED <<num_commands, i, held, child, written, leaked>>

MakePipes ==
  /\ pc = "pipe"
  /\ leaked + Cardinality(Ends(num_commands)) <= FILES
  /\ ends' = [ends EXCEPT ![0] = Ends(num_commands)]
  /\ held' = [k \in Pipes |-> 0]
  /\ pc' = IF num_commands = 0 THEN "close" ELSE "fork"
  /\ UNCHANGED <<num_commands, i, child, written, redir_out, leaked>>

(* Slip: the shell closes a pipe before the reader of it is forked.        *)
ForkAndClose ==
  /\ pc = "fork"
  /\ child' = [child EXCEPT ![i] = "born"]
  /\ written' = [written EXCEPT ![i] = 0]
  /\ ends' = [ends EXCEPT ![i] = ends[0], ![0] = @ \ {<<i, "r">>, <<i, "w">>}]
  /\ i' = i + 1
  /\ pc' = IF i = num_commands THEN "close" ELSE "fork"
  /\ UNCHANGED <<num_commands, held, redir_out, leaked>>

(* The child has a copy of every pipe end.                                 *)
Fork ==
  /\ pc = "fork"
  /\ child' = [child EXCEPT ![i] = "born"]
  /\ written' = [written EXCEPT ![i] = 0]
  /\ ends' = [ends EXCEPT ![i] = ends[0]]
  /\ i' = i + 1
  /\ pc' = IF i = num_commands THEN "close" ELSE "fork"
  /\ UNCHANGED <<num_commands, held, redir_out, leaked>>

ClosePipes ==
  /\ pc = "close"
  /\ ends' = [ends EXCEPT ![0] = {}]
  /\ i' = 1
  /\ pc' = IF num_commands = 0 THEN "prompt" ELSE "wait"
  /\ UNCHANGED <<num_commands, held, child, written, redir_out, leaked>>

HasEnded(c) == child[c] \in {"end", "sigpipe"}

(* Slip: the last command is not waited for.                               *)
LastButOne == IF num_commands > 1 THEN num_commands - 1 ELSE 1

LastToWaitFor == num_commands

(* waitpid, in the order of the commands.                                  *)
Wait ==
  /\ pc = "wait"
  /\ HasEnded(i)
  /\ child' = [child EXCEPT ![i] = "none"]
  /\ i' = i + 1
  /\ IF i = LastToWaitFor
     THEN pc' = "prompt" /\ redir_out' = FALSE
     ELSE UNCHANGED <<pc, redir_out>>
  /\ UNCHANGED <<num_commands, ends, held, written, leaked>>

-----------------------------------------------------------------------------
(* The child of command c, up to exec.                                     *)

(* Slip: the copies of the other commands' pipes are not closed.           *)
KeepsCopies(c) == ends[c]

(* What is left after the dup2 and close calls.  A dup2 changes nothing in *)
(* who holds an end, and the closes only give ends up.                     *)
Redirected(c) ==
  Ends(num_commands) \cap {<<c - 1, "r">>, <<c, "w">>}

Wire(c) ==
  /\ child[c] = "born"
  /\ ends' = [ends EXCEPT ![c] = Redirected(c)]
  /\ child' = [child EXCEPT ![c] = "wired"]
  /\ UNCHANGED <<pc, num_commands, i, held, written, redir_out, leaked>>

Becomes(c, state) ==
  /\ child' = [child EXCEPT ![c] = state]
  /\ ends' = IF state \in {"end", "sigpipe"} THEN [ends EXCEPT ![c] = {}]
                                             ELSE ends
  /\ UNCHANGED <<pc, num_commands, i, redir_out, leaked>>

(* execvp starts a program; or it fails, or the child crashes: main passes *)
(* an array of arrays where execute_piped_commands takes an array of       *)
(* pointers, so that the child takes text for the address of its command.  *)
Exec(c) ==
  /\ child[c] = "wired"
  /\ Becomes(c, "prog") \/ Becomes(c, "end")
  /\ UNCHANGED <<held, written>>

-----------------------------------------------------------------------------
(* The programs: they read their input to the end and write some output.   *)

Runs(c) == child[c] \in {"prog", "eof"}
NoOneHolds(e) == \A p \in DOMAIN ends : e \notin ends[p]

Read(c) ==
  /\ child[c] = "prog"
  /\ <<c - 1, "r">> \in ends[c]
  /\ held[c - 1] > 0
  /\ held' = [held EXCEPT ![c - 1] = @ - 1]
  /\ Becomes(c, "prog")
  /\ UNCHANGED written

EndOfInput(c) ==
  /\ child[c] = "prog"
  /\ <<c - 1, "r">> \in ends[c]
  /\ held[c - 1] = 0
  /\ NoOneHolds(<<c - 1, "w">>)
  /\ Becomes(c, "eof")
  /\ UNCHANGED <<held, written>>

Write(c) ==
  /\ Runs(c)
  /\ <<c, "w">> \in ends[c]
  /\ written[c] < WRITES
  /\ held[c] < PIPE_BUF
  /\ ~NoOneHolds(<<c, "r">>)
  /\ held' = [held EXCEPT ![c] = @ + 1]
  /\ written' = [written EXCEPT ![c] = @ + 1]
  /\ Becomes(c, child[c])

Sigpipe(c) ==
  /\ Runs(c)
  /\ <<c, "w">> \in ends[c]
  /\ written[c] < WRITES
  /\ NoOneHolds(<<c, "r">>)
  /\ Becomes(c, "sigpipe")
  /\ UNCHANGED <<held, written>>

(* A program that has read and written everything ends.                    *)
Finish(c) ==
  /\ Runs(c)
  /\ child[c] = "eof" \/ <<c - 1, "r">> \notin ends[c]
  /\ written[c] = WRITES \/ <<c, "w">> \notin ends[c]
  /\ Becomes(c, "end")
  /\ UNCHANGED <<held, written>>

(* Any program may end at any time.                                        *)
ProgramQuits(c) ==
  /\ Runs(c)
  /\ Becomes(c, "end")
  /\ UNCHANGED <<held, written>>

-----------------------------------------------------------------------------
ShellStep == MakePipes \/ Fork \/ ClosePipes \/ Wait

ChildStep(c) ==
  \/ Wire(c) \/ Exec(c) \/ Read(c) \/ EndOfInput(c)
  \/ Write(c) \/ Sigpipe(c) \/ Finish(c)

ShellNext ==
  \/ Quit \/ PipedLine \/ SingleLine \/ ShellFails
  \/ ShellStep
  \/ \E c \in Commands : ChildStep(c) \/ ProgramQuits(c)

ShellSpec == ShellInit /\ [][ShellNext]_shellVars

-----------------------------------------------------------------------------
(* A program sees the end of its input only when the command before it has *)
(* ended, and gets SIGPIPE only when the command after it has ended or was *)
(* never started: no close call comes too early, in whatever order the     *)
(* processes run.                                                          *)
NoEarlyEnd ==
  [][\A c \in Commands :
       /\ (child[c] = "prog" /\ child'[c] = "eof")
            => HasEnded(c - 1) \/ (child[c - 1] = "none" /\ pc = "wait")
       /\ (Runs(c) /\ child'[c] = "sigpipe")
            => HasEnded(c + 1) \/ (child[c + 1] = "none" /\ pc = "exit")]_shellVars

(* Back at the prompt, the shell has no child that it has not waited for   *)
(* and no end of a pipe, and nobody else has.  That goes for a line that   *)
(* ends in `&' as well: `help' calls it a background job, but the shell    *)
(* waits for it like any other.  Files that a lost redirection has opened  *)
(* are not among what is closed: they are counted in `leaked'.             *)
CleanPrompt ==
  pc = "prompt" =>
    /\ \A c \in Commands : child[c] = "none"
    /\ \A p \in DOMAIN ends : ends[p] = {}
    /\ ~redir_out

(* Every command ends, and the shell comes back or exits: no process holds *)
(* an end of a pipe that keeps another one waiting, not even when the      *)
(* shell gives up with some of the commands started.                       *)
CommandsEnd ==
  []<>(/\ pc \in {"prompt", "exit"}
       /\ \A c \in Commands : child[c] = "none" \/ HasEnded(c))

=============================================================================

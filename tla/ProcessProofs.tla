---------------------------- MODULE ProcessProofs ----------------------------
(***************************************************************************)
(* 01_processes: what holds of the shell and its pipelines for every       *)
(* number of pipes, size of a pipe and number of descriptors, and of the   *)
(* draining server for every number of connections, messages, signals and  *)
(* spurious wake-ups.                                                      *)
(*                                                                         *)
(* The shell: who holds which pipe ends follows from the stage of each     *)
(* child and of the shell.  The server: active_connections is the number   *)
(* of connections whose thread is between increment_connections and        *)
(* decrement_connections, and main sleeps only while it is not zero.       *)
(***************************************************************************)
EXTENDS MiniShell, SignalServer, FiniteSetTheorems, TLAPS

(* mini_shell.                                                             *)

(* The stages of a child.                                                  *)
Gone == {"none", "end", "sigpipe"}
Wired == {"wired", "prog", "eof"}

ShellTypes ==
  /\ pc \in {"prompt", "pipe", "fork", "close", "wait", "exit"}
  /\ num_commands \in 0 .. MAX_PIPES + 1
  /\ i \in Nat
  /\ ends = [p \in {0} \cup Commands |-> ends[p]]
  /\ child \in [Commands -> Gone \cup Wired \cup {"born"}]
  /\ redir_out \in BOOLEAN

(* Who holds which pipe ends: before its dup2 and close calls a child has  *)
(* every end, after them its own two, and in the end none.                 *)
EndsInv ==
  \A c \in Commands :
    /\ child[c] \in Gone => ends[c] = {}
    /\ child[c] = "born" => ends[c] = Ends(num_commands)
    /\ child[c] \in Wired => ends[c] = Redirected(c)

(* The shell holds every end until it has forked the last command.         *)
HoldsInv ==
  ends[0] = IF pc \in {"fork", "close"} THEN Ends(num_commands) ELSE {}

(* Which commands are started and not yet waited for.                      *)
StartedInv ==
  /\ pc \in {"prompt", "pipe"} => \A c \in Commands : child[c] = "none"
  /\ pc = "pipe" => i = 1
  /\ pc = "fork" => i \in 1 .. num_commands
  /\ pc = "close" => i = num_commands + 1
  /\ pc = "wait" => i \in 1 .. num_commands
  /\ pc \in {"fork", "close"} =>
       \A c \in Commands : child[c] # "none" <=> c < i
  /\ pc = "wait" =>
       \A c \in Commands : child[c] # "none" <=> i <= c /\ c <= num_commands
  /\ pc = "exit" =>
       \A c, d \in Commands : d < c /\ child[c] # "none" => child[d] # "none"

(* An output file is open only for a single command.                       *)
RedirInv ==
  /\ pc \in {"prompt", "pipe"} => ~redir_out
  /\ pc = "close" /\ num_commands = 0 => ~redir_out

ShellInv == ShellTypes /\ EndsInv /\ HoldsInv /\ StartedInv /\ RedirInv

-----------------------------------------------------------------------------
(* The shell is not one of its children.                                   *)
LEMMA ShellFacts ==
  /\ MAX_PIPES \in Nat \ {0}
  /\ \A c \in Commands : c \in Nat /\ c >= 1 /\ c <= MAX_PIPES + 1
  /\ \A c \in Nat : c >= 1 /\ c <= MAX_PIPES + 1 => c \in Commands
  /\ 0 \notin Commands
BY ShellAssumption DEF Commands

(* The ends of the pipes of a line of n commands.                          *)
LEMMA EndsFacts ==
  ASSUME NEW n \in Nat, NEW k, NEW d
  PROVE  <<k, d>> \in Ends(n) <=> k \in 1 .. n - 1 /\ d \in {"r", "w"}
BY DEF Ends

(* A line of no command, or of one, has no pipes.                          *)
LEMMA NoPipes == Ends(0) = {} /\ Ends(1) = {}
<1>1. 1 .. 0 - 1 = {} /\ 1 .. 1 - 1 = {}
  OBVIOUS
<1> QED
  BY <1>1 DEF Ends

(* A step of a child that has been started and does not vanish keeps what  *)
(* the shell knows of it.                                                  *)
LEMMA ChildKeeps ==
  ASSUME ShellInv, NEW c \in Commands, child[c] # "none",
         NEW s \in {"end", "sigpipe"} \cup Wired, NEW E,
         child' = [child EXCEPT ![c] = s], ends' = [ends EXCEPT ![c] = E],
         s \in {"end", "sigpipe"} => E = {},
         s \in Wired => E = Redirected(c),
         UNCHANGED <<pc, num_commands, i, redir_out>>
  PROVE  ShellInv'
<1> USE ShellFacts
<1>1. ShellTypes /\ EndsInv /\ HoldsInv /\ StartedInv /\ RedirInv
  BY DEF ShellInv
<1>2. /\ child'[c] = s /\ \A d \in Commands : d # c => child'[d] = child[d]
      /\ ends'[c] = E
      /\ \A p \in {0} \cup Commands : p # c => ends'[p] = ends[p]
      /\ s # "none" /\ s # "born"
  BY <1>1 DEF ShellTypes, Wired
<1>3. ShellTypes'
  BY <1>1 DEF ShellTypes, Gone
<1>4. EndsInv'
  <2>1. ASSUME NEW d \in Commands
        PROVE  /\ child'[d] \in Gone => ends'[d] = {}
               /\ child'[d] = "born" => ends'[d] = Ends(num_commands)'
               /\ child'[d] \in Wired => ends'[d] = Redirected(d)'
    <3>1. Redirected(d)' = Redirected(d) /\ Ends(num_commands)' = Ends(num_commands)
      BY DEF Redirected, Ends
    <3>2. CASE d = c
      BY <1>2, <3>1, <3>2 DEF Gone, Wired
    <3>3. CASE d # c
      BY <1>1, <1>2, <3>1, <3>3 DEF EndsInv
    <3> QED
      BY <3>2, <3>3
  <2> QED
    BY <2>1 DEF EndsInv
<1>5. HoldsInv'
  BY <1>1, <1>2 DEF HoldsInv, Ends
<1>6. StartedInv'
  BY <1>1, <1>2 DEF StartedInv
<1>7. RedirInv'
  BY <1>1 DEF RedirInv
<1> QED
  BY <1>3, <1>4, <1>5, <1>6, <1>7 DEF ShellInv

(* What a child does from its fork to its end.                             *)
LEMMA ChildStepKeeps ==
  ASSUME ShellInv, NEW c \in Commands, ChildStep(c) \/ ProgramQuits(c)
  PROVE  ShellInv'
<1>1. /\ EndsInv /\ ends = [p \in {0} \cup Commands |-> ends[p]]
      /\ child \in [Commands -> Gone \cup Wired \cup {"born"}]
  BY DEF ShellInv, ShellTypes
<1>2. ends = [ends EXCEPT ![c] = ends[c]]
  BY <1>1
<1>3. ASSUME NEW s \in {"end", "sigpipe"} \cup Wired, Becomes(c, s),
             child[c] \in Wired
      PROVE  ShellInv'
  <2>0. child[c] # "none" /\ UNCHANGED <<pc, num_commands, i, redir_out>>
        /\ child' = [child EXCEPT ![c] = s]
    BY <1>3 DEF Becomes, Wired
  <2>1. CASE s \in {"end", "sigpipe"}
    <3>1. ends' = [ends EXCEPT ![c] = {}] /\ s \notin Wired
      BY <1>3, <2>1 DEF Becomes, Wired
    <3> QED
      BY <2>0, <2>1, <3>1, ChildKeeps
  <2>2. CASE s \in Wired
    <3>1. ends' = [ends EXCEPT ![c] = ends[c]] /\ s \notin {"end", "sigpipe"}
      BY <1>2, <1>3, <2>2 DEF Becomes, Wired
    <3>2. ends[c] = Redirected(c)
      BY <1>1, <1>3 DEF EndsInv
    <3> QED
      BY <2>0, <2>2, <3>1, <3>2, ChildKeeps
  <2> QED
    BY <2>1, <2>2
<1>4. CASE Wire(c)
  <2>1. /\ child[c] # "none" /\ UNCHANGED <<pc, num_commands, i, redir_out>>
        /\ child' = [child EXCEPT ![c] = "wired"]
        /\ ends' = [ends EXCEPT ![c] = Redirected(c)]
        /\ "wired" \in Wired /\ "wired" \notin {"end", "sigpipe"}
    BY <1>4 DEF Wire, Wired
  <2> QED
    BY <2>1, ChildKeeps
<1>5. CASE Exec(c)
  BY <1>3, <1>5 DEF Exec, Wired
<1>6. CASE Read(c) \/ EndOfInput(c)
  BY <1>3, <1>6 DEF Read, EndOfInput, Wired
<1>7. CASE Write(c)
  <2>1. child[c] \in Wired /\ Becomes(c, child[c])
    BY <1>7 DEF Write, Runs, Wired
  <2> QED
    BY <1>3, <2>1
<1>8. CASE Sigpipe(c) \/ Finish(c) \/ ProgramQuits(c)
  BY <1>3, <1>8 DEF Sigpipe, Finish, ProgramQuits, Runs, Wired
<1> QED
  BY <1>4, <1>5, <1>6, <1>7, <1>8 DEF ChildStep

(* The shell itself, one case per action.                                  *)
LEMMA ShellStepKeeps ==
  ASSUME ShellInv,
         \/ Quit \/ PipedLine \/ SingleLine \/ ShellFails \/ ShellStep
         \/ UNCHANGED shellVars
  PROVE  ShellInv'
<1> USE ShellFacts
<1>0. /\ ShellTypes /\ EndsInv /\ HoldsInv /\ StartedInv /\ RedirInv
      /\ i \in Nat /\ num_commands \in Nat /\ num_commands <= MAX_PIPES + 1
  BY DEF ShellInv, ShellTypes
<1>1. CASE Quit
  <2>1. ShellTypes' /\ HoldsInv' /\ StartedInv' /\ RedirInv'
    BY <1>0, <1>1
    DEF Quit, commands, ShellTypes, HoldsInv, StartedInv, RedirInv
  <2>2. EndsInv'
    BY <1>0, <1>1 DEF Quit, commands, EndsInv, Ends, Redirected
  <2> QED
    BY <2>1, <2>2 DEF ShellInv
<1>2. CASE PipedLine \/ SingleLine
  <2>1. ShellTypes'
    <3>1. num_commands' \in 0 .. MAX_PIPES + 1 /\ i' \in Nat
      BY <1>2 DEF PipedLine, SingleLine
    <3>2. redir_out' \in BOOLEAN
      BY <1>0, <1>2 DEF PipedLine, SingleLine, ShellTypes
    <3>3. pc' \in {"pipe", "fork"} /\ ends' = ends /\ child' = child
      BY <1>2 DEF PipedLine, SingleLine, commands
    <3> QED
      BY <1>0, <3>1, <3>2, <3>3 DEF ShellTypes
  <2>2. \A c \in Commands : child'[c] = "none" /\ ends'[c] = {}
    BY <1>0, <1>2 DEF PipedLine, SingleLine, commands, StartedInv, EndsInv, Gone
  <2>3. EndsInv'
    BY <2>2 DEF EndsInv, Gone, Wired
  <2>4. HoldsInv'
    BY <1>0, <1>2, NoPipes DEF PipedLine, SingleLine, commands, HoldsInv
  <2>5. StartedInv'
    BY <1>2, <2>2 DEF PipedLine, SingleLine, StartedInv
  <2>6. RedirInv'
    BY <1>0, <1>2 DEF PipedLine, SingleLine, RedirInv
  <2> QED
    BY <2>1, <2>3, <2>4, <2>5, <2>6 DEF ShellInv
<1>3. CASE ShellFails
  <2>0. \A c \in Commands : ends'[c] = ends[c]
    BY <1>0, <1>3 DEF ShellFails, ShellTypes
  <2>1. ShellTypes' /\ HoldsInv' /\ RedirInv'
    BY <1>0, <1>3 DEF ShellFails, ShellTypes, HoldsInv, RedirInv
  <2>2. EndsInv'
    BY <1>0, <1>3, <2>0 DEF ShellFails, EndsInv, Ends, Redirected
  <2>3. StartedInv'
    BY <1>0, <1>3 DEF ShellFails, StartedInv
  <2> QED
    BY <2>1, <2>2, <2>3 DEF ShellInv
<1>4. CASE MakePipes
  <2>0. /\ pc = "pipe" /\ i = 1 /\ i' = i /\ num_commands' = num_commands
        /\ child' = child /\ redir_out' = redir_out
        /\ pc' = IF num_commands = 0 THEN "close" ELSE "fork"
        /\ ends'[0] = Ends(num_commands)
        /\ \A c \in Commands : ends'[c] = ends[c] /\ child[c] = "none"
    BY <1>0, <1>4 DEF MakePipes, ShellTypes, StartedInv
  <2>1. ShellTypes'
    BY <1>0, <1>4 DEF MakePipes, ShellTypes
  <2>2. EndsInv'
    BY <1>0, <2>0 DEF EndsInv, Gone, Wired
  <2>3. HoldsInv'
    BY <2>0 DEF HoldsInv
  <2>4. StartedInv'
    BY <1>0, <2>0 DEF StartedInv
  <2>5. RedirInv'
    BY <1>0, <2>0 DEF RedirInv
  <2> QED
    BY <2>1, <2>2, <2>3, <2>4, <2>5 DEF ShellInv
<1>5. CASE Fork
  <2>0. /\ pc = "fork" /\ i \in Commands /\ i' = i + 1 /\ i \in 1 .. num_commands
        /\ num_commands' = num_commands /\ redir_out' = redir_out
        /\ pc' = IF i = num_commands THEN "close" ELSE "fork"
        /\ child'[i] = "born" /\ ends'[i] = ends[0]
        /\ ends'[0] = ends[0]
        /\ \A c \in Commands : c # i => ends'[c] = ends[c] /\ child'[c] = child[c]
    BY <1>0, <1>5 DEF Fork, ShellTypes, StartedInv
  <2>1. ShellTypes'
    <3>1. child' \in [Commands -> Gone \cup Wired \cup {"born"}]
      BY <1>0, <1>5, <2>0 DEF Fork, ShellTypes
    <3>2. ends' = [p \in {0} \cup Commands |-> ends'[p]]
      BY <1>0, <1>5 DEF Fork, ShellTypes
    <3>3. i' \in Nat /\ pc' \in {"close", "fork"}
      BY <1>0, <2>0
    <3> QED
      BY <1>0, <2>0, <3>1, <3>2, <3>3 DEF ShellTypes
  <2>2. EndsInv'
    <3>1. ends'[i] = Ends(num_commands)
      BY <1>0, <2>0 DEF HoldsInv
    <3>2. ASSUME NEW c \in Commands
          PROVE  /\ child'[c] \in Gone => ends'[c] = {}
                 /\ child'[c] = "born" => ends'[c] = Ends(num_commands)'
                 /\ child'[c] \in Wired => ends'[c] = Redirected(c)'
      <4>1. Redirected(c)' = Redirected(c) /\ Ends(num_commands)' = Ends(num_commands)
        BY <2>0 DEF Redirected, Ends
      <4>2. CASE c = i
        BY <2>0, <3>1, <4>1, <4>2 DEF Gone, Wired
      <4>3. CASE c # i
        BY <1>0, <2>0, <4>1, <4>3 DEF EndsInv
      <4> QED
        BY <4>2, <4>3
    <3> QED
      BY <3>2 DEF EndsInv
  <2>3. HoldsInv'
    BY <1>0, <2>0 DEF HoldsInv
  <2>4. StartedInv'
    BY <1>0, <2>0 DEF StartedInv
  <2>5. RedirInv'
    BY <1>0, <2>0 DEF RedirInv
  <2> QED
    BY <2>1, <2>2, <2>3, <2>4, <2>5 DEF ShellInv
<1>6. CASE ClosePipes
  <2>0. /\ pc = "close" /\ i = num_commands + 1 /\ i' = 1
        /\ num_commands' = num_commands /\ redir_out' = redir_out
        /\ pc' = IF num_commands = 0 THEN "prompt" ELSE "wait"
        /\ child' = child /\ ends'[0] = {}
        /\ \A c \in Commands : ends'[c] = ends[c]
    BY <1>0, <1>6 DEF ClosePipes, ShellTypes, StartedInv
  <2>1. ShellTypes'
    BY <1>0, <1>6 DEF ClosePipes, ShellTypes
  <2>2. EndsInv'
    BY <1>0, <2>0 DEF EndsInv, Ends, Redirected
  <2>3. HoldsInv'
    BY <2>0 DEF HoldsInv
  <2>4. StartedInv'
    BY <1>0, <2>0 DEF StartedInv
  <2>5. RedirInv'
    BY <1>0, <2>0 DEF RedirInv
  <2> QED
    BY <2>1, <2>2, <2>3, <2>4, <2>5 DEF ShellInv
<1>7. CASE Wait
  <2>0. /\ pc = "wait" /\ i \in Commands /\ i' = i + 1 /\ i \in 1 .. num_commands
        /\ num_commands' = num_commands /\ ends' = ends
        /\ \/ i = num_commands /\ pc' = "prompt" /\ redir_out' = FALSE
           \/ i # num_commands /\ pc' = pc /\ redir_out' = redir_out
        /\ child'[i] = "none" /\ child[i] \in Gone
        /\ \A c \in Commands : c # i => child'[c] = child[c]
    BY <1>0, <1>7
    DEF Wait, ShellTypes, StartedInv, LastToWaitFor, HasEnded, Gone
  <2>1. ShellTypes'
    <3>1. child' \in [Commands -> Gone \cup Wired \cup {"born"}]
      BY <1>0, <1>7, <2>0 DEF Wait, ShellTypes, Gone
    <3>2. redir_out' \in BOOLEAN
      BY <1>0, <2>0 DEF ShellTypes
    <3>3. i' \in Nat /\ pc' \in {"prompt", "wait"}
      BY <1>0, <2>0
    <3> QED
      BY <1>0, <2>0, <3>1, <3>2, <3>3 DEF ShellTypes
  <2>2. EndsInv'
    <3>1. ASSUME NEW c \in Commands
          PROVE  /\ child'[c] \in Gone => ends'[c] = {}
                 /\ child'[c] = "born" => ends'[c] = Ends(num_commands)'
                 /\ child'[c] \in Wired => ends'[c] = Redirected(c)'
      <4>1. Redirected(c)' = Redirected(c) /\ Ends(num_commands)' = Ends(num_commands)
        BY <2>0 DEF Redirected, Ends
      <4>2. CASE c = i
        BY <1>0, <2>0, <4>1, <4>2 DEF EndsInv, Wired
      <4>3. CASE c # i
        BY <1>0, <2>0, <4>1, <4>3 DEF EndsInv
      <4> QED
        BY <4>2, <4>3
    <3> QED
      BY <3>1 DEF EndsInv
  <2>3. HoldsInv'
    BY <1>0, <2>0 DEF HoldsInv
  <2>4. StartedInv'
    <3>1. ASSUME NEW c \in Commands
          PROVE  child'[c] # "none" <=> i' <= c /\ c <= num_commands'
      BY <1>0, <2>0 DEF StartedInv
    <3> QED
      BY <1>0, <2>0, <3>1 DEF StartedInv
  <2>5. RedirInv'
    BY <1>0, <2>0 DEF RedirInv
  <2> QED
    BY <2>1, <2>2, <2>3, <2>4, <2>5 DEF ShellInv
<1>8. CASE UNCHANGED shellVars
  <2>1. ShellTypes' /\ HoldsInv' /\ StartedInv' /\ RedirInv'
    BY <1>0, <1>8
    DEF shellVars, ShellTypes, HoldsInv, StartedInv, RedirInv
  <2>2. EndsInv'
    BY <1>0, <1>8 DEF shellVars, EndsInv, Ends, Redirected
  <2> QED
    BY <2>1, <2>2 DEF ShellInv
<1> HIDE ShellFacts
<1> QED
  BY <1>1, <1>2, <1>3, <1>4, <1>5, <1>6, <1>7, <1>8 DEF ShellStep

(* The pipe ends of every process and the shell's bookkeeping, in every    *)
(* state.                                                                  *)
THEOREM ShellCorrect == ShellSpec => []ShellInv
<1>1. ShellInit => ShellInv
  <2> SUFFICES ASSUME ShellInit PROVE ShellInv
    OBVIOUS
  <2>1. \A c \in Commands : child[c] = "none" /\ ends[c] = {}
    BY DEF ShellInit
  <2>2. ShellTypes
    <3>1. num_commands \in 0 .. MAX_PIPES + 1 /\ i \in Nat
      BY ShellFacts DEF ShellInit
    <3>2. child \in [Commands -> Gone \cup Wired \cup {"born"}]
      BY DEF ShellInit, Gone
    <3>3. ends = [p \in {0} \cup Commands |-> ends[p]]
      BY DEF ShellInit
    <3> QED
      BY <3>1, <3>2, <3>3 DEF ShellInit, ShellTypes
  <2>3. EndsInv
    BY <2>1 DEF EndsInv, Gone, Wired
  <2>4. HoldsInv /\ RedirInv
    BY DEF ShellInit, HoldsInv, RedirInv
  <2>5. StartedInv
    BY <2>1 DEF ShellInit, StartedInv
  <2> QED
    BY <2>2, <2>3, <2>4, <2>5 DEF ShellInv
<1>2. ShellInv /\ [ShellNext]_shellVars => ShellInv'
  BY ChildStepKeeps, ShellStepKeeps DEF ShellNext
<1> QED
  BY <1>1, <1>2, PTL DEF ShellSpec

(* Back at the prompt, every child was waited for, no process holds a pipe *)
(* end and no output file of a command is open.                            *)
THEOREM PromptIsClean == ShellSpec => []CleanPrompt
<1>1. ShellInv => CleanPrompt
  <2> SUFFICES ASSUME ShellInv, pc = "prompt"
               PROVE  /\ \A c \in Commands : child[c] = "none"
                      /\ \A p \in DOMAIN ends : ends[p] = {}
                      /\ ~redir_out
    BY DEF CleanPrompt
  <2>1. \A c \in Commands : child[c] = "none"
    BY DEF ShellInv, StartedInv
  <2>2. ends[0] = {} /\ \A c \in Commands : ends[c] = {}
    BY <2>1 DEF ShellInv, HoldsInv, EndsInv, Gone
  <2>3. DOMAIN ends = {0} \cup Commands
    BY DEF ShellInv, ShellTypes
  <2>4. ~redir_out
    BY DEF ShellInv, RedirInv
  <2> QED
    BY <2>1, <2>2, <2>3, <2>4
<1> QED
  BY <1>1, ShellCorrect, PTL

-----------------------------------------------------------------------------
(* An end of a pipe that nobody holds.                                     *)
LEMMA WriterGone ==
  ASSUME ShellInv, NEW c \in Commands, child[c] \in Wired,
         <<c - 1, "r">> \in ends[c], NoOneHolds(<<c - 1, "w">>)
  PROVE  HasEnded(c - 1) \/ (child[c - 1] = "none" /\ pc = "wait")
<1> USE ShellFacts
<1>0. /\ ShellTypes /\ EndsInv /\ HoldsInv /\ StartedInv
      /\ num_commands \in Nat /\ num_commands <= MAX_PIPES + 1
      /\ DOMAIN ends = {0} \cup Commands
  BY DEF ShellInv, ShellTypes
<1>1. <<c - 1, "r">> \in Ends(num_commands)
  BY <1>0 DEF EndsInv, Redirected
<1>2. c - 1 \in 1 .. num_commands - 1
  BY <1>0, <1>1, EndsFacts
<1>3. <<c - 1, "w">> \in Ends(num_commands)
  BY <1>0, <1>2, EndsFacts
<1>4. c - 1 \in Commands /\ c <= num_commands
  BY <1>0, <1>2
<1>5. ends[0] # Ends(num_commands) /\ ends[c - 1] # Ends(num_commands)
  BY <1>0, <1>3, <1>4 DEF NoOneHolds
<1>6. child[c - 1] \notin Wired
  <2>1. <<c - 1, "w">> \in Redirected(c - 1)
    BY <1>3 DEF Redirected
  <2> QED
    BY <1>0, <1>4, <2>1 DEF EndsInv, NoOneHolds
<1>7. child[c - 1] # "born"
  BY <1>0, <1>4, <1>5 DEF EndsInv
<1>8. child[c - 1] \in Gone
  BY <1>0, <1>4, <1>6, <1>7 DEF ShellTypes
<1>9. pc \notin {"fork", "close"}
  BY <1>0, <1>5 DEF HoldsInv
<1>10. child[c] # "none"
  BY DEF Wired
<1>11. CASE child[c - 1] = "none"
  <2>1. c - 1 < c
    OBVIOUS
  <2>2. pc \notin {"prompt", "pipe", "exit"}
    BY <1>0, <1>4, <1>10, <1>11, <2>1 DEF StartedInv
  <2>3. pc = "wait"
    BY <1>0, <1>9, <2>2 DEF ShellTypes
  <2> QED
    BY <1>11, <2>3
<1>12. CASE child[c - 1] # "none"
  BY <1>8, <1>12 DEF Gone, HasEnded
<1> QED
  BY <1>11, <1>12

(* The same of the reading end.                                            *)
LEMMA ReaderGone ==
  ASSUME ShellInv, NEW c \in Commands, child[c] \in Wired,
         <<c, "w">> \in ends[c], NoOneHolds(<<c, "r">>)
  PROVE  HasEnded(c + 1) \/ (child[c + 1] = "none" /\ pc = "exit")
<1> USE ShellFacts
<1>0. /\ ShellTypes /\ EndsInv /\ HoldsInv /\ StartedInv
      /\ num_commands \in Nat /\ num_commands <= MAX_PIPES + 1
      /\ DOMAIN ends = {0} \cup Commands
  BY DEF ShellInv, ShellTypes
<1>1. <<c, "w">> \in Ends(num_commands)
  BY <1>0 DEF EndsInv, Redirected
<1>2. c \in 1 .. num_commands - 1
  BY <1>0, <1>1, EndsFacts
<1>3. <<c, "r">> \in Ends(num_commands)
  BY <1>0, <1>2, EndsFacts
<1>4. c + 1 \in Commands /\ c + 1 <= num_commands /\ (c + 1) - 1 = c
  BY <1>0, <1>2
<1>5. ends[0] # Ends(num_commands) /\ ends[c + 1] # Ends(num_commands)
  BY <1>0, <1>3, <1>4 DEF NoOneHolds
<1>6. child[c + 1] \notin Wired
  <2>1. <<c, "r">> \in Redirected(c + 1)
    BY <1>3, <1>4 DEF Redirected
  <2> QED
    BY <1>0, <1>4, <2>1 DEF EndsInv, NoOneHolds
<1>7. child[c + 1] # "born"
  BY <1>0, <1>4, <1>5 DEF EndsInv
<1>8. child[c + 1] \in Gone
  BY <1>0, <1>4, <1>6, <1>7 DEF ShellTypes
<1>9. pc \notin {"fork", "close"}
  BY <1>0, <1>5 DEF HoldsInv
<1>10. child[c] # "none"
  BY DEF Wired
<1>11. CASE child[c + 1] = "none"
  <2>1. pc \notin {"prompt", "pipe"}
    BY <1>0, <1>10 DEF StartedInv
  <2>2. pc # "wait"
    <3>1. ASSUME pc = "wait" PROVE FALSE
      <4>1. i <= c /\ i \in Nat
        BY <1>0, <1>10, <3>1 DEF StartedInv, ShellTypes
      <4>2. i <= c + 1
        BY <4>1
      <4> QED
        BY <1>0, <1>4, <1>11, <3>1, <4>2 DEF StartedInv
    <3> QED
      BY <3>1
  <2>3. pc = "exit"
    BY <1>0, <1>9, <2>1, <2>2 DEF ShellTypes
  <2> QED
    BY <1>11, <2>3
<1>12. CASE child[c + 1] # "none"
  BY <1>8, <1>12 DEF Gone, HasEnded
<1> QED
  BY <1>11, <1>12

(* No close call comes too early: a program sees the end of its input only *)
(* when the command before it has ended, and gets SIGPIPE only when the    *)
(* command after it has ended or was never started.                        *)
THEOREM PipesEndInOrder == ShellSpec => NoEarlyEnd
<1> DEFINE A(c) ==
      /\ (child[c] = "prog" /\ child'[c] = "eof")
           => HasEnded(c - 1) \/ (child[c - 1] = "none" /\ pc = "wait")
      /\ (Runs(c) /\ child'[c] = "sigpipe")
           => HasEnded(c + 1) \/ (child[c + 1] = "none" /\ pc = "exit")
<1>1. ShellInv /\ [ShellNext]_shellVars => [\A c \in Commands : A(c)]_shellVars
  <2> SUFFICES ASSUME ShellInv, ShellNext, NEW c \in Commands PROVE A(c)
    OBVIOUS
  <2>0. child \in [Commands -> Gone \cup Wired \cup {"born"}]
    BY DEF ShellInv, ShellTypes
  <2>1. ASSUME child[c] = "prog", child'[c] = "eof"
        PROVE  EndOfInput(c)
    <3>1. ASSUME NEW d \in Commands, ChildStep(d) \/ ProgramQuits(d), d # c
          PROVE  child'[c] = child[c]
      BY <2>0, <3>1 DEF ChildStep, ProgramQuits, Wire, Exec, Read, EndOfInput,
         Write, Sigpipe, Finish, Becomes
    <3>2. ASSUME ChildStep(c) \/ ProgramQuits(c) PROVE EndOfInput(c)
      BY <2>0, <2>1, <3>2 DEF ChildStep, ProgramQuits, Wire, Exec, Read, Write,
         Sigpipe, Finish, Becomes
    <3>3. ASSUME Quit \/ PipedLine \/ SingleLine \/ ShellFails \/ ShellStep
          PROVE  FALSE
      <4>1. CASE Wait \/ Fork
        BY <2>0, <2>1, <4>1 DEF Wait, Fork, ShellTypes
      <4>2. CASE \/ Quit \/ PipedLine \/ SingleLine \/ ShellFails
                 \/ MakePipes \/ ClosePipes
        BY <2>1, <4>2 DEF Quit, PipedLine, SingleLine, ShellFails, MakePipes,
           ClosePipes, commands
      <4> QED
        BY <3>3, <4>1, <4>2 DEF ShellStep
    <3> QED
      BY <2>1, <3>1, <3>2, <3>3 DEF ShellNext
  <2>2. ASSUME Runs(c), child'[c] = "sigpipe"
        PROVE  Sigpipe(c)
    <3>0. child[c] \in {"prog", "eof"}
      BY <2>2 DEF Runs
    <3>1. ASSUME NEW d \in Commands, ChildStep(d) \/ ProgramQuits(d), d # c
          PROVE  child'[c] = child[c]
      BY <2>0, <3>1 DEF ChildStep, ProgramQuits, Wire, Exec, Read, EndOfInput,
         Write, Sigpipe, Finish, Becomes
    <3>2. ASSUME ChildStep(c) \/ ProgramQuits(c) PROVE Sigpipe(c)
      BY <2>0, <2>2, <3>0, <3>2 DEF ChildStep, ProgramQuits, Wire, Exec, Read,
         EndOfInput, Write, Finish, Becomes
    <3>3. ASSUME Quit \/ PipedLine \/ SingleLine \/ ShellFails \/ ShellStep
          PROVE  FALSE
      <4>1. CASE Wait \/ Fork
        BY <2>0, <2>2, <3>0, <4>1 DEF Wait, Fork
      <4>2. CASE \/ Quit \/ PipedLine \/ SingleLine \/ ShellFails
                 \/ MakePipes \/ ClosePipes
        BY <2>2, <3>0, <4>2 DEF Quit, PipedLine, SingleLine, ShellFails,
           MakePipes, ClosePipes, commands
      <4> QED
        BY <3>3, <4>1, <4>2 DEF ShellStep
    <3> QED
      BY <2>2, <3>0, <3>1, <3>2, <3>3 DEF ShellNext
  <2>3. ASSUME child[c] = "prog", child'[c] = "eof"
        PROVE  HasEnded(c - 1) \/ (child[c - 1] = "none" /\ pc = "wait")
    BY <2>1, <2>3, WriterGone DEF EndOfInput, Wired
  <2>4. ASSUME Runs(c), child'[c] = "sigpipe"
        PROVE  HasEnded(c + 1) \/ (child[c + 1] = "none" /\ pc = "exit")
    BY <2>2, <2>4, ReaderGone DEF Sigpipe, Runs, Wired
  <2> QED
    BY <2>3, <2>4
<1> QED
  BY <1>1, ShellCorrect, PTL DEF ShellSpec, NoEarlyEnd

-----------------------------------------------------------------------------
(* signal_handlers: the draining server.                                   *)

(* The connections that are counted in.                                    *)
CountedSet == {c \in Conns : Counted(c)}

(* The counter is exact.  A client that has not called has no connection.  *)
CountInv ==
  /\ active_connections = Cardinality(CountedSet)
  /\ \A c \in Conns : peer[c] = "away" => conn[c] = "none"

(* main sleeps only in its drain loop, with the shutdown flag set and at   *)
(* least one connection to wait for.                                       *)
SleepInv ==
  /\ main \in {"drain", "wait", "cleanup", "exit"} => shutdown_requested
  /\ cond_drain # {} => main = "wait" /\ active_connections > 0

DrainInv == TypeOK /\ CountInv /\ SleepInv

(* The set of counted connections is finite, and no larger than Conns.     *)
LEMMA CountedFinite ==
  /\ IsFiniteSet(CountedSet)
  /\ Cardinality(CountedSet) \in 0 .. Cardinality(Conns)
<1>1. IsFiniteSet(Conns) /\ CountedSet \subseteq Conns
  BY ServerAssumption DEF CountedSet
<1> QED
  BY <1>1, FS_Subset, FS_CardinalityType

(* A thread that counts itself in adds one.                                *)
LEMMA CountsIn ==
  ASSUME NEW c \in Conns, ~Counted(c), CountedSet' = CountedSet \cup {c}
  PROVE  Cardinality(CountedSet') = Cardinality(CountedSet) + 1
<1>1. c \notin CountedSet
  BY DEF CountedSet
<1> QED
  BY <1>1, CountedFinite, FS_AddElement

(* A thread that counts itself out takes one away.                         *)
LEMMA CountsOut ==
  ASSUME NEW c \in Conns, Counted(c), CountedSet' = CountedSet \ {c}
  PROVE  Cardinality(CountedSet') = Cardinality(CountedSet) - 1
<1>1. c \in CountedSet
  BY DEF CountedSet
<1> QED
  BY <1>1, CountedFinite, FS_RemoveElement

(* A step that counts no connection in or out keeps the counter exact.     *)
LEMMA SameCount ==
  ASSUME CountInv, TypeOK, active_connections' = active_connections,
         \A c \in Conns : Counted(c)' <=> Counted(c),
         \A c \in Conns : peer'[c] = "away" => conn'[c] = "none"
  PROVE  CountInv'
<1>1. CountedSet' = CountedSet
  BY DEF CountedSet
<1> QED
  BY <1>1 DEF CountInv

(* pthread_cond_signal on a variable with main as its only sleeper.        *)
LEMMA SignalWakesMain ==
  ASSUME NEW waiting \in SUBSET {Main}, NEW left \in AfterSignal(waiting)
  PROVE  left = {}
BY DEF AfterSignal

(* A server that has just started has counted nobody.                      *)
LEMMA DrainInit == Init => DrainInv
<1> SUFFICES ASSUME Init PROVE DrainInv
  OBVIOUS
<1>1. Cardinality(Conns) \in Nat
  BY ServerAssumption, FS_CardinalityType
<1>2. TypeOK
  <2>1. 0 \in 0 .. Cardinality(Conns) /\ 0 \in 0 .. MESSAGES
        /\ 0 \in 0 .. MaxSignals /\ 0 \in 0 .. MaxSpurious
    BY <1>1, ServerAssumption
  <2> QED
    BY <2>1 DEF Init, TypeOK
<1>3. CountedSet = {}
  BY DEF Init, CountedSet, Counted
<1>4. CountInv
  BY <1>3, FS_EmptySet DEF Init, CountInv
<1>5. SleepInv
  BY DEF Init, SleepInv
<1> QED
  BY <1>2, <1>4, <1>5 DEF DrainInv

-----------------------------------------------------------------------------
(* Every step keeps the types, given that the counter is exact.            *)
LEMMA TypeStep == DrainInv /\ CountInv' /\ [Next]_vars => TypeOK'
<1> SUFFICES ASSUME DrainInv, CountInv', [Next]_vars PROVE TypeOK'
  OBVIOUS
<1>0. active_connections' \in 0 .. Cardinality(Conns)
  <2>1. IsFiniteSet(Conns) /\ CountedSet' \subseteq Conns
    BY ServerAssumption DEF CountedSet
  <2>2. Cardinality(CountedSet') \in 0 .. Cardinality(Conns)
    BY <2>1, FS_Subset, FS_CardinalityType
  <2> QED
    BY <2>2 DEF CountInv
<1>t. TypeOK
  BY DEF DrainInv
<1>1. CASE LoopTest \/ AcceptTimeout \/ AcceptError \/ Drained \/ CleanupAndExit
  BY <1>0, <1>1, <1>t DEF TypeOK, LoopTest, AcceptTimeout, AcceptError, Drained,
     CleanupAndExit, drainVars, peerVars, bounds
<1>2. ASSUME NEW c \in Conns, Accept(c) \/ SpawnFails(c) PROVE TypeOK'
  BY <1>0, <1>2, <1>t DEF TypeOK, Accept, SpawnFails, drainVars, peerVars, bounds
<1>3. CASE BeginShutdown
  BY <1>0, <1>3, <1>t DEF TypeOK, BeginShutdown, drainVars, peerVars, bounds
<1>4. CASE DrainWaits
  BY <1>0, <1>4, <1>t DEF TypeOK, DrainWaits, peerVars, bounds
<1>5. CASE SpuriousWakeup
  <2>1. spurious' \in 0 .. MaxSpurious
    BY <1>5, <1>t, ServerAssumption DEF TypeOK, SpuriousWakeup
  <2> QED
    BY <1>0, <1>5, <1>t, <2>1 DEF TypeOK, SpuriousWakeup, mainVars, peerVars
<1>6. ASSUME NEW c \in Conns, HandlerStep(c) PROVE TypeOK'
  <2>1. CASE Echo(c)
    BY <1>0, <2>1, <1>t DEF TypeOK, Echo, mainVars, drainVars, bounds
  <2>2. CASE increment_connections(c)
    BY <1>0, <2>2, <1>t DEF TypeOK, increment_connections, mainVars, peerVars, bounds
  <2>3. CASE EndOfFile(c) \/ CloseClient(c)
    BY <1>0, <2>3, <1>t DEF TypeOK, EndOfFile, CloseClient, mainVars, peerVars,
       bounds, drainVars
  <2>4. CASE decrement_connections(c)
    <3>1. cond_drain' \in SUBSET {Main}
      BY <2>4, <1>t, SignalWakesMain
      DEF TypeOK, decrement_connections, WakeWhenDrained
    <3> QED
      BY <1>0, <2>4, <1>t, <3>1 DEF TypeOK, decrement_connections, mainVars,
         peerVars, bounds
  <2> QED
    BY <1>6, <2>1, <2>2, <2>3, <2>4 DEF HandlerStep
<1>7. CASE SignalMain \/ \E c \in Conns : SignalWorker(c) \/ InterruptRead(c)
  <2>1. SignalFlag
    BY <1>7 DEF SignalMain, SignalWorker, InterruptRead
  <2>2. signals' \in 0 .. MaxSignals
    BY <2>1, <1>t, ServerAssumption DEF TypeOK, SignalFlag
  <2>3. /\ main' \in {"loop", "accept", "flag", "drain", "wait", "cleanup", "exit"}
        /\ conn' \in [Conns -> {"none", "backlog", "started", "serving", "closing",
                                "closed", "done", "dropped"}]
        /\ cut_off' \in SUBSET Conns
    BY <1>7, <1>t DEF TypeOK, SignalMain, SignalWorker, InterruptRead
  <2> QED
    BY <1>0, <2>1, <2>2, <2>3, <1>t DEF TypeOK, SignalFlag, drainVars, peerVars
<1>8. ASSUME NEW c \in Conns, Connect(c) \/ ConnectFails(c) \/ PeerStep(c)
      PROVE  TypeOK'
  <2>1. CASE Send(c)
    <3>1. sent[c] + 1 \in 0 .. MESSAGES
      BY <2>1, <1>t, ServerAssumption DEF TypeOK, Send
    <3>2. sent' \in [Conns -> 0 .. MESSAGES]
      BY <2>1, <1>t, <3>1 DEF TypeOK, Send
    <3> QED
      BY <1>0, <2>1, <1>t, <3>2 DEF TypeOK, Send, mainVars, drainVars, bounds
  <2>2. CASE Connect(c)
    BY <1>0, <2>2, <1>t DEF TypeOK, Connect, mainVars, drainVars, bounds
  <2>3. CASE \/ ConnectFails(c) \/ SendFails(c) \/ ClientKilled(c)
             \/ Receive(c) \/ HangUp(c)
    BY <1>0, <2>3, <1>t DEF TypeOK, ConnectFails, SendFails, ClientKilled, Receive,
       HangUp, mainVars, drainVars, bounds
  <2> QED
    BY <1>8, <2>1, <2>2, <2>3 DEF PeerStep
<1>9. CASE UNCHANGED vars
  BY <1>9, <1>t DEF vars, TypeOK
<1> QED
  BY <1>1, <1>2, <1>3, <1>4, <1>5, <1>6, <1>7, <1>8, <1>9
  DEF Next, MainStep, Ended

(* Every step keeps the counter exact: one case for the two that change    *)
(* it, and one for each way of moving a connection.                        *)
LEMMA CountStep == DrainInv /\ [Next]_vars => CountInv'
<1> SUFFICES ASSUME DrainInv, [Next]_vars PROVE CountInv'
  OBVIOUS
<1>t. TypeOK /\ CountInv
  BY DEF DrainInv
<1>1. ASSUME NEW c \in Conns, increment_connections(c) PROVE CountInv'
  <2>1. CountedSet' = CountedSet \cup {c} /\ ~Counted(c)
    BY <1>1, <1>t DEF TypeOK, CountedSet, Counted, increment_connections
  <2>2. Cardinality(CountedSet') = Cardinality(CountedSet) + 1
    BY <2>1, CountsIn
  <2> QED
    BY <1>1, <1>t, <2>2 DEF CountInv, increment_connections, TypeOK, peerVars
<1>2. ASSUME NEW c \in Conns, decrement_connections(c) PROVE CountInv'
  <2>1. CountedSet' = CountedSet \ {c} /\ Counted(c)
    BY <1>2, <1>t DEF TypeOK, CountedSet, Counted, decrement_connections
  <2>2. Cardinality(CountedSet') = Cardinality(CountedSet) - 1
    BY <2>1, CountsOut
  <2> QED
    BY <1>2, <1>t, <2>2 DEF CountInv, decrement_connections, TypeOK, peerVars
<1>3. ASSUME NEW c \in Conns,
             \/ Accept(c) \/ SpawnFails(c) \/ EndOfFile(c) \/ CloseClient(c)
             \/ InterruptRead(c)
      PROVE  CountInv'
  <2>1. \A d \in Conns : Counted(d)' <=> Counted(d)
    BY <1>3, <1>t DEF TypeOK, Counted, Accept, SpawnFails, EndOfFile, CloseClient,
       InterruptRead
  <2>2. active_connections' = active_connections /\ peer' = peer
    BY <1>3 DEF Accept, SpawnFails, EndOfFile, CloseClient, InterruptRead,
       SignalFlag, drainVars, peerVars
  <2>3. \A d \in Conns : peer'[d] = "away" => conn'[d] = "none"
    BY <1>3, <1>t, <2>2 DEF CountInv, TypeOK, Accept, SpawnFails, EndOfFile,
       CloseClient, InterruptRead
  <2> QED
    BY <1>t, <2>1, <2>2, <2>3, SameCount
<1>4. CASE BeginShutdown
  <2>1. /\ \A d \in Conns : Counted(d)' <=> Counted(d)
        /\ \A d \in Conns : peer'[d] = "away" => conn'[d] = "none"
    BY <1>4, <1>t DEF TypeOK, CountInv, Counted, BeginShutdown, peerVars
  <2>2. active_connections' = active_connections
    BY <1>4 DEF BeginShutdown, drainVars
  <2> QED
    BY <1>t, <2>1, <2>2, SameCount
<1>5. ASSUME NEW c \in Conns, Connect(c) PROVE CountInv'
  <2>1. /\ \A d \in Conns : Counted(d)' <=> Counted(d)
        /\ \A d \in Conns : peer'[d] = "away" => conn'[d] = "none"
    BY <1>5, <1>t DEF TypeOK, CountInv, Counted, Connect
  <2>2. active_connections' = active_connections
    BY <1>5 DEF Connect, drainVars
  <2> QED
    BY <1>t, <2>1, <2>2, SameCount
<1>6. ASSUME NEW c \in Conns, ConnectFails(c) \/ PeerStep(c) PROVE CountInv'
  <2>1. conn' = conn /\ active_connections' = active_connections
    BY <1>6 DEF ConnectFails, PeerStep, Send, SendFails, ClientKilled, Receive,
       HangUp, drainVars
  <2>2. \A d \in Conns : peer'[d] = "away" => peer[d] = "away"
    BY <1>6, <1>t DEF TypeOK, ConnectFails, PeerStep, Send, SendFails,
       ClientKilled, Receive, HangUp
  <2> QED
    BY <1>t, <2>1, <2>2, SameCount DEF CountInv, Counted
<1>7. CASE UNCHANGED <<conn, active_connections, peer>>
  BY <1>7, <1>t, SameCount DEF CountInv, Counted
<1> QED
  BY <1>1, <1>2, <1>3, <1>4, <1>5, <1>6, <1>7
  DEF Next, MainStep, HandlerStep, LoopTest, AcceptTimeout, AcceptError, DrainWaits,
      Drained, CleanupAndExit, SpuriousWakeup, SignalMain, SignalFlag, SignalWorker,
      Echo, Ended, vars, drainVars, peerVars

(* Every step keeps main from sleeping with nobody left to wake it.        *)
LEMMA SleepStep == DrainInv /\ CountInv' /\ [Next]_vars => SleepInv'
<1> SUFFICES ASSUME DrainInv, CountInv', [Next]_vars PROVE SleepInv'
  OBVIOUS
<1>t. TypeOK /\ CountInv /\ SleepInv
  BY DEF DrainInv
<1>1. ASSUME NEW c \in Conns, decrement_connections(c) PROVE SleepInv'
  <2>1. active_connections - 1 \in Nat
    <3>1. CountedSet' = CountedSet \ {c} /\ IsFiniteSet(CountedSet)
      BY <1>1, <1>t, CountedFinite DEF TypeOK, CountedSet, Counted, decrement_connections
    <3>2. Cardinality(CountedSet') \in Nat
      BY <3>1, FS_RemoveElement, FS_CardinalityType, FS_Subset
    <3> QED
      BY <1>1, <3>2 DEF CountInv, decrement_connections
  <2>2. CASE cond_drain' = cond_drain /\ active_connections - 1 # 0
    BY <1>1, <1>t, <2>1, <2>2 DEF SleepInv, decrement_connections, mainVars, TypeOK
  <2>3. CASE cond_drain' = {}
    BY <1>1, <1>t, <2>3 DEF SleepInv, decrement_connections, mainVars
  <2> QED
    BY <1>1, <1>t, <2>2, <2>3, SignalWakesMain
    DEF SleepInv, TypeOK, decrement_connections, WakeWhenDrained
<1>2. ASSUME NEW c \in Conns, increment_connections(c) PROVE SleepInv'
  BY <1>2, <1>t DEF SleepInv, TypeOK, increment_connections, mainVars
<1>3. CASE DrainWaits
  BY <1>3, <1>t DEF SleepInv, TypeOK, DrainWaits, StillActive
<1>4. CASE LoopTest \/ AcceptTimeout \/ AcceptError \/ Drained \/ CleanupAndExit
           \/ BeginShutdown \/ SpuriousWakeup
           \/ \E c \in Conns : Accept(c) \/ SpawnFails(c)
  BY <1>4, <1>t DEF SleepInv, TypeOK, LoopTest, AcceptTimeout, AcceptError, Drained,
     CleanupAndExit, BeginShutdown, SpuriousWakeup, Accept, SpawnFails, drainVars,
     mainVars
<1>5. CASE SignalMain \/ \E c \in Conns : SignalWorker(c) \/ InterruptRead(c)
  BY <1>5, <1>t DEF SleepInv, TypeOK, SignalMain, SignalWorker, InterruptRead,
     SignalFlag, drainVars
<1>6. CASE UNCHANGED <<main, shutdown_requested, cond_drain, active_connections>>
  BY <1>6, <1>t DEF SleepInv
<1> QED
  BY <1>1, <1>2, <1>3, <1>4, <1>5, <1>6
  DEF Next, MainStep, HandlerStep, PeerStep, Echo, EndOfFile, CloseClient, Connect,
      ConnectFails, Send, SendFails, ClientKilled, Receive, HangUp, Ended, vars,
      drainVars, mainVars

(* The counter is exact, and main is asleep only while it is above zero.   *)
THEOREM DrainCorrect == Spec => []DrainInv
<1>1. DrainInv /\ [Next]_vars => DrainInv'
  BY TypeStep, CountStep, SleepStep DEF DrainInv
<1> QED
  BY <1>1, DrainInit, PTL DEF Spec

(* The state of the server has its types; the counter never leaves the     *)
(* range from 0 to the number of connections.                              *)
THEOREM ServerTypes == Spec => []TypeOK
<1>1. DrainInv => TypeOK
  BY DEF DrainInv
<1> QED
  BY <1>1, DrainCorrect, PTL

(* main is never left asleep after the last connection has been counted    *)
(* out.                                                                    *)
THEOREM NoLostDrainWakeup == Spec => []NoSleepWhenDrained
<1>1. DrainInv => NoSleepWhenDrained
  BY DEF DrainInv, SleepInv, NoSleepWhenDrained
<1> QED
  BY <1>1, DrainCorrect, PTL

(* main finds the counter at 0 only when no counted connection is left.    *)
LEMMA DrainedCounts ==
  ASSUME DrainInv, Drained, NEW c \in Conns
  PROVE  ~Counted(c)
<1>1. Cardinality(CountedSet) = 0
  <2>1. Cardinality(CountedSet) \in Nat
    BY CountedFinite, FS_CardinalityType
  <2> QED
    BY <2>1 DEF Drained, StillActive, DrainInv, CountInv
<1>2. CountedSet = {}
  BY <1>1, CountedFinite, FS_EmptySet
<1> QED
  BY <1>2 DEF CountedSet

(* main leaves the drain only when no counted connection is left.          *)
THEOREM DrainWaitsForAll == Spec => DrainsCounted
<1> DEFINE AllOut == main # "cleanup" /\ main' = "cleanup" =>
                       \A c \in Conns : ~Counted(c)
<1>1. DrainInv /\ [Next]_vars => [AllOut]_vars
  <2> SUFFICES ASSUME DrainInv, Next, main # "cleanup", main' = "cleanup",
                      NEW c \in Conns
               PROVE  ~Counted(c)
    OBVIOUS
  <2>1. Drained
    BY DEF Next, MainStep, LoopTest, AcceptTimeout, AcceptError, Accept, SpawnFails,
       BeginShutdown, DrainWaits, CleanupAndExit, SpuriousWakeup, SignalMain,
       HandlerStep, increment_connections, Echo, EndOfFile, CloseClient,
       decrement_connections, SignalWorker, InterruptRead, Connect, ConnectFails,
       PeerStep, Send, SendFails, ClientKilled, Receive, HangUp, Ended, vars, mainVars,
       Running
  <2> QED
    BY <2>1, DrainedCounts
<1> QED
  BY <1>1, DrainCorrect, PTL DEF Spec, DrainsCounted

-----------------------------------------------------------------------------
(* Nobody can connect once the socket is closed.                           *)
ShutInv ==
  main \in {"drain", "wait", "cleanup", "exit"} =>
    /\ ~listening
    /\ \A c \in Conns : conn[c] # "backlog"

(* What is known of a connection: after the drain the threads that are     *)
(* left are those it did not wait for, and a connection that is being      *)
(* closed or was dropped is one that is cut off or one whose client has    *)
(* hung up.                                                                *)
ServedInv ==
  \A c \in Conns :
    /\ main \in {"cleanup", "exit"} /\ conn[c] \in {"started", "serving"} =>
         c \in cut_off
    /\ conn[c] = "dropped" => c \in cut_off
    /\ conn[c] \in {"closing", "closed", "done"} =>
         c \in cut_off \/ (peer[c] = "gone" /\ echoed[c] = sent[c])

(* Only BeginShutdown leads to the drain, and it resets the backlog.       *)
LEMMA ShutStep == TypeOK /\ ShutInv /\ [Next]_vars => ShutInv'
<1> SUFFICES ASSUME TypeOK, ShutInv, [Next]_vars PROVE ShutInv'
  OBVIOUS
<1>1. CASE BeginShutdown
  BY <1>1 DEF TypeOK, ShutInv, BeginShutdown
<1>2. CASE LoopTest \/ AcceptTimeout \/ AcceptError \/ SignalMain
  BY <1>2 DEF TypeOK, ShutInv, LoopTest, AcceptTimeout, AcceptError, SignalMain,
     SignalFlag
<1>3. CASE DrainWaits \/ Drained \/ CleanupAndExit
  BY <1>3 DEF TypeOK, ShutInv, DrainWaits, Drained, CleanupAndExit
<1>4. CASE \E c \in Conns : Accept(c) \/ SpawnFails(c)
  BY <1>4 DEF TypeOK, ShutInv, Accept, SpawnFails
<1>5. CASE \E c \in Conns : \/ increment_connections(c) \/ EndOfFile(c)
                            \/ CloseClient(c) \/ decrement_connections(c)
  BY <1>5 DEF TypeOK, ShutInv, increment_connections, EndOfFile, CloseClient,
     decrement_connections, mainVars
<1>6. CASE \E c \in Conns : InterruptRead(c)
  BY <1>6 DEF TypeOK, ShutInv, InterruptRead, SignalFlag
<1>7. CASE \E c \in Conns : Connect(c)
  BY <1>7 DEF TypeOK, ShutInv, Connect, mainVars
<1>8. CASE UNCHANGED <<main, listening, conn>>
  BY <1>8 DEF ShutInv
<1> QED
  BY <1>1, <1>2, <1>3, <1>4, <1>5, <1>6, <1>7, <1>8
  DEF Next, MainStep, HandlerStep, PeerStep, SpuriousWakeup, SignalWorker, SignalFlag,
      Echo, ConnectFails, Send, SendFails, ClientKilled, Receive, HangUp, Ended, vars,
      mainVars

(* Every step keeps what is known of each connection.                      *)
LEMMA ServedStep ==
  DrainInv /\ ShutInv /\ ServedInv /\ [Next]_vars => ServedInv'
<1> SUFFICES ASSUME DrainInv, ShutInv, ServedInv, [Next]_vars PROVE ServedInv'
  OBVIOUS
<1>t. TypeOK /\ CountInv
  BY DEF DrainInv
<1>1. CASE Drained
  <2>1. \A c \in Conns : ~Counted(c)
    BY <1>1, DrainedCounts
  <2> QED
    BY <1>1, <1>t, <2>1 DEF TypeOK, ServedInv, Drained, Counted, peerVars
<1>2. CASE BeginShutdown
  BY <1>2, <1>t DEF TypeOK, ServedInv, BeginShutdown, peerVars
<1>3. CASE LoopTest \/ AcceptTimeout \/ AcceptError \/ DrainWaits \/ CleanupAndExit
  BY <1>3, <1>t DEF TypeOK, ServedInv, LoopTest, AcceptTimeout, AcceptError,
     DrainWaits, CleanupAndExit, peerVars
<1>4. CASE \E c \in Conns : Accept(c) \/ SpawnFails(c)
  BY <1>4, <1>t DEF TypeOK, ServedInv, Accept, SpawnFails, peerVars
<1>5. CASE \E c \in Conns : \/ increment_connections(c) \/ EndOfFile(c)
                            \/ CloseClient(c) \/ decrement_connections(c)
  BY <1>5, <1>t DEF TypeOK, ServedInv, increment_connections, EndOfFile, CloseClient,
     decrement_connections, mainVars, peerVars
<1>6. CASE \E c \in Conns : InterruptRead(c)
  BY <1>6, <1>t DEF TypeOK, ServedInv, InterruptRead, SignalFlag, peerVars
<1>7. CASE SignalMain
  BY <1>7, <1>t DEF TypeOK, ServedInv, SignalMain, SignalFlag, peerVars
<1>8. CASE \E c \in Conns : Echo(c)
  BY <1>8, <1>t DEF TypeOK, ServedInv, Echo, mainVars
<1>9. CASE \E c \in Conns : Connect(c)
  BY <1>9, <1>t DEF TypeOK, CountInv, ServedInv, Connect, mainVars
<1>10. CASE \E c \in Conns : ConnectFails(c)
  BY <1>10, <1>t DEF TypeOK, CountInv, ServedInv, ConnectFails, mainVars
<1>11. CASE \E c \in Conns : PeerStep(c)
  BY <1>11, <1>t DEF TypeOK, ServedInv, PeerStep, Send, SendFails, ClientKilled,
     Receive, HangUp, mainVars
<1>12. CASE UNCHANGED <<main, conn, cut_off, peer, echoed, sent>>
  BY <1>12 DEF ServedInv
<1> QED
  BY <1>1, <1>2, <1>3, <1>4, <1>5, <1>6, <1>7, <1>8, <1>9, <1>10, <1>11, <1>12
  DEF Next, MainStep, HandlerStep, SpuriousWakeup, SignalFlag, SignalWorker, Ended,
      vars, mainVars, peerVars

(* The server's end of a connection closes, by close or by the end of the  *)
(* process, only when the client has hung up with every message echoed, or *)
(* when the connection is one of those that are cut off: a signal          *)
(* interrupted its read, pthread_create failed, it was in the backlog, or  *)
(* it was not counted in when the drain ended.                             *)
THEOREM ClientsAreServedToTheEnd == Spec => []ServedToTheEnd
<1>1. Init => ShutInv /\ ServedInv
  BY DEF Init, ShutInv, ServedInv
<1>2. DrainInv /\ ShutInv /\ ServedInv /\ [Next]_vars => ShutInv' /\ ServedInv'
  BY ShutStep, ServedStep DEF DrainInv
<1>3. DrainInv /\ ShutInv /\ ServedInv => ServedToTheEnd
  BY DEF DrainInv, TypeOK, ShutInv, ServedInv, ServedToTheEnd, ServerClosed, Running
<1> QED
  BY <1>1, <1>2, <1>3, DrainCorrect, PTL DEF Spec

=============================================================================

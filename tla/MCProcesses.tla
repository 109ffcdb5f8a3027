---------------------------- MODULE MCProcesses ----------------------------
(* Model values for the run of the shell and of the server with its signals, *)
(* two programs that share nothing.  A behaviour here runs one of them, so   *)
(* that the states of both are reached and not their product.                *)
EXTENDS SignalServer, MiniShell

CONSTANTS c1, c2

processVars == <<vars, shellVars>>

ProcessesInit == Init /\ ShellInit

ServerOnly == ShellInit
ShellOnly == Init

(* The shell is gone, and so is every command.                               *)
ShellEnded ==
  /\ pc = "exit"
  /\ \A c \in Commands : child[c] = "none" \/ HasEnded(c)
  /\ UNCHANGED processVars

ProcessesNext ==
  \/ ServerOnly /\ Next /\ UNCHANGED shellVars
  \/ ShellOnly /\ ShellNext /\ UNCHANGED vars
  \/ ShellEnded

(* The scheduler runs the server's threads, and the clients, once connected, *)
(* talk and hang up as client.c does; it runs the shell and every child.  No *)
(* client need connect, no signal need arrive and nobody need type.  A step  *)
(* in which a call of the shell fails is the way out where the other one     *)
(* cannot be taken.                                                          *)
ProcessesSpec ==
  /\ ProcessesInit /\ [][ProcessesNext]_processVars
  /\ WF_processVars(ServerOnly /\ MainStep /\ UNCHANGED shellVars)
  /\ \A c \in Conns :
       /\ WF_processVars(ServerOnly /\ HandlerStep(c) /\ UNCHANGED shellVars)
       /\ WF_processVars(ServerOnly /\ PeerStep(c) /\ UNCHANGED shellVars)
  /\ WF_processVars(ShellOnly /\ (ShellStep \/ ShellFails) /\ UNCHANGED vars)
  /\ \A c \in Commands :
       WF_processVars(ShellOnly /\ ChildStep(c) /\ UNCHANGED vars)

=============================================================================

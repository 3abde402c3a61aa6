------------------------------- MODULE Mailboxes -------------------------------
(***************************************************************************)
(* What a command manager (ICommandManager: RoutableAppCmdManager)         *)
(* promises about the commands it is given, whatever it does with          *)
(* channels, pending queues and the threads that take those apart: a       *)
(* command is sent at once, or put at the end of a box of commands that    *)
(* all go the same way, from which only the first one is ever sent; and    *)
(* whoever asked for it is given its result once, after it was sent.       *)
(*                                                                         *)
(* This module models no code.  It is the specification that CmdRouting is *)
(* shown to implement.                                                     *)
(***************************************************************************)
EXTENDS Naturals, Sequences

CONSTANTS
  Commands,   \* the commands
  Boxes,      \* the boxes
  Dest,       \* Dest[c]: where c goes
  Asked       \* the commands whose result somebody asked for

VARIABLES
  fresh,      \* the commands that were neither put nor sent yet
  box,        \* box[b]: what waits in box b, in order
  sent,       \* what was sent, in order
  replied     \* replied[c]: how often the result of c was given

vars == <<fresh, box, sent, replied>>

Init ==
  /\ fresh = Commands
  /\ box = [b \in Boxes |-> <<>>]
  /\ sent = <<>>
  /\ replied = [c \in Commands |-> 0]

Put(c, b) ==
  /\ c \in fresh
  /\ \A i \in DOMAIN box[b] : Dest[box[b][i]] = Dest[c]
  /\ fresh' = fresh \ {c}
  /\ box' = [box EXCEPT ![b] = Append(@, c)]
  /\ UNCHANGED <<sent, replied>>

SendNow(c) ==
  /\ c \in fresh
  /\ fresh' = fresh \ {c}
  /\ sent' = Append(sent, c)
  /\ UNCHANGED <<box, replied>>

SendFirst(b) ==
  /\ box[b] # <<>>
  /\ sent' = Append(sent, Head(box[b]))
  /\ box' = [box EXCEPT ![b] = Tail(@)]
  /\ UNCHANGED <<fresh, replied>>

Reply(c) ==
  /\ \E i \in DOMAIN sent : sent[i] = c
  /\ replied[c] = 0
  /\ replied' = [replied EXCEPT ![c] = 1]
  /\ UNCHANGED <<fresh, box, sent>>

Next ==
  \/ \E c \in Commands : SendNow(c) \/ \E b \in Boxes : Put(c, b)
  \/ \E b \in Boxes : SendFirst(b)
  \/ \E c \in Asked : Reply(c)

Spec == Init /\ [][Next]_vars

================================================================================

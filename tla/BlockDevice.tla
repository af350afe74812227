---------------------------- MODULE BlockDevice -----------------------------
(***************************************************************************)
(* What the asynchronous trees expect of a block accessor: a command takes *)
(* effect at one instant between its submission and its completion, a read *)
(* delivers what the block contains at that instant, and nothing else      *)
(* changes a block.                                                        *)
(***************************************************************************)
CONSTANTS Client,        \* the contexts, each with one command at a time
          Block, Data,
          Blank          \* the content of a block before its first write

VARIABLES content,       \* the content of every block
          command        \* the command of every client

vars == <<content, command>>

NoCommand == [op |-> "none"]
Command(op, b, d, done) == [op |-> op, block |-> b, data |-> d, done |-> done]

Init ==
    /\ content = [b \in Block |-> Blank]
    /\ command = [c \in Client |-> NoCommand]

SubmitRead(c, b) ==
    /\ command[c] = NoCommand
    /\ command' = [command EXCEPT ![c] = Command("read", b, Blank, FALSE)]
    /\ UNCHANGED content

SubmitWrite(c, b, d) ==
    /\ command[c] = NoCommand
    /\ command' = [command EXCEPT ![c] = Command("write", b, d, FALSE)]
    /\ UNCHANGED content

PerformRead(c, b) ==
    /\ command[c] = Command("read", b, Blank, FALSE)
    /\ command' = [command EXCEPT ![c] = Command("read", b, content[b], TRUE)]
    /\ UNCHANGED content

PerformWrite(c, b, d) ==
    /\ command[c] = Command("write", b, d, FALSE)
    /\ content' = [content EXCEPT ![b] = d]
    /\ command' = [command EXCEPT ![c] = Command("write", b, d, TRUE)]

Complete(c, b, d, op) ==
    /\ command[c] = Command(op, b, d, TRUE)
    /\ command' = [command EXCEPT ![c] = NoCommand]
    /\ UNCHANGED content

\* A command on a cached block is performed as it is submitted.
SubmitAndRead(c, b) ==
    /\ command[c] = NoCommand
    /\ command' = [command EXCEPT ![c] = Command("read", b, content[b], TRUE)]
    /\ UNCHANGED content

SubmitAndWrite(c, b, d) ==
    /\ command[c] = NoCommand
    /\ content' = [content EXCEPT ![b] = d]
    /\ command' = [command EXCEPT ![c] = Command("write", b, d, TRUE)]

Next ==
    \E c \in Client, b \in Block :
        \/ SubmitRead(c, b)
        \/ PerformRead(c, b)
        \/ SubmitAndRead(c, b)
        \/ \E d \in Data :
              \/ SubmitWrite(c, b, d)
              \/ PerformWrite(c, b, d)
              \/ SubmitAndWrite(c, b, d)
              \/ \E op \in {"read", "write"} : Complete(c, b, d, op)

Spec == Init /\ [][Next]_vars

=============================================================================

------------------------------ MODULE AnswerPipe ------------------------------
(***************************************************************************)
(* What endpoint 1 promises to the server: a pipe of at most three answers *)
(* that have not been read, oldest first.  An answer is under way from the *)
(* moment its command is sent, and has the command's number.  The pipe     *)
(* keeps the order and never drops the oldest answer; any other may be     *)
(* dropped while an older one has not been read.  Where the packets are,   *)
(* in a buffer of the chip or in the hands of the interrupt, is not said.  *)
(***************************************************************************)
EXTENDS Naturals, Sequences

CONSTANT MaxSent  \* commands a run sends

No == 0

VARIABLES host,       \* the server: idle, or reading an answer
          sent,       \* the number of the last command sent
          got,        \* the answer it has brought
          pipe,       \* the answers not read
          configured  \* the host has configured the device

vars == <<host, sent, got, pipe, configured>>

Init == /\ host = "idle" /\ sent = 0 /\ got = No /\ pipe = <<>>
        /\ configured = TRUE

Send ==
    /\ host = "idle" /\ configured
    /\ sent < MaxSent /\ Len(pipe) <= 2
    /\ sent' = sent + 1
    /\ pipe' = Append(pipe, sent + 1)
    /\ got' = No
    /\ host' = "reading"
    /\ UNCHANGED configured

Receive ==
    /\ host = "reading" /\ configured /\ pipe # <<>>
    /\ got' = Head(pipe)
    /\ pipe' = Tail(pipe)
    /\ host' = "idle"
    /\ UNCHANGED <<sent, configured>>

Drop ==
    /\ Len(pipe) >= 2
    /\ pipe' = <<Head(pipe)>> \o Tail(Tail(pipe))
    /\ UNCHANGED <<host, sent, got, configured>>

(* A new server takes the pipe over as it is. *)
Restart ==
    /\ host' = "idle"
    /\ got' = No
    /\ UNCHANGED <<sent, pipe, configured>>

(* A bus reset takes the answer that could be read away and ends a read;   *)
(* the pipe is empty once the device is configured again.                  *)
Reset ==
    /\ configured
    /\ configured' = FALSE
    /\ pipe' \in {pipe} \cup (IF pipe = <<>> THEN {} ELSE {Tail(pipe)})
    /\ host' = "idle"
    /\ got' = IF host = "reading" THEN No ELSE got
    /\ UNCHANGED sent

Configure ==
    /\ ~configured
    /\ configured' = TRUE
    /\ pipe' = <<>>
    /\ UNCHANGED <<host, sent, got>>

Next == Send \/ Receive \/ Drop \/ Restart \/ Reset \/ Configure

Spec == Init /\ [][Next]_vars
=============================================================================

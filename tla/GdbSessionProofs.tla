-------------------------- MODULE GdbSessionProofs --------------------------
(***************************************************************************)
(* The invariants of GdbSession, for any number of retransmissions and     *)
(* interrupts.                                                             *)
(*                                                                         *)
(* The argument is that of an alternating bit: while the server has not    *)
(* served gdb's command, what it sends carries the other bit and is in     *)
(* front of the acknowledgement; once it has, everything behind the        *)
(* acknowledgement answers that command.  So gdb acts on answers to its    *)
(* own commands only, and those commands that need a target are sent only  *)
(* by a gdb that has been told of one.                                     *)
(***************************************************************************)
EXTENDS GdbSession, SequenceTheorems, TLAPS

Item == Packet \cup {Char(c) : c \in Interrupts \cup {"+", "eof"}}
Message == Reply \cup {Ack}

Stopping == {"halted", "halting"}
Live == at \in {"ready", "ack", "reply"}

(* The server sends to a gdb that is there, and to no other. *)
Wire == /\ Listening <=> Live
        /\ ~Live => outbox = <<>>

(* A command that is not served yet: the only one, nothing late behind it. *)
InboxInv ==
    \A i \in 1 .. Len(inbox) : inbox[i].name \in Commands =>
        /\ inbox[i].name \in Runs \cup {"D"} => cur_target
        /\ Live => /\ at = "ack" /\ inbox[i] = cmd
                   /\ \A k \in 1 .. Len(outbox) : outbox[k] # Ack
        /\ pc \in {"packet", "ack"}
        /\ \A j \in i + 1 .. Len(inbox) : inbox[j].name \notin Commands \cup {"late"}

(* Before the acknowledgement of the command, and behind it. *)
OutboxInv ==
    Live => \A k \in 1 .. Len(outbox) :
        IF at # "ack" \/ \E j \in 1 .. k - 1 : outbox[j] = Ack
        THEN outbox[k] # Ack /\ outbox[k].to = cmd
        ELSE outbox[k] = Ack \/ outbox[k].to.bit # cmd.bit

(* The packet the server is sending. *)
ReplyInv ==
    Live /\ pc # "packet" =>
        IF at # "ack" \/ \E j \in 1 .. Len(outbox) : outbox[j] = Ack
        THEN reply.to = cmd
        ELSE reply.to.bit # cmd.bit /\ pc = "ack"

(* The wait for a halt. *)
PollInv ==
    pc \in {"poll", "char"} =>
        /\ \A i \in 1 .. Len(inbox) : inbox[i].name # "late"
        /\ Live => /\ at # "ready" /\ cur_target
                   /\ cmd.name \in Runs \cup {"?"}
                   /\ \A k \in 1 .. Len(outbox) : outbox[k] = Ack \/ outbox[k].to # cmd

GoodReply(e) ==
    /\ e.to.name = "D" => e.says = "OK"
    /\ e.to.name = "attachOther" => e.says = "E01"
    /\ e.says = "T05" => cur_target /\ (failed \/ dev \in Stopping)

GoodInv ==
    Live => /\ \A k \in 1 .. Len(outbox) :
                 outbox[k] # Ack /\ outbox[k].to = cmd => GoodReply(outbox[k])
            /\ pc = "ack" /\ reply.to = cmd => GoodReply(reply)

(* gdb has sent the command that lets the target go. *)
Letting == cmd.name \in {"D", "k"} /\ at # "ready"

ProcessInv ==
    /\ process # "none" => Live /\ cmd.name # "attachOther" /\ (cur_target \/ Letting)
    /\ process = "stopped" => failed \/ dev \in Stopping \/ Letting
    /\ at = "reply" => cmd.name \notin Unanswered
    /\ at = "ack" /\ cmd.name \in Runs => process # "stopped"

IInv == /\ TypeOK /\ Wire /\ InboxInv /\ OutboxInv /\ ReplyInv /\ PollInv
        /\ GoodInv /\ ProcessInv /\ ~single_step

---------------------------------------------------------------------------
(* Sequences by their elements. *)

LEMMA TailElements ==
    ASSUME NEW S, NEW s \in Seq(S), s # <<>>
    PROVE  /\ Tail(s) \in Seq(S) /\ Head(s) = s[1] /\ Head(s) \in S
           /\ Len(s) \in Nat \ {0} /\ Len(Tail(s)) = Len(s) - 1
           /\ \A i \in 1 .. Len(Tail(s)) : Tail(s)[i] = s[i + 1]
  OBVIOUS

LEMMA AppendElements ==
    ASSUME NEW S, NEW s \in Seq(S), NEW e \in S
    PROVE  /\ Append(s, e) \in Seq(S) /\ Len(s) \in Nat
           /\ Len(Append(s, e)) = Len(s) + 1
           /\ Append(s, e)[Len(s) + 1] = e
           /\ \A i \in 1 .. Len(s) : Append(s, e)[i] = s[i]
  OBVIOUS

LEMMA PairElements ==
    ASSUME NEW S, NEW s \in Seq(S), NEW e \in S, NEW f \in S
    PROVE  /\ s \o <<e, f>> \in Seq(S) /\ Len(s) \in Nat
           /\ Len(s \o <<e, f>>) = Len(s) + 2
           /\ (s \o <<e, f>>)[Len(s) + 1] = e
           /\ (s \o <<e, f>>)[Len(s) + 2] = f
           /\ \A i \in 1 .. Len(s) : (s \o <<e, f>>)[i] = s[i]
  <1>1. <<e, f>> \in Seq(S) /\ Len(<<e, f>>) = 2
    OBVIOUS
  <1> QED BY <1>1, ConcatProperties

LEMMA AppendSecond ==
    ASSUME NEW S, NEW e \in S, NEW f \in S
    PROVE  Append(<<e>>, f) = <<e, f>>
  <1>1. <<e>> \in Seq(S) /\ <<e, f>> \in Seq(S) /\ Len(<<e>>) = 1 /\ Len(<<e, f>>) = 2
    OBVIOUS
  <1>2. /\ Append(<<e>>, f) \in Seq(S) /\ Len(Append(<<e>>, f)) = 2
        /\ Append(<<e>>, f)[1] = e /\ Append(<<e>>, f)[2] = f
    BY <1>1, AppendElements
  <1>3. \A i \in 1 .. 2 : Append(<<e>>, f)[i] = <<e, f>>[i]
    BY <1>2
  <1> QED BY <1>1, <1>2, <1>3, SeqEqual

LEMMA SingleElement ==
    ASSUME NEW S, NEW s \in Seq(S), NEW e \in S
    PROVE  s \o <<e>> = Append(s, e)
  BY AppendIsConcat

LEMMA ListeningMeans ==
    Listening <=> conn /\ \A i \in 1 .. Len(inbox) : inbox[i] # Char("eof")
  BY DEF Listening, Contains

(* Commands, characters, replies and acknowledgements can be told apart. *)
LEMMA Kinds ==
    /\ \A x \in Item : /\ x.name \in Commands => x \in Packet
                       /\ x.name = "eof" => x = Char("eof")
                       /\ x.name \in Commands => x.name # "eof"
    /\ Char("eof").name = "eof"
    /\ \A r \in Reply : r # Ack /\ r.to \in Packet /\ r.says \in Answers
    /\ Ack \in Message /\ Reply \subseteq Message
  BY DEF Item, Packet, Char, Interrupts, Commands, Reply, Message, Ack, Answers

(* What the type invariant says of the connection and the server. *)
WireTypes ==
    /\ pc \in {"packet", "poll", "char", "ack"}
    /\ sends \in 0 .. MaxSends
    /\ reply \in Reply
    /\ conn \in BOOLEAN
    /\ inbox \in Seq(Item) /\ outbox \in Seq(Message)
    /\ ~conn => inbox = <<>> /\ outbox = <<>>

GdbTypes ==
    /\ at \in {"absent", "queued", "ready", "ack", "reply"}
    /\ cmd \in Packet
    /\ process \in {"none", "stopped", "running"}

TargetTypes ==
    /\ cur_target \in BOOLEAN /\ last_target \in BOOLEAN /\ tc \in BOOLEAN
    /\ single_step \in BOOLEAN
    /\ dev \in {"running", "stepping", "halting", "halted"}
    /\ failed \in BOOLEAN

LEMMA OutboxAppended ==
    ASSUME outbox \in Seq(Message), NEW e \in Message, outbox' = Append(outbox, e)
    PROVE  /\ outbox' \in Seq(Message)
           /\ Len(outbox) \in Nat /\ Len(outbox') = Len(outbox) + 1
           /\ outbox'[Len(outbox) + 1] = e
           /\ \A i \in 1 .. Len(outbox) : outbox'[i] = outbox[i]
  OBVIOUS

LEMMA TypesNext == TypeOK' <=> WireTypes' /\ GdbTypes' /\ TargetTypes'
  BY DEF TypeOK, WireTypes, GdbTypes, TargetTypes, Item, Message

LEMMA Types == TypeOK <=> WireTypes /\ GdbTypes /\ TargetTypes
  BY DEF TypeOK, WireTypes, GdbTypes, TargetTypes, Item, Message

StreamInv == Wire /\ InboxInv /\ OutboxInv /\ ReplyInv /\ PollInv /\ GoodInv

---------------------------------------------------------------------------
(* The command that is served: gdb's, and nothing sent since carries its bit. *)
LEMMA Served ==
    ASSUME IInv, pc = "packet", inbox # <<>>, Head(inbox).name \in Commands
    PROVE  /\ Head(inbox) \in Packet
           /\ Head(inbox).name \in Runs \cup {"D"} => cur_target
           /\ Live => /\ at = "ack" /\ Head(inbox) = cmd
                      /\ \A k \in 1 .. Len(outbox) :
                           outbox[k] # Ack /\ outbox[k].to.bit # cmd.bit
           /\ Tail(inbox) \in Seq(Item)
           /\ \A i \in 1 .. Len(Tail(inbox)) :
                Tail(inbox)[i].name \notin Commands \cup {"late"}
           /\ (conn /\ \A i \in 1 .. Len(Tail(inbox)) : Tail(inbox)[i] # Char("eof")) <=> Live
  <1> USE DEF IInv
  <1>1. inbox \in Seq(Item) /\ outbox \in Seq(Message)
    BY Types DEF WireTypes
  <1>2. /\ Head(inbox) = inbox[1] /\ Head(inbox) \in Item /\ Tail(inbox) \in Seq(Item)
        /\ Len(inbox) \in Nat \ {0} /\ Len(Tail(inbox)) = Len(inbox) - 1
        /\ \A i \in 1 .. Len(Tail(inbox)) : Tail(inbox)[i] = inbox[i + 1]
    BY <1>1, TailElements
  <1>3. 1 \in 1 .. Len(inbox) /\ \A i \in 1 .. Len(Tail(inbox)) : i + 1 \in 1 + 1 .. Len(inbox)
    BY <1>2
  <1>4. /\ inbox[1].name \in Runs \cup {"D"} => cur_target
        /\ Live => at = "ack" /\ inbox[1] = cmd /\ \A k \in 1 .. Len(outbox) : outbox[k] # Ack
        /\ \A j \in 1 + 1 .. Len(inbox) : inbox[j].name \notin Commands \cup {"late"}
    BY <1>2, <1>3 DEF InboxInv
  <1>5. ASSUME Live, NEW k \in 1 .. Len(outbox)
        PROVE  outbox[k].to.bit # cmd.bit
    <2>1. \A j \in 1 .. k - 1 : j \in 1 .. Len(outbox)
      BY <1>1
    <2> QED BY <1>2, <1>4, <1>5, <2>1 DEF OutboxInv
  <1>6. (conn /\ \A i \in 1 .. Len(Tail(inbox)) : Tail(inbox)[i] # Char("eof")) <=> Live
    <2>1. inbox[1] # Char("eof")
      BY <1>2, Kinds
    <2>2. ASSUME NEW i \in 1 .. Len(inbox), i # 1
          PROVE  i - 1 \in 1 .. Len(Tail(inbox)) /\ inbox[i] = Tail(inbox)[i - 1]
      <3>1. i - 1 \in 1 .. Len(Tail(inbox)) /\ (i - 1) + 1 = i
        BY <1>2, <2>2
      <3> QED BY <1>2, <3>1
    <2>3. (\A i \in 1 .. Len(Tail(inbox)) : Tail(inbox)[i] # Char("eof"))
            <=> (\A i \in 1 .. Len(inbox) : inbox[i] # Char("eof"))
      BY <1>2, <1>3, <2>1, <2>2
    <2> QED BY <2>3, ListeningMeans DEF Wire
  <1> QED BY <1>2, <1>3, <1>4, <1>5, <1>6, Kinds

(* The command is answered. *)
LEMMA Responded ==
    ASSUME IInv, NEW names \in SUBSET Commands, Serving(names),
           NEW says \in Answers, Respond(says), GoodReply(reply)'
    PROVE  WireTypes' /\ StreamInv'
  <1> USE DEF IInv
  <1>1. /\ pc = "packet" /\ inbox # <<>> /\ Head(inbox).name \in Commands
        /\ inbox' = Tail(inbox) /\ conn' = conn /\ at' = at /\ cmd' = cmd /\ process' = process
    BY DEF Serving, gdbVars
  <1>2. /\ reply' = [to |-> Head(inbox), says |-> says]
        /\ sends' = 1 /\ pc' = "ack"
        /\ outbox' = Out(<<Ack, reply'>>)
    <2>1. [to |-> Head(inbox), says |-> says] \in Message /\ Ack \in Message
      BY <1>1, Served, Kinds DEF Reply
    <2> QED BY <2>1, AppendSecond DEF Respond, PutFirst
  <1>3. reply' \in Reply /\ reply'.to = Head(inbox)
    BY <1>1, <1>2, Served DEF Reply
  <1>4. Listening' <=> Live
    BY <1>1, Served DEF Listening, Contains
  <1>5. /\ Live => outbox' = outbox \o <<Ack, reply'>>
        /\ ~Live => outbox' = <<>>
    BY <1>2 DEF Out, Wire
  <1>6. outbox \in Seq(Message) /\ reply' \in Message /\ Ack \in Message
    BY <1>3, Types, Kinds DEF WireTypes
  <1>7. /\ outbox' \in Seq(Message)
        /\ Live => /\ Len(outbox) \in Nat /\ Len(outbox') = Len(outbox) + 2
                   /\ outbox'[Len(outbox) + 1] = Ack
                   /\ outbox'[Len(outbox) + 2] = reply'
                   /\ \A i \in 1 .. Len(outbox) : outbox'[i] = outbox[i]
    <2>1. CASE Live
      <3>1. outbox' = outbox \o <<Ack, reply'>>
        BY <1>5, <2>1
      <3> QED BY <1>6, <3>1, PairElements
    <2>2. CASE ~Live
      BY <1>5, <2>2
    <2> QED BY <2>1, <2>2
  <1>8. WireTypes'
    <2>1. ~conn' => inbox' = <<>> /\ outbox' = <<>>
      BY <1>1, Types DEF WireTypes
    <2> QED BY <1>1, <1>2, <1>3, <1>7, <2>1, Served, Types, SendAssumption DEF WireTypes
  <1>9. Live' <=> Live
    BY <1>1 DEF Live
  <1>10. Wire'
    BY <1>4, <1>5, <1>9 DEF Wire
  <1>11. InboxInv'
    BY <1>1, Served DEF InboxInv
  <1>12. ASSUME Live
         PROVE  /\ at = "ack" /\ reply'.to = cmd /\ reply' # Ack
                /\ \A k \in 1 .. Len(outbox) : outbox[k] # Ack /\ outbox[k].to.bit # cmd.bit
    BY <1>1, <1>3, <1>12, Served, Kinds
  <1>13. ASSUME Live, NEW k \in 1 .. Len(outbox')
         PROVE  \/ k \in 1 .. Len(outbox) /\ outbox'[k] = outbox[k]
                \/ k = Len(outbox) + 1 /\ outbox'[k] = Ack
                \/ k = Len(outbox) + 2 /\ outbox'[k] = reply'
    BY <1>7, <1>13
  <1>14. OutboxInv'
    <2> SUFFICES ASSUME Live, NEW k \in 1 .. Len(outbox')
                 PROVE  IF at' # "ack" \/ \E j \in 1 .. k - 1 : outbox'[j] = Ack
                        THEN outbox'[k] # Ack /\ outbox'[k].to = cmd'
                        ELSE outbox'[k] = Ack \/ outbox'[k].to.bit # cmd'.bit
      BY <1>9 DEF OutboxInv
    <2>1. CASE k \in 1 .. Len(outbox)
      <3>1. \A j \in 1 .. k - 1 : j \in 1 .. Len(outbox) /\ outbox'[j] # Ack
        BY <1>7, <1>12, <2>1
      <3> QED BY <1>1, <1>7, <1>12, <2>1, <3>1
    <2>2. CASE k = Len(outbox) + 1
      <3>1. \A j \in 1 .. k - 1 : j \in 1 .. Len(outbox) /\ outbox'[j] # Ack
        BY <1>7, <1>12, <2>2
      <3> QED BY <1>1, <1>7, <1>12, <2>2, <3>1
    <2>3. CASE k = Len(outbox) + 2
      <3>1. \E j \in 1 .. k - 1 : outbox'[j] = Ack
        BY <1>7, <2>3
      <3> QED BY <1>1, <1>7, <1>12, <2>3, <3>1
    <2> QED BY <1>13, <2>1, <2>2, <2>3
  <1>15. ReplyInv'
    <2>1. Live => \E j \in 1 .. Len(outbox') : outbox'[j] = Ack
      BY <1>7
    <2> QED BY <1>1, <1>9, <1>12, <2>1 DEF ReplyInv
  <1>16. PollInv'
    BY <1>2 DEF PollInv
  <1>17. GoodInv'
    <2> SUFFICES ASSUME Live, NEW k \in 1 .. Len(outbox'), outbox'[k] # Ack, outbox'[k].to = cmd'
                 PROVE  outbox'[k] = reply'
      BY <1>9 DEF GoodInv, GoodReply
    <2> QED BY <1>1, <1>12, <1>13
  <1> QED BY <1>8, <1>10, <1>11, <1>14, <1>15, <1>16, <1>17 DEF StreamInv

(* The command is acknowledged, and perhaps answered later. *)
LEMMA Acknowledged ==
    ASSUME IInv, NEW names \in SUBSET Commands, Serving(names),
           outbox' = Out(<<Ack>>), reply' \in Reply, sends' \in 0 .. MaxSends,
           \/ pc' = "packet"
           \/ /\ pc' = "poll" /\ reply'.to = Head(inbox)
              /\ Head(inbox).name \in Runs \cup {"?"} /\ cur_target'
    PROVE  WireTypes' /\ StreamInv'
  <1> USE DEF IInv
  <1>1. /\ pc = "packet" /\ inbox # <<>> /\ Head(inbox).name \in Commands
        /\ inbox' = Tail(inbox) /\ conn' = conn /\ at' = at /\ cmd' = cmd /\ process' = process
    BY DEF Serving, gdbVars
  <1>2. Listening' <=> Live
    BY <1>1, Served DEF Listening, Contains
  <1>3. outbox \in Seq(Message) /\ Ack \in Message
    BY Types, Kinds DEF WireTypes
  <1>4. /\ Live => outbox' = Append(outbox, Ack)
        /\ ~Live => outbox' = <<>>
    BY <1>3, SingleElement DEF Out, Wire
  <1>5. /\ outbox' \in Seq(Message)
        /\ Live => /\ Len(outbox) \in Nat /\ Len(outbox') = Len(outbox) + 1
                   /\ outbox'[Len(outbox) + 1] = Ack
                   /\ \A i \in 1 .. Len(outbox) : outbox'[i] = outbox[i]
    <2>1. CASE Live
      <3>1. outbox' = Append(outbox, Ack)
        BY <1>4, <2>1
      <3> QED BY <1>3, <3>1, OutboxAppended
    <2>2. CASE ~Live
      BY <1>4, <2>2
    <2> QED BY <2>1, <2>2
  <1>6. WireTypes'
    <2>1. ~conn' => inbox' = <<>> /\ outbox' = <<>>
      BY <1>1, Types DEF WireTypes
    <2> QED BY <1>1, <1>5, <2>1, Served, Types DEF WireTypes
  <1>7. Live' <=> Live
    BY <1>1 DEF Live
  <1>8. Wire'
    BY <1>2, <1>4, <1>7 DEF Wire
  <1>9. ASSUME Live
        PROVE  /\ at = "ack"
               /\ \A k \in 1 .. Len(outbox) : outbox[k] # Ack /\ outbox[k].to.bit # cmd.bit
               /\ pc' = "poll" => reply'.to = cmd
    BY <1>1, <1>9, Served
  <1>10. InboxInv'
    BY <1>1, Served DEF InboxInv
  <1>11. ASSUME Live, NEW k \in 1 .. Len(outbox')
         PROVE  \/ k \in 1 .. Len(outbox) /\ outbox'[k] = outbox[k]
                \/ k = Len(outbox) + 1 /\ outbox'[k] = Ack
    BY <1>5, <1>11
  <1>12. OutboxInv'
    <2> SUFFICES ASSUME Live, NEW k \in 1 .. Len(outbox')
                 PROVE  IF at' # "ack" \/ \E j \in 1 .. k - 1 : outbox'[j] = Ack
                        THEN outbox'[k] # Ack /\ outbox'[k].to = cmd'
                        ELSE outbox'[k] = Ack \/ outbox'[k].to.bit # cmd'.bit
      BY <1>7 DEF OutboxInv
    <2>1. \A j \in 1 .. k - 1 : j \in 1 .. Len(outbox) /\ outbox'[j] # Ack
      BY <1>5, <1>9
    <2> QED BY <1>1, <1>9, <1>11, <2>1
  <1>13. ReplyInv'
    <2>1. Live => \E j \in 1 .. Len(outbox') : outbox'[j] = Ack
      BY <1>5
    <2> QED BY <1>1, <1>7, <1>9, <2>1 DEF ReplyInv
  <1>14. PollInv'
    <2> SUFFICES ASSUME pc' = "poll" PROVE PollInv'
      BY DEF PollInv
    <2>1. \A i \in 1 .. Len(inbox') : inbox'[i].name # "late"
      BY <1>1, Served
    <2>2. Live => cmd.name \in Runs \cup {"?"}
      BY <1>1, Served
    <2>3. Live => \A k \in 1 .. Len(outbox') : outbox'[k] = Ack \/ outbox'[k].to # cmd
      BY <1>9, <1>11
    <2> QED BY <1>1, <1>7, <1>9, <2>1, <2>2, <2>3 DEF PollInv
  <1>15. GoodInv'
    <2>1. Live => \A k \in 1 .. Len(outbox') : outbox'[k] = Ack \/ outbox'[k].to # cmd'
      BY <1>1, <1>9, <1>11
    <2> QED BY <1>7, <2>1 DEF GoodInv
  <1> QED BY <1>6, <1>8, <1>10, <1>12, <1>13, <1>14, <1>15 DEF StreamInv

(* What the server has still to read, when it has read a character or not. *)
LEMMA Rest ==
    ASSUME IInv, NEW rest,
           \/ rest = inbox
           \/ inbox # <<>> /\ Head(inbox).name # "eof" /\ rest = Tail(inbox)
    PROVE  /\ rest \in Seq(Item)
           /\ (conn /\ \A i \in 1 .. Len(rest) : rest[i] # Char("eof")) <=> Live
           /\ \A i \in 1 .. Len(rest) : rest[i].name \in Commands =>
                /\ rest[i].name \in Runs \cup {"D"} => cur_target
                /\ Live => /\ at = "ack" /\ rest[i] = cmd
                           /\ \A k \in 1 .. Len(outbox) : outbox[k] # Ack
                /\ pc \in {"packet", "ack"}
                /\ \A j \in i + 1 .. Len(rest) : rest[j].name \notin Commands \cup {"late"}
           /\ pc \in {"poll", "char"} =>
                \A i \in 1 .. Len(rest) : rest[i].name \notin Commands \cup {"late"}
           /\ ~conn => rest = <<>>
  <1> USE DEF IInv
  <1>1. inbox \in Seq(Item) /\ (~conn => inbox = <<>>)
    BY Types DEF WireTypes
  <1>2. CASE rest = inbox
    BY <1>1, <1>2, ListeningMeans DEF InboxInv, PollInv, Wire
  <1>3. CASE inbox # <<>> /\ Head(inbox).name # "eof" /\ rest = Tail(inbox)
    <2>1. /\ Head(inbox) = inbox[1] /\ rest \in Seq(Item)
          /\ Len(inbox) \in Nat \ {0} /\ Len(rest) = Len(inbox) - 1
          /\ \A i \in 1 .. Len(rest) : rest[i] = inbox[i + 1]
      BY <1>1, <1>3, TailElements
    <2>2. \A i \in 1 .. Len(rest) : i + 1 \in 1 .. Len(inbox)
      BY <2>1
    <2>3. (\A i \in 1 .. Len(rest) : rest[i] # Char("eof"))
            <=> (\A i \in 1 .. Len(inbox) : inbox[i] # Char("eof"))
      <3>1. inbox[1] # Char("eof")
        BY <1>3, <2>1, Kinds
      <3>2. ASSUME NEW i \in 1 .. Len(inbox), i # 1
            PROVE  i - 1 \in 1 .. Len(rest) /\ inbox[i] = rest[i - 1]
        <4>1. i - 1 \in 1 .. Len(rest) /\ (i - 1) + 1 = i
          BY <2>1, <3>2
        <4> QED BY <2>1, <4>1
      <3> QED BY <2>1, <2>2, <3>1, <3>2
    <2>4. ASSUME NEW i \in 1 .. Len(rest), rest[i].name \in Commands
          PROVE  /\ rest[i].name \in Runs \cup {"D"} => cur_target
                 /\ Live => /\ at = "ack" /\ rest[i] = cmd
                            /\ \A k \in 1 .. Len(outbox) : outbox[k] # Ack
                 /\ pc \in {"packet", "ack"}
                 /\ \A j \in i + 1 .. Len(rest) : rest[j].name \notin Commands \cup {"late"}
      <3>1. inbox[i + 1].name \in Commands
        BY <2>1, <2>4
      <3>2. ASSUME NEW j \in i + 1 .. Len(rest)
            PROVE  j + 1 \in (i + 1) + 1 .. Len(inbox) /\ rest[j] = inbox[j + 1]
        BY <2>1
      <3> QED BY <2>1, <2>2, <3>1, <3>2 DEF InboxInv
    <2>5. pc \in {"poll", "char"} =>
            \A i \in 1 .. Len(rest) : rest[i].name \notin Commands \cup {"late"}
      BY <2>1, <2>2 DEF InboxInv, PollInv
    <2> QED BY <1>1, <1>3, <2>1, <2>3, <2>4, <2>5, ListeningMeans DEF Wire
  <1> QED BY <1>2, <1>3

(* The server reads a character or none, and sends nothing. *)
LEMMA QuietKeeps ==
    ASSUME IInv,
           \/ inbox' = inbox
           \/ inbox # <<>> /\ Head(inbox).name # "eof" /\ inbox' = Tail(inbox),
           \/ pc' = pc \/ pc' = "packet"
           \/ pc \in {"poll", "char"} /\ pc' \in {"poll", "char"},
           UNCHANGED <<conn, outbox, reply, at, cmd, cur_target>>, sends' \in 0 .. MaxSends,
           failed \/ dev \in Stopping => failed' \/ dev' \in Stopping
    PROVE  WireTypes' /\ StreamInv'
  <1> USE DEF IInv
  <1>1. /\ inbox' \in Seq(Item)
        /\ (conn /\ \A i \in 1 .. Len(inbox') : inbox'[i] # Char("eof")) <=> Live
        /\ \A i \in 1 .. Len(inbox') : inbox'[i].name \in Commands =>
             /\ inbox'[i].name \in Runs \cup {"D"} => cur_target
             /\ Live => /\ at = "ack" /\ inbox'[i] = cmd
                        /\ \A k \in 1 .. Len(outbox) : outbox[k] # Ack
             /\ pc \in {"packet", "ack"}
             /\ \A j \in i + 1 .. Len(inbox') : inbox'[j].name \notin Commands \cup {"late"}
        /\ pc \in {"poll", "char"} =>
             \A i \in 1 .. Len(inbox') : inbox'[i].name \notin Commands \cup {"late"}
        /\ ~conn => inbox' = <<>>
    BY Rest
  <1>2. WireTypes'
    BY <1>1, Types DEF WireTypes
  <1>3. Live' <=> Live
    BY DEF Live
  <1>4. Wire'
    BY <1>1, <1>3 DEF Wire, Listening, Contains
  <1>5. InboxInv'
    BY <1>1, <1>3 DEF InboxInv
  <1>6. OutboxInv'
    BY <1>3 DEF OutboxInv
  <1>7. ReplyInv'
    BY <1>3 DEF ReplyInv
  <1>8. PollInv'
    BY <1>1, <1>3 DEF PollInv
  <1>9. GoodInv'
    BY <1>3 DEF GoodInv, GoodReply
  <1> QED BY <1>2, <1>4, <1>5, <1>6, <1>7, <1>8, <1>9 DEF StreamInv

(* It reads the end of the connection. *)
LEMMA DropKeeps ==
    ASSUME IInv, inbox # <<>>, Head(inbox).name = "eof", Drop,
           pc' = "packet" \/ pc' = pc \/ (pc = "char" /\ pc' = "poll"),
           UNCHANGED <<reply, sends, gdbVars>>
    PROVE  WireTypes' /\ StreamInv' /\ ~Live
  <1> USE DEF IInv
  <1>1. inbox \in Seq(Item)
    BY Types DEF WireTypes
  <1>2. inbox[1] = Char("eof") /\ 1 \in 1 .. Len(inbox)
    BY <1>1, TailElements, Kinds
  <1>3. ~Live /\ ~Live'
    BY <1>2, ListeningMeans DEF Wire, Live, gdbVars
  <1>4. inbox' = <<>> /\ outbox' = <<>> /\ conn' = FALSE
    BY DEF Drop
  <1>5. WireTypes'
    <2>1. pc' \in {"packet", "poll", "char", "ack"}
      BY Types DEF WireTypes
    <2>2. inbox' \in Seq(Item) /\ outbox' \in Seq(Message)
      BY <1>4
    <2>3. conn' \in BOOLEAN
      BY <1>4
    <2>4. sends' = sends /\ reply' = reply
      OBVIOUS
    <2> QED BY <1>4, <2>1, <2>2, <2>3, <2>4, Types DEF WireTypes
  <1> QED BY <1>3, <1>4, <1>5
         DEF StreamInv, Wire, Listening, InboxInv, OutboxInv, ReplyInv, PollInv, GoodInv

(* A packet of the server's goes out, for the first time or again. *)
LEMMA PutKeeps ==
    ASSUME IInv, pc # "packet", pc' = "ack",
           \/ inbox' = inbox
           \/ inbox # <<>> /\ Head(inbox).name # "eof" /\ inbox' = Tail(inbox),
           outbox' = Out(<<reply>>), sends' \in 0 .. MaxSends,
           UNCHANGED <<conn, reply, at, cmd, cur_target>>,
           pc = "ack" => failed' = failed /\ dev' = dev,
           pc # "ack" => failed' \/ dev' \in Stopping
    PROVE  WireTypes' /\ StreamInv'
  <1> USE DEF IInv
  <1>1. /\ inbox' \in Seq(Item)
        /\ (conn /\ \A i \in 1 .. Len(inbox') : inbox'[i] # Char("eof")) <=> Live
        /\ \A i \in 1 .. Len(inbox') : inbox'[i].name \in Commands =>
             /\ inbox'[i].name \in Runs \cup {"D"} => cur_target
             /\ Live => /\ at = "ack" /\ inbox'[i] = cmd
                        /\ \A k \in 1 .. Len(outbox) : outbox[k] # Ack
             /\ pc \in {"packet", "ack"}
             /\ \A j \in i + 1 .. Len(inbox') : inbox'[j].name \notin Commands \cup {"late"}
        /\ ~conn => inbox' = <<>>
    BY Rest
  <1>2. outbox \in Seq(Message) /\ reply \in Message /\ reply # Ack
    BY Types, Kinds DEF WireTypes
  <1>3. /\ Live => outbox' = Append(outbox, reply)
        /\ ~Live => outbox' = <<>>
    BY <1>2, SingleElement DEF Out, Wire
  <1>4. /\ outbox' \in Seq(Message)
        /\ Live => /\ Len(outbox) \in Nat /\ Len(outbox') = Len(outbox) + 1
                   /\ outbox'[Len(outbox) + 1] = reply
                   /\ \A i \in 1 .. Len(outbox) : outbox'[i] = outbox[i]
    <2>1. CASE Live
      <3>1. outbox' = Append(outbox, reply)
        BY <1>3, <2>1
      <3> QED BY <1>2, <3>1, OutboxAppended
    <2>2. CASE ~Live
      BY <1>3, <2>2
    <2> QED BY <2>1, <2>2
  <1>5. Live' <=> Live
    BY DEF Live
  <1>6. WireTypes'
    <2>1. ~conn => ~Live
      BY DEF Wire, Listening
    <2> QED BY <1>1, <1>3, <1>4, <2>1, Types DEF WireTypes
  <1>7. Wire'
    BY <1>1, <1>3, <1>5 DEF Wire, Listening, Contains
  <1>8. ASSUME Live, NEW k \in 1 .. Len(outbox')
        PROVE  \/ k \in 1 .. Len(outbox) /\ outbox'[k] = outbox[k]
               \/ k = Len(outbox) + 1 /\ outbox'[k] = reply
    BY <1>4, <1>8
  <1>9. Live /\ (\A k \in 1 .. Len(outbox) : outbox[k] # Ack)
          => \A k \in 1 .. Len(outbox') : outbox'[k] # Ack
    BY <1>2, <1>8
  <1>10. InboxInv'
    BY <1>1, <1>5, <1>9 DEF InboxInv
  <1>11. OutboxInv'
    <2> SUFFICES ASSUME Live, NEW k \in 1 .. Len(outbox')
                 PROVE  IF at # "ack" \/ \E j \in 1 .. k - 1 : outbox'[j] = Ack
                        THEN outbox'[k] # Ack /\ outbox'[k].to = cmd
                        ELSE outbox'[k] = Ack \/ outbox'[k].to.bit # cmd.bit
      BY <1>5 DEF OutboxInv
    <2>1. \A j \in 1 .. k - 1 : j \in 1 .. Len(outbox) /\ outbox'[j] = outbox[j]
      BY <1>4, <1>8
    <2>2. CASE k \in 1 .. Len(outbox)
      BY <1>4, <2>1, <2>2 DEF OutboxInv
    <2>3. CASE k = Len(outbox) + 1
      <3>1. outbox'[k] = reply
        BY <1>4, <2>3
      <3>2. (\E j \in 1 .. k - 1 : outbox'[j] = Ack)
              <=> (\E j \in 1 .. Len(outbox) : outbox[j] = Ack)
        BY <1>4, <2>1, <2>3
      <3> QED BY <1>2, <3>1, <3>2 DEF ReplyInv
    <2> QED BY <1>8, <2>2, <2>3
  <1>12. ReplyInv'
    <2>1. Live => ((\E j \in 1 .. Len(outbox') : outbox'[j] = Ack)
                    <=> (\E j \in 1 .. Len(outbox) : outbox[j] = Ack))
      <3>1. Live => 1 .. Len(outbox) \subseteq 1 .. Len(outbox')
        BY <1>4
      <3> QED BY <1>2, <1>4, <1>8, <3>1
    <2> QED BY <1>5, <2>1 DEF ReplyInv
  <1>13. PollInv'
    BY DEF PollInv
  <1>14. GoodInv'
    <2>1. CASE pc = "ack"
      <3>1. GoodReply(reply)' <=> GoodReply(reply)
        BY <2>1 DEF GoodReply
      <3>2. Live => \A k \in 1 .. Len(outbox') :
                      outbox'[k] # Ack /\ outbox'[k].to = cmd => GoodReply(outbox'[k])
        BY <1>8, <2>1 DEF GoodInv
      <3>3. \A e : GoodReply(e)' <=> GoodReply(e)
        BY <2>1 DEF GoodReply
      <3> QED BY <1>5, <2>1, <3>1, <3>2 DEF GoodInv, GoodReply
    <2>2. CASE pc # "ack" /\ Live
      <3>1. /\ cur_target /\ cmd.name \in Runs \cup {"?"}
            /\ \A k \in 1 .. Len(outbox) : outbox[k] = Ack \/ outbox[k].to # cmd
        BY <2>2, Types DEF PollInv, WireTypes
      <3>2. reply.to = cmd => GoodReply(reply)'
        BY <2>2, <3>1 DEF GoodReply, Runs
      <3>3. \A k \in 1 .. Len(outbox') :
              outbox'[k] # Ack /\ outbox'[k].to = cmd => outbox'[k] = reply
        BY <1>8, <2>2, <3>1
      <3> QED BY <1>5, <3>2, <3>3 DEF GoodInv, GoodReply
    <2>3. CASE ~Live
      BY <1>5, <2>3 DEF GoodInv
    <2> QED BY <2>1, <2>2, <2>3
  <1> QED BY <1>6, <1>7, <1>10, <1>11, <1>12, <1>13, <1>14 DEF StreamInv

---------------------------------------------------------------------------
(* The actions of the server. *)

(* A transaction that asks for a halt leaves the target stopping, or fails. *)
LEMMA Halting ==
    ASSUME TargetTypes, Transact("Halt")
    PROVE  /\ dev' \in {"running", "stepping", "halting", "halted"} /\ failed' \in BOOLEAN
           /\ failed' \/ dev' \in Stopping
  BY DEF TargetTypes, Transact, After, Stopping

LEMMA AnyTransaction ==
    ASSUME TargetTypes, NEW c \in {"Halt", "Resume", "Step", "Detach"}, Transact(c)
    PROVE  dev' \in {"running", "stepping", "halting", "halted"} /\ failed' \in BOOLEAN
  BY DEF TargetTypes, Transact, After

(* While gdb's process is what it was, only the target must not be lost.    *)
LEMMA ProcessKept ==
    ASSUME ProcessInv, UNCHANGED gdbVars, cur_target => cur_target',
           failed \/ dev \in Stopping => failed' \/ dev' \in Stopping
    PROVE  ProcessInv'
  BY DEF ProcessInv, gdbVars, Live, Letting

LEMMA SkipCharKeeps == ASSUME IInv, SkipChar PROVE IInv'
  <1> USE DEF IInv
  <1>1. /\ pc = "packet" /\ inbox # <<>>
        /\ UNCHANGED <<pc, sends, reply, single_step, cur_target, last_target, tc,
                       dev, failed, at, cmd, process>>
    BY DEF SkipChar, serverVars, targetVars, deviceVars, gdbVars
  <1>2. WireTypes' /\ StreamInv'
    <2>1. CASE Head(inbox).name = "eof"
      <3>1. Drop
        BY <2>1 DEF SkipChar
      <3> QED BY <1>1, <2>1, <3>1, DropKeeps DEF gdbVars
    <2>2. CASE Head(inbox).name # "eof"
      <3>1. inbox' = Tail(inbox) /\ UNCHANGED <<conn, outbox>>
        BY <2>2 DEF SkipChar
      <3> QED BY <1>1, <2>2, <3>1, QuietKeeps, Types DEF WireTypes
    <2> QED BY <2>1, <2>2
  <1>3. ProcessInv'
    BY <1>1, ProcessKept DEF gdbVars
  <1>4. TypeOK'
    BY <1>1, <1>2, Types, TypesNext DEF GdbTypes, TargetTypes
  <1> QED BY <1>1, <1>2, <1>3, <1>4 DEF StreamInv

(* Sending again, or giving up, after a character or a timeout. *)
LEMMA PutAgainKeeps ==
    ASSUME IInv, pc = "ack", PutAgain,
           \/ inbox' = inbox
           \/ inbox # <<>> /\ Head(inbox).name # "eof" /\ inbox' = Tail(inbox),
           UNCHANGED <<conn, reply, at, cmd, cur_target, failed, dev>>
    PROVE  WireTypes' /\ StreamInv'
  <1>1. sends \in 0 .. MaxSends
    BY Types DEF IInv, WireTypes
  <1>2. CASE sends < MaxSends
    <2>1. sends' \in 0 .. MaxSends /\ outbox' = Out(<<reply>>) /\ pc' = "ack"
      BY <1>1, <1>2, SendAssumption DEF PutAgain
    <2> QED BY <2>1, PutKeeps
  <1>3. CASE ~(sends < MaxSends)
    <2>1. sends' \in 0 .. MaxSends /\ UNCHANGED outbox /\ pc' = "packet"
      BY <1>1, <1>3 DEF PutAgain
    <2> QED BY <2>1, QuietKeeps
  <1> QED BY <1>2, <1>3

LEMMA ReadAckKeeps == ASSUME IInv, ReadAck \/ AckTimesOut PROVE IInv'
  <1> USE DEF IInv
  <1>1. /\ pc = "ack"
        /\ UNCHANGED <<reply, single_step, cur_target, last_target, tc,
                       dev, failed, at, cmd, process>>
    BY DEF ReadAck, AckTimesOut, targetVars, deviceVars, gdbVars
  <1>2. WireTypes' /\ StreamInv'
    <2>1. CASE AckTimesOut
      BY <1>1, <2>1, PutAgainKeeps DEF AckTimesOut
    <2>2. CASE ReadAck /\ Head(inbox).name = "eof"
      <3>1. inbox # <<>> /\ Drop /\ pc' = "packet" /\ sends' = sends
        BY <2>2 DEF ReadAck
      <3> QED BY <1>1, <2>2, <3>1, DropKeeps DEF gdbVars
    <2>3. CASE ReadAck /\ Head(inbox).name = "+"
      <3>1. /\ inbox # <<>> /\ Head(inbox).name # "eof" /\ inbox' = Tail(inbox)
            /\ pc' = "packet" /\ UNCHANGED <<conn, outbox, sends>>
        BY <2>3 DEF ReadAck
      <3> QED BY <1>1, <3>1, QuietKeeps, Types DEF WireTypes
    <2>4. CASE ReadAck /\ Head(inbox).name \notin {"eof", "+"}
      <3>1. /\ inbox # <<>> /\ Head(inbox).name # "eof" /\ inbox' = Tail(inbox)
            /\ PutAgain /\ UNCHANGED conn
        BY <2>4 DEF ReadAck
      <3> QED BY <1>1, <3>1, PutAgainKeeps
    <2> QED BY <2>1, <2>2, <2>3, <2>4
  <1>3. ProcessInv'
    BY <1>1, ProcessKept DEF gdbVars
  <1>4. TypeOK'
    BY <1>1, <1>2, Types, TypesNext DEF GdbTypes, TargetTypes
  <1> QED BY <1>1, <1>2, <1>3, <1>4 DEF StreamInv

LEMMA PollKeeps == ASSUME IInv, Poll PROVE IInv'
  <1> USE DEF IInv
  <1>1. /\ pc = "poll"
        /\ UNCHANGED <<single_step, cur_target, last_target, tc, conn, inbox, dev,
                       at, cmd, process>>
        /\ failed' \in BOOLEAN /\ (failed \/ dev \in Stopping => failed' \/ dev' \in Stopping)
    BY Types DEF Poll, PollHalted, PollRunning, PollFails, targetVars, wireVars, deviceVars,
                 gdbVars, TargetTypes, Stopping
  <1>2. WireTypes' /\ StreamInv'
    <2>1. CASE PollRunning
      <3>1. pc' = "char" /\ UNCHANGED <<outbox, reply, sends>>
        BY <2>1 DEF PollRunning, wireVars
      <3> QED BY <1>1, <3>1, QuietKeeps, Types DEF WireTypes
    <2>2. CASE PollHalted \/ PollFails
      <3>1. Stop /\ (failed' \/ dev' \in Stopping)
        BY <2>2 DEF PollHalted, PollFails, Stopping
      <3>2. Append(<<>>, reply) = <<reply>>
        OBVIOUS
      <3>3. pc' = "ack" /\ reply' = reply /\ sends' \in 0 .. MaxSends /\ outbox' = Out(<<reply>>)
        BY <3>1, <3>2, SendAssumption DEF Stop, PutFirst
      <3> QED BY <1>1, <3>1, <3>3, PutKeeps
    <2> QED BY <2>1, <2>2 DEF Poll
  <1>3. ProcessInv'
    BY <1>1, ProcessKept DEF gdbVars
  <1>4. TypeOK'
    BY <1>1, <1>2, Types, TypesNext DEF GdbTypes, TargetTypes
  <1> QED BY <1>1, <1>2, <1>3, <1>4 DEF StreamInv

LEMMA PollCharKeeps == ASSUME IInv, PollChar PROVE IInv'
  <1> USE DEF IInv
  <1>1. /\ pc = "char" /\ pc' = "poll"
        /\ UNCHANGED <<sends, reply, single_step, cur_target, last_target, tc,
                       at, cmd, process>>
    BY DEF PollChar, targetVars, gdbVars
  <1>2. /\ dev' \in {"running", "stepping", "halting", "halted"} /\ failed' \in BOOLEAN
        /\ failed \/ dev \in Stopping => failed' \/ dev' \in Stopping
    <2>1. CASE UNCHANGED deviceVars
      BY <2>1, Types DEF deviceVars, TargetTypes
    <2>2. CASE Transact("Halt")
      BY <2>2, Types, Halting
    <2> QED BY <2>1, <2>2 DEF PollChar
  <1>3. WireTypes' /\ StreamInv'
    <2>1. CASE inbox = <<>>
      <3>1. UNCHANGED <<inbox, conn, outbox>>
        BY <2>1 DEF PollChar, wireVars
      <3> QED BY <1>1, <1>2, <3>1, QuietKeeps, Types DEF WireTypes
    <2>2. CASE inbox # <<>> /\ Head(inbox).name = "eof"
      <3>1. Drop
        BY <2>2 DEF PollChar
      <3> QED BY <1>1, <2>2, <3>1, DropKeeps DEF gdbVars
    <2>3. CASE inbox # <<>> /\ Head(inbox).name # "eof"
      <3>1. inbox' = Tail(inbox) /\ UNCHANGED <<conn, outbox>>
        BY <2>3 DEF PollChar
      <3> QED BY <1>1, <1>2, <2>3, <3>1, QuietKeeps, Types DEF WireTypes
    <2> QED BY <2>1, <2>2, <2>3
  <1>4. ProcessInv'
    BY <1>1, <1>2, ProcessKept DEF gdbVars
  <1>5. TypeOK'
    BY <1>1, <1>2, <1>3, Types, TypesNext DEF GdbTypes, TargetTypes
  <1> QED BY <1>1, <1>3, <1>4, <1>5 DEF StreamInv

LEMMA DeviceKeeps == ASSUME IInv, DeviceStops \/ HitBreakpoint PROVE IInv'
  <1> USE DEF IInv
  <1>1. /\ dev' = "halted"
        /\ UNCHANGED <<pc, sends, reply, single_step, cur_target, last_target, tc, conn,
                       inbox, outbox, failed, at, cmd, process>>
    BY DEF DeviceStops, HitBreakpoint, serverVars, targetVars, wireVars, gdbVars
  <1>2. WireTypes' /\ StreamInv'
    BY <1>1, QuietKeeps, Types DEF WireTypes, Stopping
  <1>3. ProcessInv'
    BY <1>1, ProcessKept DEF gdbVars, Stopping
  <1>4. TypeOK'
    BY <1>1, <1>2, Types, TypesNext DEF GdbTypes, TargetTypes
  <1> QED BY <1>1, <1>2, <1>3, <1>4 DEF StreamInv

---------------------------------------------------------------------------
(* The commands. *)

(* What they have in common: whose command is served, and what is left     *)
(* alone.                                                                  *)
LEMMA ServingMeans ==
    ASSUME IInv, NEW names \in SUBSET Commands, Serving(names)
    PROVE  /\ Head(inbox) \in Packet /\ Head(inbox).name \in names
           /\ Head(inbox).name \in Runs \cup {"D"} => cur_target
           /\ UNCHANGED gdbVars
           /\ process # "none" => at = "ack" /\ Head(inbox) = cmd
  BY Served DEF Serving, IInv, ProcessInv

LEMMA AttachMeans ==
    ASSUME TargetTypes, Attach
    PROVE  /\ cur_target' = TRUE /\ last_target' \in BOOLEAN /\ tc' = TRUE
           /\ dev' \in {"running", "stepping", "halting", "halted"} /\ failed' \in BOOLEAN
           /\ failed' \/ dev' \in Stopping
  <1>1. cur_target' = TRUE /\ tc' = TRUE /\ last_target' = (last_target /\ ~tc) /\ Transact("Halt")
    BY DEF Attach
  <1>2. last_target' \in BOOLEAN
    BY <1>1
  <1> QED BY <1>1, <1>2, Halting

LEMMA TargetTypesKept ==
    ASSUME TargetTypes, UNCHANGED targetVars, UNCHANGED deviceVars, UNCHANGED single_step
    PROVE  TargetTypes'
  BY DEF TargetTypes, targetVars, deviceVars

LEMMA ServeAccessKeeps == ASSUME IInv, ServeAccess PROVE IInv'
  <1> USE DEF IInv
  <1>1. PICK says \in {"data", "EFF"} : Respond(says)
    BY DEF ServeAccess
  <1>2. Serving({"access"}) /\ {"access"} \in SUBSET Commands
    BY DEF ServeAccess, Commands
  <1>3. UNCHANGED <<single_step, cur_target, last_target, tc, dev, failed>>
    BY DEF ServeAccess, targetVars, deviceVars
  <1>4. reply'.to.name = "access" /\ reply'.says = says
    BY <1>1, <1>2, ServingMeans DEF Respond, PutFirst
  <1>5. WireTypes' /\ StreamInv'
    BY <1>1, <1>2, <1>4, Responded DEF GoodReply, Answers
  <1>6. ProcessInv'
    BY <1>2, <1>3, ServingMeans, ProcessKept
  <1>7. TypeOK'
    BY <1>2, <1>3, <1>5, ServingMeans, Types, TypesNext DEF GdbTypes, gdbVars, TargetTypes
  <1> QED BY <1>3, <1>5, <1>6, <1>7 DEF StreamInv

(* A run is asked for only while there is a target. *)
LEMMA ServeRunKeeps == ASSUME IInv, ServeRun PROVE IInv'
  <1> USE DEF IInv
  <1>1. Serving(Runs) /\ Runs \in SUBSET Commands
    BY DEF ServeRun, Runs, Commands
  <1>2. /\ Head(inbox) \in Packet /\ Head(inbox).name \in Runs /\ cur_target
        /\ UNCHANGED gdbVars
        /\ process # "none" => at = "ack" /\ Head(inbox) = cmd
    BY <1>1, ServingMeans
  <1>3. /\ Transact("Resume") \/ Transact("Step")
        /\ single_step' = FALSE /\ WaitForHalt /\ UNCHANGED <<cur_target, last_target, tc>>
    BY <1>2 DEF ServeRun, targetVars
  <1>4. /\ outbox' = Out(<<Ack>>) /\ pc' = "poll" /\ sends' = sends
        /\ reply' = [to |-> Head(inbox), says |-> "T05"]
    BY <1>3 DEF WaitForHalt
  <1>5. reply' \in Reply /\ reply'.to = Head(inbox)
    BY <1>2, <1>4 DEF Reply, Answers
  <1>6. WireTypes' /\ StreamInv'
    BY <1>1, <1>2, <1>3, <1>4, <1>5, Acknowledged, Types DEF WireTypes
  <1>7. dev' \in {"running", "stepping", "halting", "halted"} /\ failed' \in BOOLEAN
    BY <1>3, AnyTransaction, Types
  <1>8. ProcessInv'
    BY <1>2, <1>3 DEF ProcessInv, Live, Letting, gdbVars
  <1>9. TargetTypes'
    BY <1>3, <1>7, Types DEF TargetTypes
  <1>10. TypeOK'
    BY <1>2, <1>6, <1>9, Types, TypesNext DEF GdbTypes, gdbVars
  <1> QED BY <1>3, <1>6, <1>8, <1>10 DEF StreamInv

LEMMA ServeQueryKeeps == ASSUME IInv, ServeQuery PROVE IInv'
  <1> USE DEF IInv
  <1>1. Serving({"?"}) /\ {"?"} \in SUBSET Commands
    BY DEF ServeQuery, Commands
  <1>2. Head(inbox) \in Packet /\ Head(inbox).name = "?" /\ UNCHANGED gdbVars
    BY <1>1, ServingMeans
  <1>3. UNCHANGED <<single_step, cur_target, last_target, tc, dev, failed>>
    BY DEF ServeQuery, targetVars, deviceVars
  <1>4. WireTypes' /\ StreamInv'
    <2>1. CASE cur_target
      <3>1. /\ outbox' = Out(<<Ack>>) /\ pc' = "poll" /\ sends' = sends
            /\ reply' = [to |-> Head(inbox), says |-> "T05"]
        BY <2>1 DEF ServeQuery, WaitForHalt
      <3>2. reply' \in Reply /\ reply'.to = Head(inbox)
        BY <1>2, <3>1 DEF Reply, Answers
      <3> QED BY <1>1, <1>2, <1>3, <2>1, <3>1, <3>2, Acknowledged, Types DEF WireTypes
    <2>2. CASE ~cur_target
      <3>1. Respond("W00")
        BY <2>2 DEF ServeQuery
      <3>2. reply'.to.name = "?" /\ reply'.says = "W00"
        BY <1>2, <3>1 DEF Respond, PutFirst
      <3> QED BY <1>1, <3>1, <3>2, Responded DEF GoodReply, Answers
    <2> QED BY <2>1, <2>2
  <1>5. ProcessInv'
    BY <1>2, <1>3, ProcessKept
  <1>6. TypeOK'
    BY <1>2, <1>3, <1>4, Types, TypesNext DEF GdbTypes, gdbVars, TargetTypes
  <1> QED BY <1>3, <1>4, <1>5, <1>6 DEF StreamInv

(* Detach is only asked for while there is a target; gdb holds on to its   *)
(* process until the answer.                                               *)
LEMMA ServeDetachKeeps == ASSUME IInv, ServeDetach PROVE IInv'
  <1> USE DEF IInv
  <1>1. Serving({"D"}) /\ {"D"} \in SUBSET Commands /\ Respond("OK")
    BY DEF ServeDetach, Commands
  <1>2. /\ Head(inbox) \in Packet /\ Head(inbox).name = "D" /\ cur_target
        /\ UNCHANGED gdbVars
        /\ process # "none" => at = "ack" /\ Head(inbox) = cmd
    BY <1>1, ServingMeans
  <1>3. /\ Transact("Detach") /\ last_target' = cur_target /\ cur_target' = FALSE /\ tc' = tc
        /\ single_step' = single_step
    BY <1>2 DEF ServeDetach, Detach
  <1>4. reply'.to.name = "D" /\ reply'.says = "OK"
    BY <1>1, <1>2 DEF Respond, PutFirst
  <1>5. WireTypes' /\ StreamInv'
    BY <1>1, <1>4, Responded DEF GoodReply, Answers
  <1>6. ProcessInv'
    BY <1>2 DEF ProcessInv, Live, Letting, gdbVars
  <1>7. TargetTypes'
    <2>1. dev' \in {"running", "stepping", "halting", "halted"} /\ failed' \in BOOLEAN
      BY <1>3, AnyTransaction, Types
    <2>2. last_target' \in BOOLEAN /\ cur_target' \in BOOLEAN
      BY <1>3, Types DEF TargetTypes
    <2> QED BY <1>3, <2>1, <2>2, Types DEF TargetTypes
  <1>8. TypeOK'
    BY <1>2, <1>5, <1>7, Types, TypesNext DEF GdbTypes, gdbVars
  <1> QED BY <1>3, <1>5, <1>6, <1>8 DEF StreamInv

LEMMA ServeKillKeeps == ASSUME IInv, ServeKill PROVE IInv'
  <1> USE DEF IInv
  <1>1. Serving({"k"}) /\ {"k"} \in SUBSET Commands /\ single_step' = single_step
        /\ outbox' = Out(<<Ack>>) /\ UNCHANGED <<pc, sends, reply>> /\ pc = "packet"
    BY DEF ServeKill, Commands, NoResponse, Serving
  <1>2. /\ Head(inbox).name = "k" /\ UNCHANGED gdbVars
        /\ process # "none" => at = "ack" /\ Head(inbox) = cmd
    BY <1>1, ServingMeans
  <1>3. WireTypes' /\ StreamInv'
    BY <1>1, Acknowledged, Types DEF WireTypes
  <1>4. TargetTypes'
    <2>1. CASE UNCHANGED targetVars /\ UNCHANGED deviceVars
      BY <1>1, <2>1, Types, TargetTypesKept
    <2>2. CASE cur_target /\ Detach
      <3>1. dev' \in {"running", "stepping", "halting", "halted"} /\ failed' \in BOOLEAN
        BY <2>2, AnyTransaction, Types DEF Detach
      <3>2. last_target' = cur_target /\ cur_target' = FALSE /\ tc' = tc
        BY <2>2 DEF Detach
      <3>3. last_target' \in BOOLEAN /\ cur_target' \in BOOLEAN
        BY <3>2, Types DEF TargetTypes
      <3> QED BY <1>1, <3>1, <3>2, <3>3, Types DEF TargetTypes
    <2>3. CASE /\ dev' = After("Halt") /\ failed' = TRUE
               /\ last_target' = TRUE /\ cur_target' = FALSE /\ UNCHANGED tc
      <3>1. dev' \in {"running", "stepping", "halting", "halted"}
        BY <2>3 DEF After
      <3>2. last_target' \in BOOLEAN /\ cur_target' \in BOOLEAN /\ failed' \in BOOLEAN
        BY <2>3
      <3> QED BY <1>1, <2>3, <3>1, <3>2, Types DEF TargetTypes
    <2> QED BY <2>1, <2>2, <2>3 DEF ServeKill
  <1>5. ProcessInv'
    BY <1>2 DEF ProcessInv, Live, Letting, gdbVars
  <1>6. TypeOK'
    BY <1>2, <1>3, <1>4, Types, TypesNext DEF GdbTypes, gdbVars
  <1> QED BY <1>1, <1>3, <1>5, <1>6 DEF StreamInv

(* Attach, or nothing: the target that is there stays. *)
LEMMA MayAttach ==
    ASSUME TargetTypes, UNCHANGED single_step,
           Attach \/ (UNCHANGED targetVars /\ UNCHANGED deviceVars)
           \/ (Transact("Halt") /\ UNCHANGED targetVars)
    PROVE  /\ TargetTypes' /\ (cur_target => cur_target')
           /\ failed \/ dev \in Stopping => failed' \/ dev' \in Stopping
  <1>1. CASE Attach
    <2>1. cur_target' \in BOOLEAN /\ tc' \in BOOLEAN
      BY <1>1, AttachMeans
    <2> QED BY <1>1, <2>1, AttachMeans DEF TargetTypes
  <1>2. CASE UNCHANGED targetVars /\ UNCHANGED deviceVars
    BY <1>2, TargetTypesKept DEF targetVars, deviceVars
  <1>3. CASE Transact("Halt") /\ UNCHANGED targetVars
    BY <1>3, Halting DEF TargetTypes, targetVars
  <1> QED BY <1>1, <1>2, <1>3

LEMMA ServeXferKeeps == ASSUME IInv, ServeXfer PROVE IInv'
  <1> USE DEF IInv
  <1>1. PICK says \in {"data", "E01"} : Respond(says)
    BY DEF ServeXfer
  <1>2. Serving({"xfer"}) /\ {"xfer"} \in SUBSET Commands /\ single_step' = single_step
    BY DEF ServeXfer, Commands
  <1>3. Head(inbox).name = "xfer" /\ UNCHANGED gdbVars
    BY <1>2, ServingMeans
  <1>4. /\ TargetTypes' /\ (cur_target => cur_target')
        /\ failed \/ dev \in Stopping => failed' \/ dev' \in Stopping
    <2>1. Attach \/ (UNCHANGED targetVars /\ UNCHANGED deviceVars)
      BY DEF ServeXfer
    <2> QED BY <1>2, <2>1, Types, MayAttach
  <1>5. reply'.to.name = "xfer" /\ reply'.says = says
    BY <1>1, <1>3 DEF Respond, PutFirst
  <1>6. WireTypes' /\ StreamInv'
    BY <1>1, <1>2, <1>5, Responded DEF GoodReply, Answers
  <1>7. ProcessInv'
    BY <1>3, <1>4, ProcessKept
  <1>8. TypeOK'
    BY <1>3, <1>4, <1>6, Types, TypesNext DEF GdbTypes, gdbVars
  <1> QED BY <1>2, <1>6, <1>7, <1>8 DEF StreamInv

LEMMA RestartMeans ==
    ASSUME TargetTypes, UNCHANGED single_step, Restart
    PROVE  /\ TargetTypes' /\ (cur_target => cur_target')
           /\ failed \/ dev \in Stopping => failed' \/ dev' \in Stopping
           /\ cur_target' => failed' \/ dev' \in Stopping
  <1>1. CASE cur_target
    <2>1. Transact("Halt") /\ UNCHANGED targetVars
      BY <1>1 DEF Restart
    <2> QED BY <2>1, MayAttach, Halting
  <1>2. CASE ~cur_target /\ last_target
    <2>1. Attach
      BY <1>2 DEF Restart
    <2> QED BY <2>1, MayAttach, AttachMeans
  <1>3. CASE ~cur_target /\ ~last_target
    <2>1. UNCHANGED targetVars /\ UNCHANGED deviceVars
      BY <1>3 DEF Restart
    <2> QED BY <1>3, <2>1, MayAttach DEF targetVars
  <1> QED BY <1>1, <1>2, <1>3

LEMMA ServeRestartKeeps == ASSUME IInv, ServeRestart PROVE IInv'
  <1> USE DEF IInv
  <1>1. Serving({"R"}) /\ {"R"} \in SUBSET Commands /\ Restart /\ single_step' = single_step
        /\ outbox' = Out(<<Ack>>) /\ UNCHANGED <<pc, sends, reply>> /\ pc = "packet"
    BY DEF ServeRestart, Commands, NoResponse, Serving
  <1>2. UNCHANGED gdbVars
    BY <1>1, ServingMeans
  <1>3. WireTypes' /\ StreamInv'
    BY <1>1, Acknowledged, Types DEF WireTypes
  <1>4. /\ TargetTypes' /\ (cur_target => cur_target')
        /\ failed \/ dev \in Stopping => failed' \/ dev' \in Stopping
    BY <1>1, Types, RestartMeans
  <1>5. ProcessInv'
    BY <1>2, <1>4, ProcessKept
  <1>6. TypeOK'
    BY <1>2, <1>3, <1>4, Types, TypesNext DEF GdbTypes, gdbVars
  <1> QED BY <1>1, <1>3, <1>5, <1>6 DEF StreamInv

LEMMA ServeVRunKeeps == ASSUME IInv, ServeVRun PROVE IInv'
  <1> USE DEF IInv
  <1>1. PICK says \in {"T05", "E01"} : Respond(says) /\ (says = "T05" => cur_target')
    BY DEF ServeVRun
  <1>2. Serving({"vRun"}) /\ {"vRun"} \in SUBSET Commands /\ Restart /\ single_step' = single_step
    BY DEF ServeVRun, Commands
  <1>3. Head(inbox).name = "vRun" /\ UNCHANGED gdbVars
    BY <1>2, ServingMeans
  <1>4. /\ TargetTypes' /\ (cur_target => cur_target')
        /\ failed \/ dev \in Stopping => failed' \/ dev' \in Stopping
        /\ cur_target' => failed' \/ dev' \in Stopping
    BY <1>2, Types, RestartMeans
  <1>5. reply'.to.name = "vRun" /\ reply'.says = says
    BY <1>1, <1>3 DEF Respond, PutFirst
  <1>6. WireTypes' /\ StreamInv'
    BY <1>1, <1>2, <1>4, <1>5, Responded DEF GoodReply, Answers
  <1>7. ProcessInv'
    BY <1>3, <1>4, ProcessKept
  <1>8. TypeOK'
    BY <1>3, <1>4, <1>6, Types, TypesNext DEF GdbTypes, gdbVars
  <1> QED BY <1>2, <1>6, <1>7, <1>8 DEF StreamInv

LEMMA ServeAttachKeeps == ASSUME IInv, ServeAttach PROVE IInv'
  <1> USE DEF IInv
  <1>1. /\ Serving({"attach"}) /\ {"attach"} \in SUBSET Commands /\ Attach /\ Respond("T05")
        /\ single_step' = single_step
    BY DEF ServeAttach, Commands
  <1>2. Head(inbox).name = "attach" /\ UNCHANGED gdbVars
    BY <1>1, ServingMeans
  <1>3. TargetTypes' /\ cur_target' /\ (failed' \/ dev' \in Stopping)
    BY <1>1, Types, MayAttach, AttachMeans
  <1>4. reply'.to.name = "attach" /\ reply'.says = "T05"
    BY <1>1, <1>2 DEF Respond, PutFirst
  <1>5. WireTypes' /\ StreamInv'
    BY <1>1, <1>3, <1>4, Responded DEF GoodReply, Answers
  <1>6. ProcessInv'
    BY <1>2, <1>3, ProcessKept
  <1>7. TypeOK'
    BY <1>2, <1>3, <1>5, Types, TypesNext DEF GdbTypes, gdbVars
  <1> QED BY <1>1, <1>5, <1>6, <1>7 DEF StreamInv

(* Only a gdb without a process asks for a target that is none. *)
LEMMA ServeAttachOtherKeeps == ASSUME IInv, ServeAttachOther PROVE IInv'
  <1> USE DEF IInv
  <1>1. /\ Serving({"attachOther"}) /\ {"attachOther"} \in SUBSET Commands /\ Respond("E01")
        /\ cur_target' = FALSE /\ UNCHANGED <<single_step, last_target, tc, dev, failed>>
    BY DEF ServeAttachOther, Commands, deviceVars
  <1>2. /\ Head(inbox).name = "attachOther" /\ UNCHANGED gdbVars
        /\ process # "none" => at = "ack" /\ Head(inbox) = cmd
    BY <1>1, ServingMeans
  <1>3. process = "none"
    BY <1>2 DEF ProcessInv
  <1>4. reply'.to.name = "attachOther" /\ reply'.says = "E01"
    BY <1>1, <1>2 DEF Respond, PutFirst
  <1>5. WireTypes' /\ StreamInv'
    BY <1>1, <1>4, Responded DEF GoodReply, Answers
  <1>6. ProcessInv'
    BY <1>2, <1>3 DEF ProcessInv, gdbVars
  <1>7. TargetTypes'
    <2>1. cur_target' \in BOOLEAN
      BY <1>1
    <2> QED BY <1>1, <2>1, Types DEF TargetTypes
  <1>8. TypeOK'
    BY <1>2, <1>5, <1>7, Types, TypesNext DEF GdbTypes, gdbVars
  <1> QED BY <1>1, <1>5, <1>6, <1>8 DEF StreamInv

---------------------------------------------------------------------------
(* gdb. *)

LEMMA Characters ==
    ASSUME NEW c \in Interrupts \cup {"+", "eof"}
    PROVE  Char(c) \in Item /\ Char(c).name = c /\ c \notin Commands
  BY DEF Item, Char, Interrupts, Commands

(* gdb adds a character; the commands in front of it are those before. *)
LEMMA CharacterAdded ==
    ASSUME NEW s \in Seq(Item), NEW c \in Interrupts \cup {"+", "eof"}
    PROVE  /\ Append(s, Char(c)) \in Seq(Item) /\ Append(s, Char(c)) # <<>>
           /\ \A i \in 1 .. Len(Append(s, Char(c))) :
                \/ i \in 1 .. Len(s) /\ Append(s, Char(c))[i] = s[i]
                \/ Append(s, Char(c))[i] = Char(c)
           /\ \A i \in 1 .. Len(s) : i \in 1 .. Len(Append(s, Char(c)))
                                     /\ Append(s, Char(c))[i] = s[i]
           /\ \E i \in 1 .. Len(Append(s, Char(c))) : Append(s, Char(c))[i] = Char(c)
  <1>1. Char(c) \in Item
    BY Characters
  <1> DEFINE t == Append(s, Char(c))
  <1>2. t \in Seq(Item) /\ Len(s) \in Nat /\ Len(t) = Len(s) + 1 /\ t[Len(s) + 1] = Char(c)
        /\ \A i \in 1 .. Len(s) : t[i] = s[i]
    BY <1>1, AppendElements
  <1> HIDE DEF t
  <1> QED BY <1>2 DEF t

LEMMA LateElements ==
    ASSUME NEW s \in Seq(Item)
    PROVE  /\ Late(s) \in Seq(Item) /\ Len(Late(s)) = Len(s)
           /\ \A i \in 1 .. Len(s) : Late(s)[i] = s[i] \/ Late(s)[i] = Char("late")
  <1>1. Char("late") \in Item
    BY Characters DEF Interrupts
  <1>2. DOMAIN s = 1 .. Len(s) /\ Len(s) \in Nat /\ \A i \in 1 .. Len(s) : s[i] \in Item
    OBVIOUS
  <1>3. Late(s) = [i \in 1 .. Len(s) |-> IF s[i].name = "interrupt" THEN Char("late") ELSE s[i]]
    BY <1>2 DEF Late
  <1>4. \A i \in 1 .. Len(s) : /\ Late(s)[i] = s[i] \/ Late(s)[i] = Char("late")
                               /\ Late(s)[i] \in Item
    BY <1>1, <1>2, <1>3
  <1>5. Late(s) \in [1 .. Len(s) -> Item]
    BY <1>3, <1>4
  <1> QED BY <1>2, <1>4, <1>5

LEMMA AcceptKeeps == ASSUME IInv, Accept PROVE IInv'
  <1> USE DEF IInv
  <1>1. /\ pc = "packet" /\ ~conn /\ at = "queued" /\ conn' = TRUE /\ at' = "ack"
        /\ cmd' = [name |-> "xfer", bit |-> ~cmd.bit] /\ inbox' = <<cmd'>>
        /\ UNCHANGED <<pc, sends, reply, single_step, cur_target, last_target, tc,
                       outbox, dev, failed, process>>
    BY DEF Accept, serverVars, targetVars, deviceVars
  <1>2. ~Live /\ outbox = <<>> /\ process = "none"
    BY <1>1 DEF Live, Wire, ProcessInv
  <1>3. cmd' \in Packet /\ cmd'.name = "xfer" /\ cmd' \in Item
    BY <1>1, Types DEF GdbTypes, Packet, Commands, Item
  <1>4. inbox' \in Seq(Item) /\ Len(inbox') = 1 /\ inbox'[1] = cmd'
    BY <1>1, <1>3
  <1>5. TypeOK'
    <2>1. WireTypes'
      <3>1. conn' \in BOOLEAN /\ conn'
        BY <1>1
      <3> QED BY <1>1, <1>4, <3>1, Types DEF WireTypes
    <2>2. GdbTypes' /\ TargetTypes'
      BY <1>1, <1>3, Types DEF GdbTypes, TargetTypes
    <2> QED BY <2>1, <2>2, TypesNext
  <1>6. Wire'
    <2>1. \A i \in 1 .. Len(inbox') : inbox'[i] # Char("eof")
      BY <1>3, <1>4, Kinds
    <2> QED BY <1>1, <2>1 DEF Wire, Listening, Contains, Live
  <1>7. InboxInv'
    <2>1. \A i \in 1 .. Len(inbox') : i = 1 /\ i + 1 .. Len(inbox') = {}
      BY <1>4
    <2>2. \A k \in 1 .. Len(outbox') : outbox'[k] # Ack
      BY <1>1, <1>2
    <2> QED BY <1>1, <1>3, <1>4, <2>1, <2>2 DEF InboxInv, Runs
  <1>8. OutboxInv' /\ ReplyInv' /\ PollInv' /\ GoodInv'
    BY <1>1, <1>2 DEF OutboxInv, ReplyInv, PollInv, GoodInv
  <1>9. ProcessInv'
    BY <1>1, <1>2, <1>3 DEF ProcessInv
  <1> QED BY <1>1, <1>5, <1>6, <1>7, <1>8, <1>9

(* Without a gdb that is there nothing is on its way to one. *)
LEMMA ConnectKeeps == ASSUME IInv, Connect PROVE IInv'
  <1> USE DEF IInv
  <1>1. /\ at = "absent" /\ at' = "queued" /\ process' = "none"
        /\ UNCHANGED <<pc, sends, reply, single_step, cur_target, last_target, tc, conn,
                       inbox, outbox, dev, failed, cmd>>
    BY DEF Connect, serverVars, targetVars, wireVars, deviceVars
  <1>2. ~Live /\ ~Live'
    BY <1>1 DEF Live
  <1>3. TypeOK'
    BY <1>1 DEF TypeOK
  <1>4. Wire'
    BY <1>1, <1>2 DEF Wire, Listening
  <1>5. InboxInv' /\ OutboxInv' /\ ReplyInv' /\ PollInv' /\ GoodInv'
    BY <1>1, <1>2 DEF InboxInv, OutboxInv, ReplyInv, PollInv, GoodInv
  <1>6. ProcessInv'
    BY <1>1 DEF ProcessInv
  <1> QED BY <1>1, <1>3, <1>4, <1>5, <1>6

LEMMA LeaveKeeps == ASSUME IInv, Leave PROVE IInv'
  <1> USE DEF IInv
  <1>1. /\ at' = "absent" /\ process' = "none"
        /\ UNCHANGED <<pc, sends, reply, single_step, cur_target, last_target, tc, conn,
                       dev, failed, cmd>>
        /\ IF at = "queued" THEN UNCHANGED <<inbox, outbox>>
           ELSE inbox' = Append(inbox, Char("eof")) /\ outbox' = <<>>
    BY DEF Leave, serverVars, targetVars, wireVars, deviceVars
  <1>2. ~Live'
    BY <1>1 DEF Live
  <1>3. ProcessInv'
    BY <1>1 DEF ProcessInv
  <1>4. inbox \in Seq(Item)
    BY Types DEF WireTypes
  <1>5. CASE at = "queued"
    <2>1. ~Live
      BY <1>5 DEF Live
    <2>2. TypeOK'
      BY <1>1, <1>5 DEF TypeOK
    <2>3. Wire'
      BY <1>1, <1>2, <1>5, <2>1 DEF Wire, Listening
    <2>4. InboxInv' /\ OutboxInv' /\ ReplyInv' /\ PollInv' /\ GoodInv'
      BY <1>1, <1>2, <1>5 DEF InboxInv, OutboxInv, ReplyInv, PollInv, GoodInv
    <2> QED BY <1>1, <1>3, <2>2, <2>3, <2>4
  <1>6. CASE at # "queued"
    <2>1. inbox' = Append(inbox, Char("eof")) /\ outbox' = <<>>
      BY <1>1, <1>6
    <2>2. /\ inbox' \in Seq(Item)
          /\ \A i \in 1 .. Len(inbox') : \/ i \in 1 .. Len(inbox) /\ inbox'[i] = inbox[i]
                                         \/ inbox'[i] = Char("eof")
          /\ \E i \in 1 .. Len(inbox') : inbox'[i] = Char("eof")
      BY <1>4, <2>1, CharacterAdded
    <2>3. Char("eof").name \notin Commands \cup {"late"}
      BY Characters
    <2>4. WireTypes'
      <3>1. at # "absent" /\ Live
        BY <1>6, Types DEF Leave, Live, GdbTypes
      <3>2. conn
        BY <3>1 DEF Wire, Listening
      <3>3. outbox' \in Seq(Message)
        BY <2>1
      <3> QED BY <1>1, <2>2, <3>2, <3>3, Types DEF WireTypes
    <2>5. TypeOK'
      BY <1>1, <2>4, Types, TypesNext DEF GdbTypes, TargetTypes
    <2>6. Wire'
      BY <1>2, <2>1, <2>2 DEF Wire, Listening, Contains
    <2>7. InboxInv'
      <3> SUFFICES ASSUME NEW i \in 1 .. Len(inbox'), inbox'[i].name \in Commands
                   PROVE  /\ inbox'[i].name \in Runs \cup {"D"} => cur_target'
                          /\ pc' \in {"packet", "ack"}
                          /\ \A j \in i + 1 .. Len(inbox') :
                               inbox'[j].name \notin Commands \cup {"late"}
        BY <1>2 DEF InboxInv
      <3>1. i \in 1 .. Len(inbox) /\ inbox'[i] = inbox[i]
        BY <2>2, <2>3
      <3>2. ASSUME NEW j \in i + 1 .. Len(inbox')
            PROVE  inbox'[j].name \notin Commands \cup {"late"}
        <4>1. j \in 1 .. Len(inbox')
          BY <2>2, <3>1
        <4>2. CASE inbox'[j] = Char("eof")
          BY <2>3, <4>2
        <4>3. CASE j \in 1 .. Len(inbox) /\ inbox'[j] = inbox[j]
          <5>1. j \in i + 1 .. Len(inbox)
            BY <3>1, <4>3, <1>4
          <5> QED BY <3>1, <4>3, <5>1 DEF InboxInv
        <4> QED BY <2>2, <4>1, <4>2, <4>3
      <3> QED BY <1>1, <3>1, <3>2 DEF InboxInv
    <2>8. PollInv'
      BY <1>1, <1>2, <2>2, <2>3 DEF PollInv
    <2>9. OutboxInv' /\ ReplyInv' /\ GoodInv'
      BY <1>2 DEF OutboxInv, ReplyInv, GoodInv
    <2> QED BY <1>1, <1>3, <2>5, <2>6, <2>7, <2>8, <2>9
  <1> QED BY <1>5, <1>6

(* The new command carries the other bit: what is under way is not for it. *)
LEMMA SendKeeps ==
    ASSUME IInv, NEW name \in Commands, Send(name)
    PROVE  IInv'
  <1> USE DEF IInv
  <1>1. /\ at = "ready" /\ at' = "ack" /\ name \in Asks
        /\ cmd' = [name |-> name, bit |-> ~cmd.bit] /\ inbox' = Append(inbox, cmd')
        /\ process' = IF name \in Runs THEN "running" ELSE process
        /\ UNCHANGED <<pc, sends, reply, single_step, cur_target, last_target, tc, conn,
                       outbox, dev, failed>>
    BY DEF Send, serverVars, targetVars, deviceVars
  <1>2. Live /\ Live'
    BY <1>1 DEF Live
  <1>3. /\ cmd' \in Packet /\ cmd' \in Item /\ cmd'.name = name /\ cmd'.bit # cmd.bit
    BY <1>1, Types DEF GdbTypes, Packet, Item
  <1>4. inbox \in Seq(Item)
    BY Types DEF WireTypes
  <1>5. /\ inbox' \in Seq(Item) /\ Len(inbox) \in Nat /\ Len(inbox') = Len(inbox) + 1
        /\ inbox'[Len(inbox) + 1] = cmd' /\ \A i \in 1 .. Len(inbox) : inbox'[i] = inbox[i]
    BY <1>1, <1>3, <1>4, AppendElements
  <1>6. /\ \A i \in 1 .. Len(inbox) : inbox[i].name \notin Commands
        /\ \A k \in 1 .. Len(outbox) : outbox[k] # Ack /\ outbox[k].to = cmd
        /\ pc \in {"packet", "ack"} /\ (pc = "ack" => reply.to = cmd)
    BY <1>1, <1>2, Types DEF InboxInv, OutboxInv, ReplyInv, PollInv, WireTypes
  <1>7. /\ process # "none" => cur_target /\ name # "attachOther"
        /\ name \in Runs \cup {"D"} => cur_target
        /\ process = "stopped" => failed \/ dev \in Stopping
    <2>1. process # "none" => cur_target
      BY <1>1 DEF ProcessInv, Letting
    <2>2. name \in Runs \cup {"D"} => process # "none"
      BY <1>1 DEF Asks, Runs
    <2>3. process # "none" => name # "attachOther"
      BY <1>1 DEF Asks
    <2> QED BY <1>1, <2>1, <2>2, <2>3 DEF ProcessInv, Letting
  <1>8. TypeOK'
    <2>1. WireTypes'
      <3>1. conn
        BY <1>2 DEF Wire, Listening
      <3> QED BY <1>1, <1>5, <3>1, Types DEF WireTypes
    <2> QED BY <1>1, <1>3, <2>1, Types, TypesNext DEF GdbTypes, TargetTypes
  <1>9. Wire'
    <2>1. \A i \in 1 .. Len(inbox) : inbox[i] # Char("eof")
      BY <1>2, ListeningMeans DEF Wire
    <2>2. cmd' # Char("eof")
      BY <1>3, Kinds
    <2>3. \A i \in 1 .. Len(inbox') : inbox'[i] # Char("eof")
      BY <1>5, <2>1, <2>2
    <2> QED BY <1>1, <1>2, <2>3 DEF Wire, Listening, Contains
  <1>10. InboxInv'
    <2> SUFFICES ASSUME NEW i \in 1 .. Len(inbox'), inbox'[i].name \in Commands
                 PROVE  i = Len(inbox) + 1 /\ i + 1 .. Len(inbox') = {}
      BY <1>1, <1>3, <1>5, <1>6, <1>7 DEF InboxInv
    <2> QED BY <1>5, <1>6
  <1>11. OutboxInv' /\ ReplyInv' /\ PollInv' /\ GoodInv'
    BY <1>1, <1>3, <1>6 DEF OutboxInv, ReplyInv, PollInv, GoodInv
  <1>12. ProcessInv'
    <2>1. CASE name \in Runs
      <3>1. process' = "running" /\ cur_target /\ name # "attachOther"
        BY <1>1, <1>7, <2>1 DEF Runs
      <3> QED BY <1>1, <1>2, <1>3, <3>1 DEF ProcessInv
    <2>2. CASE name \notin Runs
      BY <1>1, <1>2, <1>3, <1>7, <2>2 DEF ProcessInv
    <2> QED BY <2>1, <2>2
  <1> QED BY <1>1, <1>8, <1>9, <1>10, <1>11, <1>12

(* gdb adds a character that does not end the connection. *)
LEMMA CharacterKeeps ==
    ASSUME IInv, Live, NEW c \in {"interrupt", "+"}, inbox' = Append(inbox, Char(c)),
           UNCHANGED <<pc, conn, at, cmd, cur_target>>,
           \A k \in 1 .. Len(outbox') : \E j \in 1 .. Len(outbox) : outbox'[k] = outbox[j]
    PROVE  inbox' \in Seq(Item) /\ Wire' /\ InboxInv' /\ PollInv'
  <1> USE DEF IInv
  <1>1. inbox \in Seq(Item) /\ c \in Interrupts \cup {"+", "eof"}
    BY Types DEF WireTypes, Interrupts
  <1>2. Char(c).name \notin Commands \cup {"late", "eof"}
    BY <1>1, Characters
  <1>3. /\ inbox' \in Seq(Item)
        /\ \A i \in 1 .. Len(inbox') : \/ i \in 1 .. Len(inbox) /\ inbox'[i] = inbox[i]
                                       \/ inbox'[i] = Char(c)
    BY <1>1, CharacterAdded
  <1>4. Live' /\ at' = at /\ cmd' = cmd
    BY DEF Live
  <1>5. Wire'
    <2>1. \A i \in 1 .. Len(inbox) : inbox[i] # Char("eof")
      BY ListeningMeans DEF Wire
    <2>2. Char(c) # Char("eof")
      BY <1>2, Kinds
    <2>3. \A i \in 1 .. Len(inbox') : inbox'[i] # Char("eof")
      BY <1>3, <2>1, <2>2
    <2>4. conn
      BY DEF Wire, Listening
    <2> QED BY <1>4, <2>3, <2>4 DEF Wire, Listening, Contains
  <1>6. InboxInv'
    <2> SUFFICES ASSUME NEW i \in 1 .. Len(inbox'), inbox'[i].name \in Commands
                 PROVE  /\ inbox'[i].name \in Runs \cup {"D"} => cur_target
                        /\ at = "ack" /\ inbox'[i] = cmd
                        /\ \A k \in 1 .. Len(outbox') : outbox'[k] # Ack
                        /\ pc \in {"packet", "ack"}
                        /\ \A j \in i + 1 .. Len(inbox') :
                             inbox'[j].name \notin Commands \cup {"late"}
      BY <1>4 DEF InboxInv
    <2>1. i \in 1 .. Len(inbox) /\ inbox'[i] = inbox[i]
      BY <1>2, <1>3
    <2>2. ASSUME NEW j \in i + 1 .. Len(inbox')
          PROVE  inbox'[j].name \notin Commands \cup {"late"}
      <3>1. j \in 1 .. Len(inbox')
        BY <1>3, <2>1
      <3>2. CASE inbox'[j] = Char(c)
        BY <1>2, <3>2
      <3>3. CASE j \in 1 .. Len(inbox) /\ inbox'[j] = inbox[j]
        <4>1. j \in i + 1 .. Len(inbox)
          BY <2>1, <3>3, <1>1
        <4> QED BY <2>1, <3>3, <4>1 DEF InboxInv
      <3> QED BY <1>3, <3>1, <3>2, <3>3
    <2> QED BY <2>1, <2>2 DEF InboxInv
  <1>7. PollInv'
    BY <1>2, <1>3, <1>4 DEF PollInv
  <1> QED BY <1>3, <1>5, <1>6, <1>7

LEMMA InterruptKeeps == ASSUME IInv, Interrupt PROVE IInv'
  <1> USE DEF IInv
  <1>1. /\ at = "reply" /\ inbox' = Append(inbox, Char("interrupt"))
        /\ UNCHANGED <<pc, sends, reply, single_step, cur_target, last_target, tc, conn,
                       outbox, dev, failed, at, cmd, process>>
    BY DEF Interrupt, serverVars, targetVars, deviceVars, gdbVars
  <1>2. Live /\ Live'
    BY <1>1 DEF Live
  <1>3. inbox' \in Seq(Item) /\ Wire' /\ InboxInv' /\ PollInv'
    BY <1>1, <1>2, CharacterKeeps
  <1>4. TypeOK'
    <2>1. conn
      BY <1>2 DEF Wire, Listening
    <2> QED BY <1>1, <1>3, <2>1, Types, TypesNext DEF WireTypes, GdbTypes, TargetTypes
  <1>5. OutboxInv' /\ ReplyInv' /\ GoodInv'
    BY <1>1, <1>2 DEF OutboxInv, ReplyInv, GoodInv, GoodReply
  <1>6. ProcessInv'
    BY <1>1, ProcessKept DEF gdbVars
  <1> QED BY <1>1, <1>3, <1>4, <1>5, <1>6

(* What gdb takes out of its end. *)
LEMMA Taken ==
    ASSUME IInv, outbox # <<>>, outbox' = Tail(outbox)
    PROVE  /\ outbox' \in Seq(Message) /\ Head(outbox) = outbox[1] /\ Head(outbox) \in Message
           /\ Len(outbox) \in Nat \ {0} /\ Len(outbox') = Len(outbox) - 1
           /\ \A k \in 1 .. Len(outbox') : k + 1 \in 1 .. Len(outbox) /\ outbox'[k] = outbox[k + 1]
  <1>1. outbox \in Seq(Message)
    BY Types DEF IInv, WireTypes
  <1>2. /\ outbox' \in Seq(Message) /\ Head(outbox) = outbox[1] /\ Head(outbox) \in Message
        /\ Len(outbox) \in Nat \ {0} /\ Len(outbox') = Len(outbox) - 1
        /\ \A k \in 1 .. Len(outbox') : outbox'[k] = outbox[k + 1]
    BY <1>1, TailElements
  <1> QED BY <1>2

LEMMA TakeAckKeeps == ASSUME IInv, TakeAck PROVE IInv'
  <1> USE DEF IInv
  <1>1. /\ at = "ack" /\ outbox # <<>> /\ Head(outbox) = Ack /\ outbox' = Tail(outbox)
        /\ at' = IF cmd.name \in Unanswered THEN "ready" ELSE "reply"
        /\ process' = IF cmd.name = "k" THEN "none" ELSE process
        /\ UNCHANGED <<pc, sends, reply, single_step, cur_target, last_target, tc, conn,
                       inbox, dev, failed, cmd>>
    BY DEF TakeAck, serverVars, targetVars, deviceVars
  <1>2. Live /\ Live' /\ at' # "ack"
    BY <1>1 DEF Live
  <1>3. /\ outbox' \in Seq(Message) /\ Head(outbox) = outbox[1]
        /\ Len(outbox) \in Nat \ {0}
        /\ \A k \in 1 .. Len(outbox') : k + 1 \in 1 .. Len(outbox) /\ outbox'[k] = outbox[k + 1]
    BY <1>1, Taken
  <1>4. 1 \in 1 .. Len(outbox) /\ outbox[1] = Ack
    BY <1>1, <1>3
  <1>5. \A k \in 1 .. Len(outbox') : outbox'[k] # Ack /\ outbox'[k].to = cmd
    <2> SUFFICES ASSUME NEW k \in 1 .. Len(outbox')
                 PROVE  outbox[k + 1] # Ack /\ outbox[k + 1].to = cmd
      BY <1>3
    <2>1. k + 1 \in 1 .. Len(outbox) /\ 1 \in 1 .. (k + 1) - 1
      BY <1>3
    <2> QED BY <1>2, <1>4, <2>1 DEF OutboxInv
  <1>6. TypeOK'
    <2>1. at' \in {"ready", "reply"} /\ process' \in {"none", "stopped", "running"}
      BY <1>1, Types DEF GdbTypes
    <2>2. conn
      BY <1>2 DEF Wire, Listening
    <2> QED BY <1>1, <1>3, <2>1, <2>2, Types, TypesNext DEF WireTypes, GdbTypes, TargetTypes
  <1>7. Wire'
    BY <1>1, <1>2 DEF Wire, Listening
  <1>8. InboxInv'
    <2>1. \A i \in 1 .. Len(inbox) : inbox[i].name \notin Commands
      BY <1>2, <1>4 DEF InboxInv
    <2> QED BY <1>1, <2>1 DEF InboxInv
  <1>9. OutboxInv'
    BY <1>1, <1>2, <1>5 DEF OutboxInv
  <1>10. ReplyInv'
    BY <1>1, <1>2, <1>4 DEF ReplyInv
  <1>11. PollInv'
    <2>1. ASSUME pc \in {"poll", "char"}
          PROVE  /\ at' = "reply"
                 /\ \A k \in 1 .. Len(outbox') : outbox'[k] = Ack \/ outbox'[k].to # cmd
      <3>1. cmd.name \in Runs \cup {"?"}
        BY <1>2, <2>1 DEF PollInv
      <3>2. at' = "reply"
        BY <1>1, <3>1 DEF Runs, Unanswered
      <3> QED BY <1>2, <1>3, <2>1, <3>2 DEF PollInv
    <2> QED BY <1>1, <1>2, <2>1 DEF PollInv
  <1>12. GoodInv'
    BY <1>1, <1>2, <1>3 DEF GoodInv, GoodReply
  <1>13. ProcessInv'
    BY <1>1, <1>2 DEF ProcessInv, Letting, Unanswered
  <1> QED BY <1>1, <1>6, <1>7, <1>8, <1>9, <1>10, <1>11, <1>12, <1>13

LEMMA IgnorePacketKeeps == ASSUME IInv, IgnorePacket PROVE IInv'
  <1> USE DEF IInv
  <1>1. /\ at = "ack" /\ outbox # <<>> /\ Head(outbox) # Ack /\ outbox' = Tail(outbox)
        /\ inbox' = Append(inbox, Char("+"))
        /\ UNCHANGED <<pc, sends, reply, single_step, cur_target, last_target, tc, conn,
                       dev, failed, at, cmd, process>>
    BY DEF IgnorePacket, serverVars, targetVars, deviceVars, gdbVars
  <1>2. Live /\ Live'
    BY <1>1 DEF Live
  <1>3. /\ outbox' \in Seq(Message) /\ outbox[1] # Ack
        /\ Len(outbox) \in Nat \ {0} /\ Len(outbox') = Len(outbox) - 1
        /\ \A k \in 1 .. Len(outbox') : k + 1 \in 1 .. Len(outbox) /\ outbox'[k] = outbox[k + 1]
    BY <1>1, Taken
  <1>4. inbox' \in Seq(Item) /\ Wire' /\ InboxInv' /\ PollInv'
    BY <1>1, <1>2, <1>3, CharacterKeeps
  <1>5. TypeOK'
    <2>1. conn
      BY <1>2 DEF Wire, Listening
    <2> QED BY <1>1, <1>3, <1>4, <2>1, Types, TypesNext DEF WireTypes, GdbTypes, TargetTypes
  <1>6. ASSUME NEW n \in 0 .. Len(outbox'), \E j \in 1 .. n + 1 : outbox[j] = Ack
        PROVE  \E j \in 1 .. n : outbox'[j] = Ack
    <2>1. PICK j \in 1 .. n + 1 : outbox[j] = Ack
      BY <1>6
    <2>2. j - 1 \in 1 .. n /\ j - 1 \in 1 .. Len(outbox') /\ (j - 1) + 1 = j
      BY <1>3, <2>1
    <2> QED BY <1>3, <2>1, <2>2
  <1>7. ASSUME NEW n \in 0 .. Len(outbox'), \E j \in 1 .. n : outbox'[j] = Ack
        PROVE  \E j \in 1 .. n + 1 : outbox[j] = Ack
    <2>1. PICK j \in 1 .. n : outbox'[j] = Ack
      BY <1>7
    <2>2. j + 1 \in 1 .. n + 1 /\ j \in 1 .. Len(outbox')
      BY <1>3, <2>1
    <2> QED BY <1>3, <2>1, <2>2
  <1>8. OutboxInv'
    <2> SUFFICES ASSUME NEW k \in 1 .. Len(outbox')
                 PROVE  IF \E j \in 1 .. k - 1 : outbox'[j] = Ack
                        THEN outbox'[k] # Ack /\ outbox'[k].to = cmd
                        ELSE outbox'[k] = Ack \/ outbox'[k].to.bit # cmd.bit
      BY <1>1 DEF OutboxInv
    <2>1. k - 1 \in 0 .. Len(outbox') /\ (k - 1) + 1 = k /\ (k + 1) - 1 = k
      BY <1>3
    <2>2. (\E j \in 1 .. k - 1 : outbox'[j] = Ack) <=> (\E j \in 1 .. (k + 1) - 1 : outbox[j] = Ack)
      BY <1>6, <1>7, <2>1
    <2> QED BY <1>1, <1>2, <1>3, <2>2 DEF OutboxInv
  <1>9. ReplyInv'
    <2>1. Len(outbox') \in 0 .. Len(outbox') /\ Len(outbox') + 1 = Len(outbox)
      BY <1>3
    <2>2. (\E j \in 1 .. Len(outbox') : outbox'[j] = Ack)
            <=> (\E j \in 1 .. Len(outbox) : outbox[j] = Ack)
      BY <1>6, <1>7, <2>1
    <2> QED BY <1>1, <1>2, <2>2 DEF ReplyInv
  <1>10. GoodInv'
    BY <1>1, <1>2, <1>3 DEF GoodInv, GoodReply
  <1>11. ProcessInv'
    BY <1>1, ProcessKept DEF gdbVars
  <1> QED BY <1>1, <1>4, <1>5, <1>8, <1>9, <1>10, <1>11

(* The answer is that of gdb's command, and what it says of the target is  *)
(* still so.                                                               *)
LEMMA TakeReplyKeeps == ASSUME IInv, TakeReply PROVE IInv'
  <1> USE DEF IInv
  <1>1. /\ at = "reply" /\ at' = "ready" /\ outbox # <<>> /\ Head(outbox) # Ack
        /\ outbox' = Tail(outbox) /\ inbox' = Append(Late(inbox), Char("+"))
        /\ process' = CASE Head(outbox).says = "T05" -> "stopped"
                         [] Head(outbox).says \in {"W00", "X1D", "E01", "OK"} -> "none"
                         [] OTHER -> process
        /\ UNCHANGED <<pc, sends, reply, single_step, cur_target, last_target, tc, conn,
                       dev, failed, cmd>>
    BY DEF TakeReply, serverVars, targetVars, deviceVars
  <1>2. Live /\ Live' /\ at # "ack" /\ at' # "ack"
    BY <1>1 DEF Live
  <1>3. /\ outbox' \in Seq(Message) /\ Head(outbox) = outbox[1]
        /\ Len(outbox) \in Nat \ {0} /\ 1 \in 1 .. Len(outbox)
        /\ \A k \in 1 .. Len(outbox') : k + 1 \in 1 .. Len(outbox) /\ outbox'[k] = outbox[k + 1]
    BY <1>1, Taken
  <1>4. Head(outbox).to = cmd /\ GoodReply(Head(outbox))
    BY <1>1, <1>2, <1>3 DEF OutboxInv, GoodInv
  <1>5. pc \notin {"poll", "char"}
    BY <1>1, <1>2, <1>3, <1>4 DEF PollInv
  <1>6. \A i \in 1 .. Len(inbox) : inbox[i].name \notin Commands /\ inbox[i].name # "eof"
    <2>1. \A i \in 1 .. Len(inbox) : inbox[i].name \notin Commands
      BY <1>1, <1>2 DEF InboxInv
    <2>2. \A i \in 1 .. Len(inbox) : inbox[i] # Char("eof")
      BY <1>2, ListeningMeans DEF Wire
    <2>3. \A i \in 1 .. Len(inbox) : inbox[i] \in Item
      BY Types DEF WireTypes
    <2> QED BY <2>1, <2>2, <2>3, Kinds
  <1>7. /\ inbox' \in Seq(Item)
        /\ \A i \in 1 .. Len(inbox') : inbox'[i].name \notin Commands /\ inbox'[i].name # "eof"
    <2>1. /\ Late(inbox) \in Seq(Item) /\ Len(Late(inbox)) = Len(inbox)
          /\ \A i \in 1 .. Len(inbox) : Late(inbox)[i] = inbox[i] \/ Late(inbox)[i] = Char("late")
      BY Types, LateElements DEF WireTypes
    <2>2. /\ Char("late").name \notin Commands /\ Char("late").name # "eof"
          /\ Char("+").name \notin Commands /\ Char("+").name # "eof"
      BY Characters DEF Interrupts
    <2>3. \A i \in 1 .. Len(Late(inbox)) : /\ Late(inbox)[i].name \notin Commands
                                           /\ Late(inbox)[i].name # "eof"
      BY <1>6, <2>1, <2>2
    <2>4. /\ inbox' \in Seq(Item)
          /\ \A i \in 1 .. Len(inbox') :
               \/ i \in 1 .. Len(Late(inbox)) /\ inbox'[i] = Late(inbox)[i]
               \/ inbox'[i] = Char("+")
      BY <1>1, <2>1, CharacterAdded
    <2> QED BY <2>2, <2>3, <2>4
  <1>8. TypeOK'
    <2>1. process' \in {"none", "stopped", "running"}
      BY <1>1, Types DEF GdbTypes
    <2>2. conn
      BY <1>2 DEF Wire, Listening
    <2> QED BY <1>1, <1>3, <1>7, <2>1, <2>2, Types, TypesNext
           DEF WireTypes, GdbTypes, TargetTypes
  <1>9. Wire'
    <2>1. \A i \in 1 .. Len(inbox') : inbox'[i] # Char("eof")
      BY <1>7, Kinds
    <2>2. conn
      BY <1>2 DEF Wire, Listening
    <2> QED BY <1>1, <1>2, <2>1, <2>2 DEF Wire, Listening, Contains
  <1>10. InboxInv' /\ PollInv'
    BY <1>1, <1>5, <1>7 DEF InboxInv, PollInv
  <1>11. OutboxInv'
    BY <1>1, <1>2, <1>3 DEF OutboxInv
  <1>12. ReplyInv'
    BY <1>1, <1>2 DEF ReplyInv
  <1>13. GoodInv'
    BY <1>1, <1>2, <1>3 DEF GoodInv, GoodReply
  <1>14. ProcessInv'
    <2>1. cmd.name # "k"
      BY <1>1 DEF ProcessInv, Unanswered
    <2>2. CASE Head(outbox).says = "T05"
      <3>1. process' = "stopped" /\ cur_target /\ (failed \/ dev \in Stopping)
        BY <1>1, <1>4, <2>2 DEF GoodReply
      <3>2. cmd.name # "attachOther"
        BY <1>4, <2>2 DEF GoodReply
      <3> QED BY <1>1, <1>2, <3>1, <3>2 DEF ProcessInv
    <2>3. CASE Head(outbox).says \in {"W00", "X1D", "E01", "OK"}
      <3>1. process' = "none"
        BY <1>1, <2>3
      <3> QED BY <1>1, <3>1 DEF ProcessInv
    <2>4. CASE Head(outbox).says \notin {"T05", "W00", "X1D", "E01", "OK"}
      <3>1. process' = process /\ ~Letting
        BY <1>1, <1>4, <2>1, <2>4 DEF GoodReply, Letting
      <3> QED BY <1>1, <1>2, <3>1 DEF ProcessInv
    <2> QED BY <2>2, <2>3, <2>4
  <1> QED BY <1>1, <1>8, <1>9, <1>10, <1>11, <1>12, <1>13, <1>14

---------------------------------------------------------------------------
(* The inductive invariant holds in every reachable state. *)
THEOREM Invariance == Spec => []IInv
  <1>1. Init => IInv
    <2> SUFFICES ASSUME Init PROVE IInv
      OBVIOUS
    <2> USE DEF Init
    <2>1. NoPacket \in Packet /\ NoReply \in Reply
      BY DEF NoPacket, NoReply, Packet, Reply, Commands, Answers
    <2>2. WireTypes
      <3>1. conn \in BOOLEAN
        OBVIOUS
      <3> QED BY <2>1, <3>1, SendAssumption DEF WireTypes
    <2>3. GdbTypes
      BY <2>1 DEF GdbTypes
    <2>4. TargetTypes
      <3>1. failed \in BOOLEAN /\ cur_target \in BOOLEAN /\ last_target \in BOOLEAN
            /\ tc \in BOOLEAN /\ single_step \in BOOLEAN
        OBVIOUS
      <3> QED BY <3>1 DEF TargetTypes
    <2>5. ~Live /\ ~Listening
      BY DEF Live, Listening
    <2> QED BY <2>2, <2>3, <2>4, <2>5, Types
           DEF IInv, Wire, InboxInv, OutboxInv, ReplyInv, PollInv, GoodInv, ProcessInv
  <1>2. IInv /\ [Next]_vars => IInv'
    <2> SUFFICES ASSUME IInv, [Next]_vars PROVE IInv'
      OBVIOUS
    <2>1. CASE Server
      BY <2>1, AcceptKeeps, SkipCharKeeps, PollKeeps, PollCharKeeps, ReadAckKeeps,
         ServeAccessKeeps, ServeRunKeeps, ServeQueryKeeps, ServeDetachKeeps, ServeKillKeeps,
         ServeXferKeeps, ServeRestartKeeps, ServeVRunKeeps, ServeAttachKeeps,
         ServeAttachOtherKeeps
      DEF Server, Serve
    <2>2. CASE DeviceStops \/ HitBreakpoint
      BY <2>2, DeviceKeeps
    <2>3. CASE Gdb
      BY <2>3, ConnectKeeps, LeaveKeeps, SendKeeps, InterruptKeeps, TakeAckKeeps,
         IgnorePacketKeeps, TakeReplyKeeps
      DEF Gdb, Reads
    <2>4. CASE UNCHANGED vars
      BY <2>4
      DEF vars, serverVars, targetVars, wireVars, deviceVars, gdbVars, IInv, TypeOK, Wire,
          Listening, Live, InboxInv, OutboxInv, ReplyInv, PollInv, GoodInv, GoodReply,
          ProcessInv, Letting
    <2> QED BY <2>1, <2>2, <2>3, <2>4 DEF Next
  <1> QED BY <1>1, <1>2, PTL DEF Spec

(* The types of the server's, the connection's, gdb's and the device's     *)
(* state; in it, that a packet is sent MaxSends times at most.             *)
THEOREM TypeCorrect == Spec => []TypeOK
  <1>1. IInv => TypeOK
    BY DEF IInv
  <1> QED BY <1>1, Invariance, PTL

(* A process that gdb shows as stopped is stopped, or was told to, unless  *)
(* a transaction has failed.                                               *)
THEOREM ToldStoppedIsStoppedAlways == Spec => []ToldStoppedIsStopped
  <1>1. IInv => ToldStoppedIsStopped
    BY DEF IInv, ProcessInv, ToldStoppedIsStopped, Letting, Stopping
  <1> QED BY <1>1, Invariance, PTL

(* However often packets are sent again, gdb takes none for the answer to  *)
(* another command.                                                        *)
THEOREM AnswerIsOwnAlways == Spec => []AnswerIsOwn
  <1>1. IInv => AnswerIsOwn
    <2> SUFFICES ASSUME IInv, at = "reply", outbox # <<>>, Head(outbox) # Ack
                 PROVE  Head(outbox).to = cmd
      BY DEF AnswerIsOwn
    <2>1. outbox \in Seq(Message)
      BY Types DEF IInv, WireTypes
    <2>2. 1 \in 1 .. Len(outbox) /\ Head(outbox) = outbox[1]
      BY <2>1, TailElements
    <2> QED BY <2>2 DEF IInv, OutboxInv, Live
  <1> QED BY <1>1, Invariance, PTL

(* An interrupt never stops a later run than the one it was sent to. *)
THEOREM InterruptIsOfThisRunAlways == Spec => []InterruptIsOfThisRun
  <1>1. IInv => InterruptIsOfThisRun
    <2> SUFFICES ASSUME IInv, pc = "char", inbox # <<>>
                 PROVE  Head(inbox).name # "late"
      BY DEF InterruptIsOfThisRun
    <2>1. inbox \in Seq(Item)
      BY Types DEF IInv, WireTypes
    <2>2. 1 \in 1 .. Len(inbox) /\ Head(inbox) = inbox[1]
      BY <2>1, TailElements
    <2> QED BY <2>2 DEF IInv, PollInv
  <1> QED BY <1>1, Invariance, PTL

(* Between commands no step is left over: gdb_main.c 177 resets single_step *)
(* after a step that is carried out, and a gdb that steps only the process  *)
(* it shows never has one refused.                                          *)
THEOREM NoStepLeftOverAlways == Spec => []NoStepLeftOver
  <1>1. IInv => NoStepLeftOver
    BY DEF IInv, NoStepLeftOver
  <1> QED BY <1>1, Invariance, PTL

(* Only an attach to a number that is none loses the target for good: gdb  *)
(* never detaches twice from it.                                           *)
THEOREM ForgottenOnlyByOtherAlways == Spec => ForgottenOnlyByOther
  <1>1. IInv /\ [Next]_vars =>
          [(cur_target \/ last_target) /\ ~(cur_target' \/ last_target') => ServeAttachOther]_vars
    <2> SUFFICES ASSUME IInv, Next, cur_target \/ last_target, ~cur_target', ~last_target'
                 PROVE  ServeAttachOther
      OBVIOUS
    <2>1. CASE ServeDetach
      <3>1. cur_target
        <4>1. Serving({"D"}) /\ {"D"} \in SUBSET Commands
          BY <2>1 DEF ServeDetach, Commands
        <4> QED BY <4>1, ServingMeans
      <3> QED BY <2>1, <3>1 DEF ServeDetach, Detach
    <2>2. CASE ServeKill
      BY <2>2 DEF ServeKill, Detach, targetVars
    <2>3. CASE ServeXfer \/ ServeRestart \/ ServeVRun \/ ServeAttach
      BY <2>3 DEF ServeXfer, ServeRestart, ServeVRun, ServeAttach, Restart, Attach, targetVars
    <2>4. CASE ServeAccess \/ ServeRun \/ ServeQuery
      BY <2>4 DEF ServeAccess, ServeRun, ServeQuery, targetVars
    <2>5. CASE Accept \/ SkipChar \/ Poll \/ PollChar \/ ReadAck \/ AckTimesOut
      BY <2>5 DEF Accept, SkipChar, Poll, PollHalted, PollRunning, PollFails, PollChar,
                  ReadAck, AckTimesOut, targetVars
    <2>6. CASE DeviceStops \/ HitBreakpoint \/ Gdb
      BY <2>6 DEF DeviceStops, HitBreakpoint, Gdb, Connect, Leave, Send, Interrupt, Reads,
                  TakeAck, IgnorePacket, TakeReply, targetVars
    <2> QED BY <2>1, <2>2, <2>3, <2>4, <2>5, <2>6 DEF Next, Server, Serve
  <1> QED BY <1>1, Invariance, PTL DEF Spec, ForgottenOnlyByOther

---------------------------------------------------------------------------
(***************************************************************************)
(* Why nobody waits in vain.  The server reads a character wherever it is  *)
(* handed one, and the command gdb has sent must not be read where an      *)
(* acknowledgement is expected.                                            *)
(***************************************************************************)

(* The command is on its way; if the server expects an acknowledgement,    *)
(* one is in front of it.                                                  *)
Asked == \E i \in 1 .. Len(inbox) :
            /\ inbox[i] = cmd
            /\ pc = "ack" => \E j \in 1 .. i - 1 : inbox[j].name = "+"

(* The command is acknowledged, and its reply is behind that, is still to   *)
(* come when the target halts, or is none.                                 *)
Answered == \E k \in 1 .. Len(outbox) :
               /\ outbox[k] = Ack
               /\ k < Len(outbox) \/ pc \in {"poll", "char"} \/ cmd.name \in Unanswered

ComingInv ==
    /\ pc # "packet" => reply.to.name \notin Unanswered
    /\ at = "ready" /\ pc = "ack" => \E i \in 1 .. Len(inbox) : inbox[i].name = "+"
    /\ at = "ack" => Asked \/ Answered
    /\ at = "reply" => outbox # <<>> \/ pc \in {"poll", "char"}

(* The server reads the first of what is on its way, or nothing. *)
ReadsOne ==
    \/ inbox' = inbox
    \/ /\ inbox # <<>> /\ inbox' = Tail(inbox)
       /\ pc = "packet" => Head(inbox).name \notin Commands
       /\ pc = "ack" /\ Head(inbox).name = "+" => pc' = "packet"

LEMMA Behind ==
    ASSUME IInv, inbox # <<>>, inbox' = Tail(inbox), NEW i \in 1 .. Len(inbox), i # 1
    PROVE  /\ Head(inbox) = inbox[1] /\ Len(inbox) \in Nat /\ Len(inbox') \in Nat
           /\ i - 1 \in 1 .. Len(inbox') /\ inbox'[i - 1] = inbox[i]
  <1>1. inbox \in Seq(Item)
    BY Types DEF IInv, WireTypes
  <1>2. /\ Head(inbox) = inbox[1] /\ Len(inbox) \in Nat \ {0} /\ Len(inbox') = Len(inbox) - 1
        /\ \A k \in 1 .. Len(inbox') : inbox'[k] = inbox[k + 1]
    BY <1>1, TailElements
  <1>3. i - 1 \in 1 .. Len(inbox') /\ (i - 1) + 1 = i
    BY <1>2
  <1> QED BY <1>2, <1>3

LEMMA CommandType ==
    ASSUME IInv
    PROVE  cmd \in Packet /\ cmd \in Item /\ cmd.name \in Commands /\ inbox \in Seq(Item)
           /\ outbox \in Seq(Message)
  BY Types DEF IInv, GdbTypes, WireTypes, Packet, Item

LEMMA AskedKept ==
    ASSUME IInv, Asked, ReadsOne, cmd' = cmd, pc' \in {pc, "packet"} \/ pc \in {"poll", "char"}
    PROVE  Asked'
  <1>1. PICK i \in 1 .. Len(inbox) :
          inbox[i] = cmd /\ (pc = "ack" => \E j \in 1 .. i - 1 : inbox[j].name = "+")
    BY DEF Asked
  <1>2. pc \in {"packet", "ack"} /\ pc' \in {pc, "packet"}
    BY <1>1, CommandType DEF IInv, InboxInv
  <1>3. CASE inbox' = inbox
    BY <1>1, <1>2, <1>3 DEF Asked
  <1>4. CASE inbox # <<>> /\ inbox' = Tail(inbox) /\ inbox' # inbox
    <2>1. /\ pc = "packet" => Head(inbox).name \notin Commands
          /\ pc = "ack" /\ Head(inbox).name = "+" => pc' = "packet"
      BY <1>4 DEF ReadsOne
    <2>2. Head(inbox) = inbox[1] /\ Len(inbox) \in Nat
      BY <1>4, CommandType, TailElements
    <2>3. i # 1
      BY <1>1, <1>2, <2>1, <2>2, CommandType
    <2>4. i - 1 \in 1 .. Len(inbox') /\ inbox'[i - 1] = cmd
      BY <1>1, <1>4, <2>3, Behind
    <2>5. ASSUME pc' = "ack"
          PROVE  \E j \in 1 .. (i - 1) - 1 : inbox'[j].name = "+"
      <3>1. pc = "ack"
        BY <1>2, <2>5
      <3>2. PICK j \in 1 .. i - 1 : inbox[j].name = "+"
        BY <1>1, <3>1
      <3>3. j # 1 /\ j \in 1 .. Len(inbox)
        BY <2>1, <2>2, <2>5, <3>1, <3>2
      <3>4. inbox'[j - 1] = inbox[j]
        BY <1>4, <3>3, Behind
      <3>5. j - 1 \in 1 .. (i - 1) - 1
        BY <2>2, <3>2, <3>3
      <3> QED BY <3>2, <3>4, <3>5
    <2> QED BY <2>4, <2>5 DEF Asked
  <1> QED BY <1>3, <1>4 DEF ReadsOne

LEMMA PlusKept ==
    ASSUME IInv, ReadsOne, pc = "ack", pc' = "ack",
           \E i \in 1 .. Len(inbox) : inbox[i].name = "+"
    PROVE  \E i \in 1 .. Len(inbox') : inbox'[i].name = "+"
  <1>1. PICK i \in 1 .. Len(inbox) : inbox[i].name = "+"
    OBVIOUS
  <1>2. CASE inbox' = inbox
    BY <1>1, <1>2
  <1>3. CASE inbox # <<>> /\ inbox' = Tail(inbox) /\ Head(inbox).name # "+"
    <2>1. Head(inbox) = inbox[1]
      BY <1>3, CommandType, TailElements
    <2>2. i # 1
      BY <1>1, <1>3, <2>1
    <2> QED BY <1>1, <1>3, <2>2, Behind
  <1> QED BY <1>2, <1>3 DEF ReadsOne

LEMMA AnsweredKept ==
    ASSUME IInv, Answered, cmd' = cmd,
           \/ outbox' = outbox /\ (pc \in {"poll", "char"} => pc' \in {"poll", "char"})
           \/ outbox' = Append(outbox, reply)
    PROVE  Answered'
  <1>1. PICK k \in 1 .. Len(outbox) :
          /\ outbox[k] = Ack
          /\ k < Len(outbox) \/ pc \in {"poll", "char"} \/ cmd.name \in Unanswered
    BY DEF Answered
  <1>2. CASE outbox' = outbox /\ (pc \in {"poll", "char"} => pc' \in {"poll", "char"})
    BY <1>1, <1>2 DEF Answered
  <1>3. CASE outbox' = Append(outbox, reply)
    <2>1. reply \in Message
      BY Types, Kinds DEF IInv, WireTypes
    <2>2. /\ Len(outbox) \in Nat /\ Len(outbox') = Len(outbox) + 1
          /\ outbox'[k] = outbox[k]
      BY <1>3, <2>1, CommandType, OutboxAppended
    <2>3. k \in 1 .. Len(outbox') /\ k < Len(outbox')
      BY <2>2
    <2> QED BY <1>1, <2>2, <2>3 DEF Answered
  <1> QED BY <1>2, <1>3

(* The server reads what it may where it waits, and sends its packet or    *)
(* nothing.                                                                *)
LEMMA WaitingKeeps ==
    ASSUME IInv, ComingInv, ReadsOne, UNCHANGED <<at, cmd, reply>>,
           \/ outbox' = outbox /\ pc' \in {pc, "packet"} /\ pc \notin {"poll", "char"}
           \/ outbox' = outbox /\ pc \in {"poll", "char"} /\ pc' \in {"poll", "char"}
           \/ outbox' = Out(<<reply>>) /\ pc # "packet" /\ pc' = "ack"
    PROVE  ComingInv'
  <1>1. /\ at' = at /\ cmd' = cmd /\ reply' = reply
        /\ pc \in {"packet", "poll", "char", "ack"} /\ reply \in Message
    BY Types, Kinds DEF IInv, WireTypes
  <1>2. /\ pc' \in {pc, "packet"} \/ pc \in {"poll", "char"}
        /\ pc' # "packet" => pc # "packet"
        /\ Live => \/ outbox' = outbox /\ (pc \in {"poll", "char"} => pc' \in {"poll", "char"})
                   \/ outbox' = Append(outbox, reply)
    BY <1>1, CommandType, SingleElement DEF Out, IInv, Wire
  <1>3. at = "ready" /\ pc' = "ack" => \E i \in 1 .. Len(inbox') : inbox'[i].name = "+"
    <2> SUFFICES ASSUME at = "ready", pc' = "ack"
                 PROVE  \E i \in 1 .. Len(inbox') : inbox'[i].name = "+"
      OBVIOUS
    <2>1. pc = "ack"
      BY <1>1, <1>2 DEF IInv, PollInv, Live
    <2> QED BY <2>1, PlusKept DEF ComingInv
  <1>4. at = "ack" => Asked' \/ Answered'
    <2> SUFFICES ASSUME at = "ack" PROVE Asked' \/ Answered'
      OBVIOUS
    <2>1. CASE Asked
      BY <1>1, <1>2, <2>1, AskedKept
    <2>2. CASE Answered
      BY <1>1, <1>2, <2>2, AnsweredKept DEF Live
    <2> QED BY <2>1, <2>2 DEF ComingInv
  <1>5. at = "reply" => outbox' # <<>> \/ pc' \in {"poll", "char"}
    <2> SUFFICES ASSUME at = "reply" PROVE outbox' # <<>> \/ pc' \in {"poll", "char"}
      OBVIOUS
    <2>1. CASE outbox' = outbox /\ (pc \in {"poll", "char"} => pc' \in {"poll", "char"})
      BY <2>1 DEF ComingInv
    <2>2. CASE outbox' = Append(outbox, reply)
      <3>1. Len(outbox') = Len(outbox) + 1 /\ Len(outbox) \in Nat
        BY <1>1, <2>2, CommandType, OutboxAppended
      <3>2. Len(outbox') # 0
        BY <3>1
      <3> QED BY <3>2
    <2> QED BY <1>2, <2>1, <2>2 DEF Live
  <1>6. pc' # "packet" => reply'.to.name \notin Unanswered
    BY <1>1, <1>2 DEF ComingInv
  <1> QED BY <1>1, <1>3, <1>4, <1>5, <1>6 DEF ComingInv

LEMMA ServeComing == ASSUME IInv, Serve PROVE ComingInv'
  <1> USE DEF IInv
  <1>1. PICK names \in SUBSET Commands :
          /\ Serving(names)
          /\ \/ /\ \E says \in Answers : Respond(says)
                /\ names \cap Unanswered = {}
             \/ outbox' = Out(<<Ack>>) /\ pc' = "packet" /\ names \subseteq Unanswered
             \/ /\ outbox' = Out(<<Ack>>) /\ pc' = "poll" /\ reply'.to = Head(inbox)
                /\ names \cap Unanswered = {}
    <2> DEFINE Does(names) ==
          /\ Serving(names)
          /\ \/ /\ \E says \in Answers : Respond(says)
                /\ names \cap Unanswered = {}
             \/ outbox' = Out(<<Ack>>) /\ pc' = "packet" /\ names \subseteq Unanswered
             \/ /\ outbox' = Out(<<Ack>>) /\ pc' = "poll" /\ reply'.to = Head(inbox)
                /\ names \cap Unanswered = {}
    <2> USE DEF Unanswered, Commands, Answers
    <2>1. CASE ServeAccess
      <3>1. Does({"access"})
        BY <2>1 DEF ServeAccess
      <3> QED BY <3>1
    <2>2. CASE ServeRun
      <3>1. Does(Runs)
        BY <2>2 DEF ServeRun, WaitForHalt, Runs
      <3> QED BY <3>1 DEF Runs
    <2>3. CASE ServeQuery
      <3>1. Does({"?"})
        BY <2>3 DEF ServeQuery, WaitForHalt
      <3> QED BY <3>1
    <2>4. CASE ServeDetach
      <3>1. Does({"D"})
        BY <2>4 DEF ServeDetach
      <3> QED BY <3>1
    <2>5. CASE ServeKill
      <3>1. Does({"k"})
        BY <2>5 DEF ServeKill, NoResponse, Serving
      <3> QED BY <3>1
    <2>6. CASE ServeXfer
      <3>1. Does({"xfer"})
        BY <2>6 DEF ServeXfer
      <3> QED BY <3>1
    <2>7. CASE ServeRestart
      <3>1. Does({"R"})
        BY <2>7 DEF ServeRestart, NoResponse, Serving
      <3> QED BY <3>1
    <2>8. CASE ServeVRun
      <3>1. Does({"vRun"})
        BY <2>8 DEF ServeVRun
      <3> QED BY <3>1
    <2>9. CASE ServeAttach
      <3>1. Does({"attach"})
        BY <2>9 DEF ServeAttach
      <3> QED BY <3>1
    <2>10. CASE ServeAttachOther
      <3>1. Does({"attachOther"})
        BY <2>10 DEF ServeAttachOther
      <3> QED BY <3>1
    <2> QED BY <2>1, <2>2, <2>3, <2>4, <2>5, <2>6, <2>7, <2>8, <2>9, <2>10 DEF Serve
  <1>2. /\ Head(inbox) \in Packet /\ Head(inbox).name \in names
        /\ at' = at /\ cmd' = cmd
        /\ Live => at = "ack" /\ Head(inbox) = cmd
    BY <1>1, ServingMeans, Served DEF Serving, gdbVars
  <1>3. pc' # "packet" => reply'.to.name \notin Unanswered
    <2>1. pc' # "packet" => reply'.to = Head(inbox) /\ names \cap Unanswered = {}
      <3>1. ASSUME NEW says \in Answers, Respond(says)
            PROVE  reply'.to = Head(inbox)
        BY <3>1 DEF Respond, PutFirst
      <3> QED BY <1>1, <3>1
    <2> QED BY <1>2, <2>1
  <1>4. ASSUME at = "ack" PROVE Answered'
    <2>1. Live /\ Listening /\ outbox \in Seq(Message) /\ Ack \in Message
      BY <1>4, CommandType, Kinds DEF Live, Wire
    <2>2. CASE \E says \in Answers : Respond(says)
      <3>1. PICK says \in Answers : Respond(says)
        BY <2>2
      <3>2. [to |-> Head(inbox), says |-> says] \in Message
        BY <1>2, Kinds DEF Reply
      <3>3. outbox' = outbox \o <<Ack, [to |-> Head(inbox), says |-> says]>>
        BY <2>1, <3>1, <3>2, AppendSecond DEF Respond, PutFirst, Out
      <3>4. /\ Len(outbox) \in Nat /\ Len(outbox') = Len(outbox) + 2
            /\ outbox'[Len(outbox) + 1] = Ack
        BY <2>1, <3>2, <3>3, PairElements
      <3>5. Len(outbox) + 1 \in 1 .. Len(outbox') /\ Len(outbox) + 1 < Len(outbox')
        BY <3>4
      <3> QED BY <3>4, <3>5 DEF Answered
    <2>3. CASE outbox' = Out(<<Ack>>) /\ (pc' = "poll" \/ cmd.name \in Unanswered)
      <3>1. outbox' = Append(outbox, Ack)
        BY <2>1, <2>3, SingleElement DEF Out
      <3>2. /\ Len(outbox) \in Nat /\ Len(outbox') = Len(outbox) + 1
            /\ outbox'[Len(outbox) + 1] = Ack
        BY <2>1, <3>1, OutboxAppended
      <3>3. Len(outbox) + 1 \in 1 .. Len(outbox')
        BY <3>2
      <3> QED BY <1>2, <2>3, <3>2, <3>3 DEF Answered
    <2> QED BY <1>1, <1>2, <2>1, <2>2, <2>3
  <1> QED BY <1>2, <1>3, <1>4 DEF ComingInv, Live

LEMMA ServerComing == ASSUME IInv, ComingInv, Server PROVE ComingInv'
  <1> USE DEF IInv
  <1>1. CASE Serve
    BY <1>1, ServeComing
  <1>2. CASE Accept
    <2>1. /\ pc' = "packet" /\ at' = "ack" /\ inbox' = <<cmd'>>
      BY <1>2 DEF Accept, serverVars
    <2>2. 1 \in 1 .. Len(inbox') /\ inbox'[1] = cmd'
      BY <2>1
    <2>3. Asked'
      BY <2>1, <2>2 DEF Asked
    <2> QED BY <2>1, <2>3 DEF ComingInv
  <1>3. ASSUME Drop, inbox # <<>>, Head(inbox).name = "eof", UNCHANGED <<at, reply>>,
               pc' \in {pc, "packet"} \/ (pc = "char" /\ pc' = "poll")
        PROVE  ComingInv'
    <2>1. inbox[1] = Char("eof") /\ 1 \in 1 .. Len(inbox)
      BY <1>3, CommandType, TailElements, Kinds
    <2>2. ~Live
      BY <2>1, ListeningMeans DEF Wire
    <2> QED BY <1>3, <2>2 DEF ComingInv, Live
  <1>4. CASE SkipChar
    <2>1. pc = "packet" /\ inbox # <<>> /\ Head(inbox).name \notin Commands
          /\ UNCHANGED <<pc, reply, at, cmd>>
      BY <1>4 DEF SkipChar, serverVars, gdbVars
    <2>2. CASE Head(inbox).name = "eof"
      BY <1>3, <1>4, <2>1, <2>2 DEF SkipChar
    <2>3. CASE Head(inbox).name # "eof"
      <3>1. inbox' = Tail(inbox) /\ outbox' = outbox /\ ReadsOne
        BY <1>4, <2>1, <2>3 DEF SkipChar, ReadsOne
      <3> QED BY <2>1, <3>1, WaitingKeeps
    <2> QED BY <2>2, <2>3
  <1>5. CASE PollHalted \/ PollRunning \/ PollFails
    <2>1. pc = "poll" /\ UNCHANGED <<inbox, at, cmd, reply>> /\ ReadsOne
          /\ \/ outbox' = outbox /\ pc' = "char"
             \/ outbox' = Out(Append(<<>>, reply)) /\ pc' = "ack"
      BY <1>5 DEF PollHalted, PollRunning, PollFails, Stop, PutFirst, gdbVars, wireVars, ReadsOne
    <2>2. Append(<<>>, reply) = <<reply>>
      OBVIOUS
    <2> QED BY <2>1, <2>2, WaitingKeeps
  <1>6. CASE PollChar
    <2>1. pc = "char" /\ pc' = "poll" /\ UNCHANGED <<at, cmd, reply>>
      BY <1>6 DEF PollChar, gdbVars
    <2>2. CASE inbox # <<>> /\ Head(inbox).name = "eof"
      BY <1>3, <1>6, <2>1, <2>2 DEF PollChar
    <2>3. CASE inbox = <<>> \/ Head(inbox).name # "eof"
      <3>1. outbox' = outbox /\ ReadsOne
        BY <1>6, <2>1, <2>3 DEF PollChar, ReadsOne, wireVars
      <3> QED BY <2>1, <3>1, WaitingKeeps
    <2> QED BY <2>2, <2>3
  <1>7. CASE AckTimesOut
    <2>1. pc = "ack" /\ UNCHANGED <<inbox, at, cmd, reply>> /\ ReadsOne
          /\ \/ outbox' = outbox /\ pc' = "packet"
             \/ outbox' = Out(<<reply>>) /\ pc' = "ack"
      BY <1>7 DEF AckTimesOut, PutAgain, gdbVars, ReadsOne
    <2> QED BY <2>1, WaitingKeeps
  <1>8. CASE ReadAck
    <2>1. pc = "ack" /\ inbox # <<>> /\ UNCHANGED <<at, cmd, reply>>
      BY <1>8 DEF ReadAck, gdbVars
    <2>2. CASE Head(inbox).name = "eof"
      BY <1>3, <1>8, <2>1, <2>2 DEF ReadAck
    <2>3. CASE Head(inbox).name = "+"
      <3>1. inbox' = Tail(inbox) /\ outbox' = outbox /\ pc' = "packet" /\ ReadsOne
        BY <1>8, <2>1, <2>3 DEF ReadAck, ReadsOne
      <3> QED BY <2>1, <3>1, WaitingKeeps
    <2>4. CASE Head(inbox).name \notin {"+", "eof"}
      <3>1. inbox' = Tail(inbox) /\ ReadsOne
            /\ \/ outbox' = outbox /\ pc' = "packet"
               \/ outbox' = Out(<<reply>>) /\ pc' = "ack"
        BY <1>8, <2>1, <2>4 DEF ReadAck, PutAgain, ReadsOne
      <3> QED BY <2>1, <3>1, WaitingKeeps
    <2> QED BY <2>2, <2>3, <2>4
  <1> QED BY <1>1, <1>2, <1>4, <1>5, <1>6, <1>7, <1>8 DEF Server, Poll

(* What gdb adds is behind its command. *)
LEMMA AddedBehind ==
    ASSUME IInv, Asked, NEW c \in Interrupts \cup {"+", "eof"},
           inbox' = Append(inbox, Char(c)), cmd' = cmd, pc' = pc
    PROVE  Asked'
  <1>1. PICK i \in 1 .. Len(inbox) :
          inbox[i] = cmd /\ (pc = "ack" => \E j \in 1 .. i - 1 : inbox[j].name = "+")
    BY DEF Asked
  <1>2. \A k \in 1 .. Len(inbox) : k \in 1 .. Len(inbox') /\ inbox'[k] = inbox[k]
    BY CommandType, CharacterAdded
  <1>3. \A j \in 1 .. i - 1 : j \in 1 .. Len(inbox)
    BY CommandType
  <1> QED BY <1>1, <1>2, <1>3 DEF Asked

LEMMA GdbComing == ASSUME IInv, ComingInv, Gdb PROVE ComingInv'
  <1> USE DEF IInv
  <1>1. CASE Connect \/ Leave \/ Interrupt
    <2>1. /\ pc' = pc /\ reply' = reply
          /\ \/ at' \in {"queued", "absent"}
             \/ at' = "reply" /\ at = "reply" /\ outbox' = outbox
      BY <1>1 DEF Connect, Leave, Interrupt, serverVars, gdbVars
    <2> QED BY <2>1 DEF ComingInv
  <1>2. ASSUME NEW name \in Commands, Send(name) PROVE ComingInv'
    <2>1. /\ pc' = pc /\ reply' = reply /\ at = "ready" /\ at' = "ack"
          /\ cmd' = [name |-> name, bit |-> ~cmd.bit] /\ inbox' = Append(inbox, cmd')
      BY <1>2 DEF Send, serverVars
    <2>2. cmd' \in Item
      BY <2>1, CommandType DEF Packet, Item
    <2>3. /\ Len(inbox) \in Nat /\ Len(inbox') = Len(inbox) + 1
          /\ inbox'[Len(inbox) + 1] = cmd'
          /\ \A i \in 1 .. Len(inbox) : inbox'[i] = inbox[i]
      BY <2>1, <2>2, CommandType, AppendElements
    <2>4. pc = "ack" => \E j \in 1 .. Len(inbox) : inbox'[j].name = "+"
      BY <2>1, <2>3 DEF ComingInv
    <2>5. Len(inbox) + 1 \in 1 .. Len(inbox') /\ (Len(inbox) + 1) - 1 = Len(inbox)
      BY <2>3
    <2>6. Asked'
      BY <2>1, <2>3, <2>4, <2>5 DEF Asked
    <2> QED BY <2>1, <2>6 DEF ComingInv
  <1>3. CASE TakeAck
    <2>1. /\ pc' = pc /\ reply' = reply /\ inbox' = inbox /\ cmd' = cmd
          /\ at = "ack" /\ outbox # <<>> /\ Head(outbox) = Ack /\ outbox' = Tail(outbox)
          /\ at' = IF cmd.name \in Unanswered THEN "ready" ELSE "reply"
      BY <1>3 DEF TakeAck, serverVars
    <2>2. /\ 1 \in 1 .. Len(outbox) /\ outbox[1] = Ack /\ Len(outbox) \in Nat
          /\ Len(outbox') = Len(outbox) - 1
      BY <2>1, Taken
    <2>3. pc # "packet" => reply.to = cmd
      BY <2>1, <2>2 DEF ReplyInv, Live
    <2>4. CASE cmd.name \in Unanswered
      BY <2>1, <2>3, <2>4 DEF ComingInv
    <2>5. CASE cmd.name \notin Unanswered
      <3>1. ~Asked
        BY <2>1, <2>2, CommandType DEF Asked, InboxInv, Live
      <3>2. Answered
        BY <2>1, <3>1 DEF ComingInv
      <3>3. Len(outbox) > 1 \/ pc \in {"poll", "char"}
        BY <2>2, <2>5, <3>2 DEF Answered
      <3>4. Len(outbox) > 1 => Len(outbox') # 0
        BY <2>2
      <3> QED BY <2>1, <2>5, <3>3, <3>4 DEF ComingInv
    <2> QED BY <2>4, <2>5
  <1>4. CASE IgnorePacket
    <2>1. /\ pc' = pc /\ reply' = reply /\ cmd' = cmd /\ at = "ack" /\ at' = "ack"
          /\ outbox # <<>> /\ Head(outbox) # Ack /\ outbox' = Tail(outbox)
          /\ inbox' = Append(inbox, Char("+"))
      BY <1>4 DEF IgnorePacket, serverVars, gdbVars
    <2>2. CASE Asked
      <3>1. Asked'
        BY <2>1, <2>2, AddedBehind
      <3> QED BY <2>1, <3>1 DEF ComingInv
    <2>3. CASE Answered
      <3>1. PICK k \in 1 .. Len(outbox) :
              /\ outbox[k] = Ack
              /\ k < Len(outbox) \/ pc \in {"poll", "char"} \/ cmd.name \in Unanswered
        BY <2>3 DEF Answered
      <3>2. /\ outbox[1] # Ack /\ Len(outbox) \in Nat /\ Len(outbox') = Len(outbox) - 1
            /\ \A i \in 1 .. Len(outbox') : outbox'[i] = outbox[i + 1]
        BY <2>1, Taken
      <3>3. k - 1 \in 1 .. Len(outbox') /\ (k - 1) + 1 = k
            /\ (k < Len(outbox) => k - 1 < Len(outbox'))
        BY <3>1, <3>2
      <3>4. Answered'
        BY <2>1, <3>1, <3>2, <3>3 DEF Answered
      <3> QED BY <2>1, <3>4 DEF ComingInv
    <2> QED BY <2>1, <2>2, <2>3 DEF ComingInv
  <1>5. CASE TakeReply
    <2>1. /\ pc' = pc /\ reply' = reply /\ at' = "ready"
          /\ inbox' = Append(Late(inbox), Char("+"))
      BY <1>5 DEF TakeReply, serverVars
    <2>2. Late(inbox) \in Seq(Item)
      BY CommandType, LateElements
    <2>3. \E i \in 1 .. Len(inbox') : inbox'[i] = Char("+")
      BY <2>1, <2>2, CharacterAdded
    <2>4. Char("+").name = "+"
      BY DEF Char
    <2> QED BY <2>1, <2>3, <2>4 DEF ComingInv
  <1> QED BY <1>1, <1>2, <1>3, <1>4, <1>5 DEF Gdb, Reads

(* A gdb that waits has what it waits for under way: gdb_putpacket, which   *)
(* takes whatever character comes for an answer to its packet              *)
(* (gdb_packet.c 176), never swallows a command, and a reply that is sent  *)
(* is not sent into nothing.                                               *)
THEOREM AnswerIsComingAlways == Spec => []AnswerIsComing
  <1>1. Init => ComingInv
    BY DEF Init, ComingInv
  <1>2. IInv /\ ComingInv /\ [Next]_vars => ComingInv'
    <2> SUFFICES ASSUME IInv, ComingInv, [Next]_vars PROVE ComingInv'
      OBVIOUS
    <2>1. CASE Server
      BY <2>1, ServerComing
    <2>2. CASE Gdb
      BY <2>2, GdbComing
    <2>3. CASE DeviceStops \/ HitBreakpoint \/ UNCHANGED vars
      BY <2>3 DEF DeviceStops, HitBreakpoint, vars, serverVars, wireVars, gdbVars,
                  ComingInv, Asked, Answered
    <2> QED BY <2>1, <2>2, <2>3 DEF Next
  <1>3. IInv /\ ComingInv => AnswerIsComing
    BY DEF ComingInv, Asked, Answered, AnswerIsComing, Contains
  <1> QED BY <1>1, <1>2, <1>3, Invariance, PTL DEF Spec
=============================================================================

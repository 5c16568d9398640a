------------------------- MODULE HostTransferProofs -------------------------
(***************************************************************************)
(* What holds of every transfer, for memories, packets and registers of    *)
(* every size.                                                             *)
(***************************************************************************)
EXTENDS HostTransfer, TLAPS

USE DEF Addresses, Registers, Kinds

---------------------------------------------------------------------------
(* The inductive invariant: what is stored or under way for an address is  *)
(* of that address.                                                        *)

Contents == Byte \cup {Hole} \cup {Register(r) : r \in Nat}

OfAddress(x, a) == x \in {Hole, Junk} \/ (x \in Byte /\ x.place = a)

(* The answers the bootloader gives. *)
GoodAnswers ==
    {a \in [cmd : Kinds \cup {"halt"}, addr : Nat, count : Nat,
            data : UNION {[0 .. n - 1 -> Contents] : n \in Nat}] :
        /\ a.cmd \in {"read", "write"} => a.count \in 1 .. Payload
        /\ a.cmd = "regs" => a.count \in 1 .. RegPayload
        /\ a.cmd = "read" => \A i \in 0 .. a.count - 1 : OfAddress(a.data[i], a.addr + i)}

Operations == [kind : Kinds \cup {"none"}, addr : Nat, len : Nat,
               value : Values \cup {"before"}]

Typed ==
    /\ TypeOK
    /\ pipe \in Seq(GoodAnswers)
    /\ in \in [cmd : Kinds \cup {"halt", "none"}, addr : Nat, count : Nat]
    /\ op \in Operations
    /\ op.kind \in {"read", "write"} /\ op.len > 0 => op.addr + op.len <= LastAddress + 1
    /\ doing => op.kind # "none" /\ offset < op.len

MemoryInPlace == \A a \in Addresses : mem[a].place = a

(* A round that memWrite counts without having received anything is its    *)
(* first.                                                                  *)
AnswerIsPast == doing /\ offset > 0 => in.addr < op.addr + offset

InStep == synced /\ doing => pipe = <<>>

(* Flash that was erased when a write began is so still or has been        *)
(* written by it.                                                          *)
FreshKept ==
    op.kind = "write" =>
        \A a \in fresh : \/ mem[a].from = "erased"
                         \/ mem[a] = [from |-> op.value, place |-> a]

IInv == /\ Typed
        /\ MemoryInPlace
        /\ ReadIsOfItsAddress
        /\ AnswerIsPast
        /\ FreshKept
        /\ CountedIsWritten
        /\ InStep
        /\ CutShortByFailure

---------------------------------------------------------------------------
(* A packet lies within its operation. *)
LEMMA CommandType ==
    ASSUME Typed, doing
    PROVE  /\ Command.cmd \in Kinds /\ Command.cmd = op.kind
           /\ Command.addr \in Nat /\ Command.addr = op.addr + offset
           /\ Command.count \in Nat \ {0} /\ offset + Command.count <= op.len
           /\ op.kind = "regs" => Command.count <= RegPayload
           /\ op.kind # "regs" => Command.count <= Payload
           /\ offset \in Nat
  <1>1. /\ op.kind \in Kinds /\ op.addr \in Nat /\ op.len \in Nat
        /\ offset \in Nat /\ offset < op.len
    BY SizeAssumption DEF Typed, TypeOK, Operations
  <1>2. PacketSize \in Nat \ {0}
    BY SizeAssumption DEF PacketSize
  <1>3. /\ op.len - offset \in Nat \ {0}
        /\ Command.count \in {PacketSize, op.len - offset}
        /\ Command.count <= PacketSize /\ Command.count <= op.len - offset
    BY <1>1, <1>2 DEF Command, Lesser
  <1>4. Command.count \in Nat \ {0} /\ offset + Command.count <= op.len
    BY <1>1, <1>2, <1>3
  <1>5. /\ op.kind = "regs" => Command.count <= RegPayload
        /\ op.kind # "regs" => Command.count <= Payload
    BY <1>3 DEF PacketSize
  <1>6. /\ Command.cmd = op.kind
        /\ Command.addr \in Nat /\ Command.addr = op.addr + offset
    BY <1>1 DEF Command
  <1> QED BY <1>1, <1>4, <1>5, <1>6

LEMMA GoodAnswer ==
    ASSUME NEW a \in [cmd : Kinds \cup {"halt"}, addr : Nat, count : Nat,
                      data : UNION {[0 .. n - 1 -> Contents] : n \in Nat}],
           a.cmd \in {"read", "write"} => a.count \in 1 .. Payload,
           a.cmd = "regs" => a.count \in 1 .. RegPayload,
           a.cmd = "read" => \A i \in 0 .. a.count - 1 : OfAddress(a.data[i], a.addr + i)
    PROVE  a \in GoodAnswers
  BY DEF GoodAnswers

(* The bootloader's answer is a good one. *)
LEMMA AnswerGood ==
    ASSUME Typed, MemoryInPlace, doing
    PROVE  Answer(Command) \in GoodAnswers
  <1> DEFINE c == Command
  <1>1. /\ c.cmd \in Kinds /\ c.cmd = op.kind /\ c.addr = op.addr + offset
        /\ c.addr \in Nat /\ c.count \in Nat \ {0} /\ offset + c.count <= op.len
        /\ op.kind = "regs" => c.count <= RegPayload
        /\ op.kind # "regs" => c.count <= Payload
        /\ offset \in Nat
    BY CommandType
  <1> SUFFICES Answer(c) \in GoodAnswers
    OBVIOUS
  <1> HIDE DEF c
  <1>2. CASE c.cmd = "read"
    <2>1. ReadAnswer(c) \in [0 .. c.count - 1 -> Byte \cup {Hole}]
          /\ \A i \in 0 .. c.count - 1 : OfAddress(ReadAnswer(c)[i], c.addr + i)
      <3>1. \A i \in 0 .. c.count - 1 : c.addr + i \in Addresses
        <4>1. /\ op.addr \in Nat /\ op.len \in Nat
              /\ op.len > 0 => op.addr + op.len <= LastAddress + 1
          BY <1>1, <1>2 DEF Typed, Operations
        <4> QED BY <4>1, <1>1, SizeAssumption
      <3>2. \A i \in 0 .. c.count - 1 :
              /\ mem[c.addr + i] \in Byte
              /\ mem[c.addr + i].place = c.addr + i
        BY <3>1 DEF Typed, TypeOK, MemoryInPlace
      <3> QED BY <3>2 DEF ReadAnswer, OfAddress
    <2>2. Answer(c) = [cmd |-> c.cmd, addr |-> c.addr, count |-> c.count,
                       data |-> ReadAnswer(c)]
      BY <1>2 DEF Answer
    <2>3. ReadAnswer(c) \in UNION {[0 .. n - 1 -> Contents] : n \in Nat}
      BY <2>1, <1>1 DEF Contents
    <2> QED BY <1>1, <1>2, <2>1, <2>2, <2>3, GoodAnswer
  <1>3. CASE c.cmd = "regs"
    <2>1. RegsAnswer(c) \in [0 .. c.count - 1 -> Contents]
      BY <1>1 DEF RegsAnswer, Contents
    <2>2. Answer(c) = [cmd |-> c.cmd, addr |-> c.addr, count |-> c.count,
                       data |-> RegsAnswer(c)]
      BY <1>3 DEF Answer
    <2>3. RegsAnswer(c) \in UNION {[0 .. n - 1 -> Contents] : n \in Nat}
      BY <2>1, <1>1
    <2> QED BY <1>1, <1>3, <2>2, <2>3, GoodAnswer
  <1>4. CASE c.cmd = "write"
    <2>1. Answer(c) = [cmd |-> c.cmd, addr |-> c.addr, count |-> c.count, data |-> <<>>]
      BY <1>4 DEF Answer
    <2>2. <<>> \in [0 .. 0 - 1 -> Contents]
      OBVIOUS
    <2>3. <<>> \in UNION {[0 .. n - 1 -> Contents] : n \in Nat}
      BY <2>2
    <2> DEFINE S == UNION {[0 .. n - 1 -> Contents] : n \in Nat}
               d == <<>>
    <2>4. d \in S
      BY <2>3
    <2>5. Answer(c) = [cmd |-> c.cmd, addr |-> c.addr, count |-> c.count, data |-> d]
      BY <2>1
    <2>6. \A a \in [cmd : Kinds \cup {"halt"}, addr : Nat, count : Nat, data : S] :
             a.cmd = "write" /\ a.count \in 1 .. Payload => a \in GoodAnswers
      BY GoodAnswer
    <2> HIDE DEF S, d
    <2> QED BY <1>1, <1>4, <2>4, <2>5, <2>6
  <1> QED BY <1>1, <1>2, <1>3, <1>4

---------------------------------------------------------------------------
(* Preservation.  What a transaction does is, for the invariant, what      *)
(* executing the command and handling some answer do.                      *)

USE DEF OfAddress

(* The writes of an operation go to their addresses, and only to those. *)
LEMMA ExecuteKeeps ==
    ASSUME Typed, MemoryInPlace, doing, Execute(Command) \/ UNCHANGED mem
    PROVE  /\ mem' \in [Addresses -> Byte]
           /\ \A a \in Addresses : mem'[a].place = a
           /\ \A a \in Addresses :
                \/ mem'[a] = mem[a]
                \/ op.kind = "write" /\ mem'[a] = [from |-> op.value, place |-> a]
  <1>1. mem \in [Addresses -> Byte] /\ op.value \in Values \cup {"before"}
    BY DEF Typed, TypeOK, Operations
  <1>2. Command.cmd = op.kind
    BY CommandType
  <1>3. \A a \in Addresses : [from |-> op.value, place |-> a] \in Byte
    BY <1>1 DEF Byte
  <1>4. CASE UNCHANGED mem
    BY <1>1, <1>4 DEF MemoryInPlace
  <1>5. CASE Execute(Command)
    <2> DEFINE c == Command
    <2> HIDE DEF c
    <2>1. mem' = IF c.cmd # "write" THEN mem
                 ELSE [a \in Addresses |->
                   IF a \in c.addr .. c.addr + c.count - 1 /\ Takes(c.addr, a)
                   THEN [from |-> op.value, place |-> a] ELSE mem[a]]
      BY <1>5 DEF Execute, c
    <2>2. c.cmd = op.kind
      BY <1>2 DEF c
    <2> QED BY <2>1, <2>2, <1>1, <1>3 DEF MemoryInPlace
  <1> QED BY <1>4, <1>5

LEMMA FreshStays ==
    ASSUME Typed, MemoryInPlace, FreshKept, doing, UNCHANGED <<op, fresh>>,
           Execute(Command) \/ UNCHANGED mem
    PROVE  FreshKept'
  <1>1. \A a \in Addresses :
          \/ mem'[a] = mem[a]
          \/ op.kind = "write" /\ mem'[a] = [from |-> op.value, place |-> a]
    BY ExecuteKeeps
  <1>2. fresh \subseteq Addresses
    BY DEF Typed, TypeOK
  <1> QED BY <1>1, <1>2 DEF FreshKept

(* Whatever it looks at, a loop stays within its operation, and a round    *)
(* that does not end it takes it on.                                       *)
LEMMA HandleRound ==
    ASSUME Typed, doing, NEW a, a.addr \in Nat, a.count \in Nat,
           a.cmd = "regs" => a.count # 0,
           a.cmd = "read" => a.count <= Payload,
           Handle(Command, a)
    PROVE  /\ DOMAIN data' = 0 .. op.len - 1
           /\ doing' \in BOOLEAN
           /\ offset' \in 0 .. op.len + (IF op.kind = "read" THEN Payload - 1 ELSE 0)
           /\ \/ /\ Accepts(Command, a)
                 /\ a.cmd = op.kind /\ a.addr = op.addr + offset
                 /\ a.count \in Nat \ {0}
                 /\ op.kind # "read" => a.count <= Command.count
                 /\ offset' = offset + a.count
                 /\ doing' = (offset' < op.len)
              \/ /\ doing' = FALSE /\ offset' = offset /\ data' = data
                 /\ ~Accepts(Command, a)
  <1> DEFINE c == Command
  <1>1. /\ c.cmd = op.kind /\ c.cmd \in Kinds /\ c.addr = op.addr + offset
        /\ c.count \in Nat \ {0} /\ offset + c.count <= op.len /\ offset \in Nat
    BY CommandType
  <1>2. DOMAIN data = 0 .. op.len - 1 /\ op.len \in Nat /\ offset < op.len
    BY DEF Typed, TypeOK, Operations
  <1>3. Handle(c, a)
    OBVIOUS
  <1> HIDE DEF c
  <1>4. CASE Accepts(c, a)
    <2>1. /\ a.cmd = op.kind /\ a.addr = op.addr + offset /\ a.count \in Nat \ {0}
          /\ op.kind # "read" => a.count <= c.count
      BY <1>1, <1>4 DEF Accepts
    <2>2. /\ DOMAIN data' = DOMAIN data
          /\ offset' = offset + a.count
          /\ doing' = (offset' < op.len)
      BY <1>3, <1>4 DEF Handle
    <2>3. offset' \in 0 .. op.len + (IF op.kind = "read" THEN Payload - 1 ELSE 0)
      <3>1. CASE op.kind = "read"
        BY <3>1, <2>1, <2>2, <1>2, <1>1, SizeAssumption
      <3>2. CASE op.kind # "read"
        BY <3>2, <2>1, <2>2, <1>2, <1>1
      <3> QED BY <3>1, <3>2
    <2> QED BY <1>2, <1>4, <2>1, <2>2, <2>3 DEF c
  <1>5. CASE ~Accepts(c, a)
    <2>1. doing' = FALSE /\ offset' = offset /\ data' = data
      BY <1>3, <1>5 DEF Handle
    <2>2. offset' \in 0 .. op.len + (IF op.kind = "read" THEN Payload - 1 ELSE 0)
      BY <2>1, <1>2, <1>1, SizeAssumption
    <2> QED BY <1>2, <1>5, <2>1, <2>2 DEF c
  <1> QED BY <1>4, <1>5

(* A good answer is put where it belongs. *)
LEMMA HandleRead ==
    ASSUME Typed, doing, ReadIsOfItsAddress, op.kind = "read",
           NEW a \in GoodAnswers, Handle(Command, a)
    PROVE  \A i \in DOMAIN data' : OfAddress(data'[i], op.addr + i)
  <1> DEFINE c == Command
  <1>1. /\ c.cmd = "read" /\ c.addr = op.addr + offset /\ offset \in Nat
    BY CommandType
  <1>2. Handle(c, a)
    OBVIOUS
  <1> HIDE DEF c
  <1>3. /\ DOMAIN data = 0 .. op.len - 1 /\ op.len \in Nat /\ op.addr \in Nat
        /\ \A i \in DOMAIN data : OfAddress(data[i], op.addr + i)
    BY DEF Typed, TypeOK, Operations, ReadIsOfItsAddress
  <1>4. CASE Accepts(c, a)
    <2>1. a.cmd = "read" /\ a.addr = op.addr + offset
      BY <1>1, <1>4 DEF Accepts
    <2>2. a.count \in Nat /\ \A i \in 0 .. a.count - 1 : OfAddress(a.data[i], a.addr + i)
      BY <2>1 DEF GoodAnswers
    <2>3. data' = [i \in DOMAIN data |->
                     IF i \in offset .. offset + a.count - 1
                     THEN a.data[i - offset] ELSE data[i]]
      BY <1>1, <1>2, <1>4 DEF Handle, Place
    <2>4. \A i \in DOMAIN data :
             i \in offset .. offset + a.count - 1 =>
               OfAddress(a.data[i - offset], op.addr + i)
      <3> SUFFICES ASSUME NEW i \in DOMAIN data, i \in offset .. offset + a.count - 1
                   PROVE  OfAddress(a.data[i - offset], op.addr + i)
        OBVIOUS
      <3>1. i - offset \in 0 .. a.count - 1 /\ a.addr + (i - offset) = op.addr + i
        BY <1>1, <1>3, <2>1, <2>2
      <3> QED BY <3>1, <2>2
    <2> QED BY <1>3, <2>3, <2>4
  <1>5. CASE ~Accepts(c, a)
    BY <1>2, <1>3, <1>5 DEF Handle
  <1> QED BY <1>4, <1>5

(* What a round of memWrite counts is in memory, or it is the first round  *)
(* of an operation in which a transaction fails.                           *)
LEMMA HandleWrite ==
    ASSUME IInv, doing, op.kind = "write", UNCHANGED <<op, fresh>>, failed => failed',
           NEW a, a.addr \in Nat, a.count \in Nat, Handle(Command, a),
           Execute(Command) \/ (UNCHANGED mem /\ failed' /\ a = in)
    PROVE  \A i \in 0 .. offset' - 1 :
              \/ ~Writable(op.addr + i)
              \/ mem'[op.addr + i] = [from |-> op.value, place |-> op.addr + i]
              \/ failed' /\ i < Payload
  <1> DEFINE c == Command
             Stored(i) == \/ ~Writable(op.addr + i)
                          \/ mem'[op.addr + i] = [from |-> op.value, place |-> op.addr + i]
                          \/ failed' /\ i < Payload
  <1>1. /\ c.cmd = "write" /\ c.addr = op.addr + offset /\ offset \in Nat
        /\ c.count \in Nat /\ c.count <= Payload /\ offset + c.count <= op.len
    BY CommandType DEF IInv
  <1>2. /\ op.addr \in Nat /\ op.len \in Nat
        /\ op.len > 0 => op.addr + op.len <= LastAddress + 1
    BY DEF IInv, Typed, Operations
  <1>3. \A b \in Addresses :
          mem'[b] = mem[b] \/ mem'[b] = [from |-> op.value, place |-> b]
    BY ExecuteKeeps DEF IInv
  <1>4. \A i \in 0 .. op.len - 1 : op.addr + i \in Addresses
    BY <1>2, SizeAssumption
  <1>5. \A i \in 0 .. offset - 1 : Stored(i)
    BY <1>1, <1>2, <1>3, <1>4 DEF IInv, CountedIsWritten
  <1>6. \/ offset' = offset
        \/ /\ offset' = offset + a.count /\ a.count <= c.count
           /\ a.addr = op.addr + offset /\ doing
    <2>1. CASE Accepts(c, a)
      BY <1>1, <2>1 DEF Handle, Accepts
    <2>2. CASE ~Accepts(c, a)
      BY <2>2 DEF Handle
    <2> QED BY <2>1, <2>2
  <1>7. CASE Execute(c)
    <2>1. \A i \in offset .. offset + c.count - 1 : Stored(i)
      <3> HIDE DEF c
      <3>1. mem' = [b \in Addresses |->
                     IF b \in c.addr .. c.addr + c.count - 1 /\ Takes(c.addr, b)
                     THEN [from |-> op.value, place |-> b] ELSE mem[b]]
        BY <1>1, <1>7 DEF Execute
      <3>2. \A i \in offset .. offset + c.count - 1 :
              /\ op.addr + i \in Addresses
              /\ op.addr + i \in c.addr .. c.addr + c.count - 1
        BY <1>1, <1>2, <1>4
      <3> SUFFICES ASSUME NEW i \in offset .. offset + c.count - 1,
                          Writable(op.addr + i)
                   PROVE  mem'[op.addr + i] = [from |-> op.value, place |-> op.addr + i]
        OBVIOUS
      <3>3. CASE Takes(c.addr, op.addr + i)
        BY <3>1, <3>2, <3>3
      <3>4. CASE ~Takes(c.addr, op.addr + i)
        <4>1. /\ isFlashRegion(op.addr) /\ isFlashRegion(op.addr + i)
              /\ op.addr + i \in fresh \/ op.value = Zero
          BY <3>4 DEF Writable, Takes
        <4>2. isFlashRegion(c.addr)
          BY <4>1, <1>1, <1>2, FlashAssumption DEF isFlashRegion
        <4>3. op.addr + i \in fresh /\ mem[op.addr + i].from # "erased"
          BY <3>4, <4>1, <4>2 DEF Takes
        <4>4. mem[op.addr + i] = [from |-> op.value, place |-> op.addr + i]
          BY <4>3 DEF IInv, FreshKept
        <4> QED BY <1>3, <3>2, <4>4
      <3> QED BY <3>3, <3>4
    <2>2. \A i \in 0 .. offset' - 1 :
            i \in 0 .. offset - 1 \/ i \in offset .. offset + c.count - 1
      <3> HIDE DEF c
      <3> QED BY <1>1, <1>6
    <2> HIDE DEF Stored, c
    <2>3. \A i \in 0 .. offset' - 1 : Stored(i)
      BY <1>5, <2>1, <2>2
    <2> QED BY <2>3 DEF Stored
  <1>8. CASE UNCHANGED mem /\ failed' /\ a = in
    <2>1. CASE offset' = offset
      BY <1>5, <2>1
    <2>2. CASE offset' # offset
      <3>1. ~(offset > 0)
        BY <1>1, <1>2, <1>6, <1>8, <2>2 DEF IInv, AnswerIsPast
      <3>2. offset' <= Payload
        BY <3>1, <1>1, <1>6, <2>2, SizeAssumption
      <3> QED BY <3>2, <1>8, <1>1, <1>6, SizeAssumption
    <2> QED BY <2>1, <2>2
  <1> QED BY <1>7, <1>8 DEF c

(* Dropping answers leaves good answers, and not more of them. *)
LEMMA SurvivorsGood ==
    ASSUME NEW answers \in Seq(GoodAnswers), Len(answers) <= 2,
           NEW rest \in Survivors(answers)
    PROVE  /\ rest \in Seq(GoodAnswers) /\ Len(rest) <= 2
           /\ answers = <<>> => rest = <<>>
  <1>1. CASE rest = answers
    BY <1>1
  <1>2. CASE rest = <<>>
    BY <1>2
  <1>3. CASE \E i \in DOMAIN answers : rest = <<answers[i]>>
    <2>1. PICK i \in 1 .. Len(answers) : rest = <<answers[i]>>
      BY <1>3
    <2>2. answers[i] \in GoodAnswers /\ answers # <<>>
      BY <2>1
    <2> QED BY <2>1, <2>2
  <1> QED BY <1>1, <1>2, <1>3 DEF Survivors

(* What sendAndReceive brings and what it leaves. *)
LEMMA ReceiveGood ==
    ASSUME Typed, NEW own \in GoodAnswers, Receive(Append(pipe, own))
    PROVE  LET a == Head(Append(pipe, own))
           IN  /\ a \in GoodAnswers
               /\ in' = [cmd |-> a.cmd, addr |-> a.addr, count |-> a.count]
               /\ pipe' \in Seq(GoodAnswers) /\ Len(pipe') <= 2
               /\ pipe = <<>> => a = own /\ pipe' = <<>>
  <1> DEFINE answers == Append(pipe, own)
  <1>1. pipe \in Seq(GoodAnswers) /\ Len(pipe) <= 2
    BY DEF Typed, TypeOK
  <1>2. /\ Head(answers) \in GoodAnswers
        /\ Tail(answers) \in Seq(GoodAnswers) /\ Len(Tail(answers)) <= 2
        /\ pipe = <<>> => Head(answers) = own /\ Tail(answers) = <<>>
    BY <1>1
  <1>3. pipe' \in Survivors(Tail(answers))
    BY DEF Receive
  <1>4. /\ pipe' \in Seq(GoodAnswers) /\ Len(pipe') <= 2
        /\ Tail(answers) = <<>> => pipe' = <<>>
    BY <1>2, <1>3, SurvivorsGood
  <1> QED BY <1>2, <1>4 DEF Receive, HeadOf

LEMMA TransactKeeps ==
    ASSUME IInv, Transact
    PROVE  IInv'
  <1> USE DEF IInv
  <1> DEFINE a == Head(Append(pipe, Answer(Command)))
  <1>1. Receive(Append(pipe, Answer(Command))) /\ Handle(Command, a)
    BY DEF Transact
  <1>2. /\ doing /\ Execute(Command)
        /\ UNCHANGED <<op, synced, failed, fresh>>
    BY DEF Transact
  <1>3. Answer(Command) \in GoodAnswers
    BY <1>2, AnswerGood
  <1>4. a \in GoodAnswers /\ (pipe = <<>> => a = Answer(Command))
    BY <1>1, <1>3, ReceiveGood
  <1>5. /\ pipe' \in Seq(GoodAnswers) /\ Len(pipe') <= 2
        /\ pipe = <<>> => pipe' = <<>>
    BY <1>1, <1>3, ReceiveGood
  <1>6. /\ a.cmd \in Kinds \cup {"halt"} /\ a.addr \in Nat /\ a.count \in Nat
        /\ a.cmd = "regs" => a.count # 0
        /\ a.cmd = "read" => a.count <= Payload
    BY <1>4, SizeAssumption DEF GoodAnswers
  <1>7. in' = [cmd |-> a.cmd, addr |-> a.addr, count |-> a.count]
    BY <1>1, <1>3, ReceiveGood
  <1> HIDE DEF a
  <1>8. Handle(Command, a)
    BY <1>1
  <1>9. /\ DOMAIN data' = 0 .. op.len - 1
        /\ doing' \in BOOLEAN
        /\ offset' \in 0 .. op.len + (IF op.kind = "read" THEN Payload - 1 ELSE 0)
        /\ \/ /\ Accepts(Command, a)
              /\ a.cmd = op.kind /\ a.addr = op.addr + offset
              /\ a.count \in Nat \ {0}
              /\ op.kind # "read" => a.count <= Command.count
              /\ offset' = offset + a.count
              /\ doing' = (offset' < op.len)
           \/ /\ doing' = FALSE /\ offset' = offset /\ data' = data
              /\ ~Accepts(Command, a)
    BY <1>2, <1>6, <1>8, HandleRound
  <1>10. /\ mem' \in [Addresses -> Byte]
         /\ \A b \in Addresses : mem'[b].place = b
    BY <1>2, ExecuteKeeps
  <1>11. Typed'
    <2>1. in' \in [cmd : Kinds \cup {"halt", "none"}, addr : Nat, count : Nat]
      BY <1>6, <1>7
    <2>2. doing' => op.kind # "none" /\ offset' < op.len
      BY <1>2, <1>9 DEF Typed
    <2> QED BY <1>2, <1>5, <1>9, <1>10, <2>1, <2>2 DEF Typed, TypeOK
  <1>12. MemoryInPlace'
    BY <1>10 DEF MemoryInPlace
  <1>13. ReadIsOfItsAddress'
    BY <1>2, <1>4, <1>8, HandleRead DEF ReadIsOfItsAddress
  <1>14. AnswerIsPast'
    BY <1>2, <1>6, <1>7, <1>9 DEF AnswerIsPast, Typed, TypeOK, Operations
  <1>15. CountedIsWritten'
    <2>1. CASE op.kind = "write"
      BY <1>2, <1>6, <1>8, <2>1, HandleWrite DEF CountedIsWritten, Writable
    <2>2. CASE op.kind # "write"
      BY <1>2, <2>2 DEF CountedIsWritten
    <2> QED BY <2>1, <2>2
  <1>16. InStep' /\ CutShortByFailure'
    <2>1. CASE synced
      <3>1. pipe = <<>>
        BY <1>2, <2>1 DEF InStep
      <3>4. a = Answer(Command) /\ pipe' = <<>>
        BY <1>4, <1>5, <3>1
      <3>5. /\ Command.cmd = op.kind /\ Command.count \in Nat \ {0}
            /\ offset + Command.count <= op.len /\ offset \in Nat
        BY <1>2, CommandType
      <3>6. /\ a.cmd = Command.cmd /\ a.addr = Command.addr /\ a.count = Command.count
        BY <3>4 DEF Answer
      <3>7. Accepts(Command, a)
        BY <3>5, <3>6 DEF Accepts
      <3> QED BY <1>2, <1>9, <3>4, <3>5, <3>6, <3>7
             DEF InStep, CutShortByFailure, Typed, TypeOK, Operations
    <2>2. CASE ~synced
      BY <1>2, <2>2 DEF InStep, CutShortByFailure
    <2> QED BY <2>1, <2>2
  <1>17. FreshKept'
    BY <1>2, FreshStays
  <1> QED BY <1>11, <1>12, <1>13, <1>14, <1>15, <1>16, <1>17

LEMMA TransactFailsKeeps ==
    ASSUME IInv, TransactFails
    PROVE  IInv'
  <1> USE DEF IInv
  <1>1. /\ doing /\ UNCHANGED <<op, synced, fresh>> /\ failed' = TRUE
        /\ in' = in /\ pipe' = <<>>
        /\ Execute(Command) \/ UNCHANGED mem
        /\ IF op.kind = "write" THEN Handle(Command, in)
           ELSE doing' = FALSE /\ UNCHANGED <<offset, data>>
    BY CommandType DEF TransactFails
  <1>2. /\ mem' \in [Addresses -> Byte]
        /\ \A b \in Addresses : mem'[b].place = b
        /\ \A b \in Addresses :
             \/ mem'[b] = mem[b]
             \/ op.kind = "write" /\ mem'[b] = [from |-> op.value, place |-> b]
    BY <1>1, ExecuteKeeps
  <1>3. pipe' \in Seq(GoodAnswers) /\ Len(pipe') <= 2
    BY <1>1
  <1>f. FreshKept'
    BY <1>1, FreshStays
  <1>4. CASE op.kind = "write"
    <2>1. in.addr \in Nat /\ in.count \in Nat
      BY DEF Typed
    <2>2. Handle(Command, in) /\ Command.cmd = "write"
      BY <1>1, <1>4, CommandType
    <2>3. /\ DOMAIN data' = 0 .. op.len - 1
          /\ doing' \in BOOLEAN
          /\ offset' \in 0 .. op.len
          /\ \/ /\ in.addr = op.addr + offset
                /\ in.count \in Nat \ {0}
                /\ offset' = offset + in.count
                /\ doing' = (offset' < op.len)
             \/ doing' = FALSE /\ offset' = offset
      <3>1. /\ DOMAIN data = 0 .. op.len - 1 /\ op.len \in Nat /\ offset < op.len
            /\ offset \in Nat
        BY <1>1 DEF Typed, TypeOK, Operations
      <3>2. /\ Command.addr = op.addr + offset
            /\ Command.count \in Nat /\ offset + Command.count <= op.len
        BY <1>1, CommandType
      <3>3. CASE Accepts(Command, in)
        <4>1. in.addr = Command.addr /\ in.count # 0 /\ in.count <= Command.count
          BY <2>2, <3>3 DEF Accepts
        <4>2. /\ DOMAIN data' = DOMAIN data /\ offset' = offset + in.count
              /\ doing' = (offset' < op.len)
          BY <2>2, <3>3 DEF Handle
        <4> QED BY <2>1, <3>1, <3>2, <4>1, <4>2
      <3>4. CASE ~Accepts(Command, in)
        <4>1. doing' = FALSE /\ offset' = offset /\ data' = data
          BY <2>2, <3>4 DEF Handle
        <4>2. DOMAIN data' = 0 .. op.len - 1
          BY <3>1, <4>1
        <4>3. offset' \in 0 .. op.len
          BY <3>1, <4>1
        <4> QED BY <4>1, <4>2, <4>3
      <3> QED BY <3>3, <3>4
    <2>4. Typed'
      <3>1. TypeOK'
        <4>1. in'.cmd \in Kinds \cup {"halt", "none"} /\ op'.kind \in Kinds \cup {"none"}
          BY <1>1 DEF Typed, TypeOK
        <4>2. doing' \in BOOLEAN /\ synced' \in BOOLEAN /\ failed' \in BOOLEAN
          BY <1>1, <2>3 DEF Typed, TypeOK
        <4>3. offset' \in 0 .. op'.len + (IF op'.kind = "read" THEN Payload - 1 ELSE 0)
          <5>1. op'.len \in Nat /\ op'.kind # "read" /\ op'.len = op.len
            BY <1>1, <1>4 DEF Typed, TypeOK, Operations
          <5>2. offset' \in 0 .. op'.len + 0
            BY <2>3, <5>1
          <5> QED BY <5>1, <5>2
        <4>4. DOMAIN data' = 0 .. op'.len - 1
          BY <1>1, <2>3
        <4>5. fresh' \subseteq Addresses
          BY <1>1 DEF Typed, TypeOK
        <4> QED BY <1>2, <1>3, <4>1, <4>2, <4>3, <4>4, <4>5 DEF TypeOK
      <3>2. doing' => offset' < op.len
        BY <2>3
      <3> QED BY <1>1, <1>3, <1>4, <3>1, <3>2 DEF Typed
    <2>5. MemoryInPlace' /\ ReadIsOfItsAddress' /\ InStep' /\ CutShortByFailure'
      BY <1>1, <1>2, <1>4 DEF MemoryInPlace, ReadIsOfItsAddress, InStep, CutShortByFailure
    <2>6. AnswerIsPast'
      BY <1>1, <2>1, <2>3 DEF AnswerIsPast, Typed, TypeOK, Operations
    <2>7. Execute(Command) \/ (UNCHANGED mem /\ failed')
      BY <1>1
    <2>8. CountedIsWritten'
      BY <1>1, <1>4, <2>1, <2>2, <2>7, HandleWrite DEF CountedIsWritten, Writable
    <2> QED BY <2>4, <2>5, <2>6, <2>8, <1>f
  <1>5. CASE op.kind # "write"
    BY <1>1, <1>2, <1>3, <1>5, <1>f
    DEF Typed, TypeOK, MemoryInPlace, ReadIsOfItsAddress, AnswerIsPast, CountedIsWritten,
        InStep, CutShortByFailure
  <1> QED BY <1>4, <1>5

LEMMA RestartServerKeeps ==
    ASSUME IInv, RestartServer
    PROVE  IInv'
  <1> USE DEF IInv
  <1>1. /\ doing /\ doing' = FALSE /\ failed' = TRUE /\ in' = NoHead
        /\ UNCHANGED <<op, offset, data, synced, fresh>>
        /\ Execute(Command)
        /\ pipe' \in IF pipe = <<>> THEN {<<Answer(Command)>>}
                     ELSE {<<Head(pipe)>>, <<Head(pipe), Answer(Command)>>}
    BY DEF RestartServer
  <1>2. /\ mem' \in [Addresses -> Byte]
        /\ \A b \in Addresses : mem'[b].place = b
        /\ \A b \in Addresses :
             \/ mem'[b] = mem[b]
             \/ op.kind = "write" /\ mem'[b] = [from |-> op.value, place |-> b]
    BY <1>1, ExecuteKeeps
  <1>3. pipe' \in Seq(GoodAnswers) /\ Len(pipe') <= 2
    <2>1. Answer(Command) \in GoodAnswers /\ (pipe # <<>> => Head(pipe) \in GoodAnswers)
      BY <1>1, AnswerGood DEF Typed
    <2>2. \A a, b \in GoodAnswers : /\ <<a>> \in Seq(GoodAnswers) /\ Len(<<a>>) = 1
                                   /\ <<a, b>> \in Seq(GoodAnswers) /\ Len(<<a, b>>) = 2
      OBVIOUS
    <2>3. \/ pipe' = <<Answer(Command)>>
          \/ pipe # <<>> /\ pipe' = <<Head(pipe)>>
          \/ pipe # <<>> /\ pipe' = <<Head(pipe), Answer(Command)>>
      BY <1>1
    <2>4. CASE pipe' = <<Answer(Command)>>
      BY <2>1, <2>2, <2>4
    <2>5. CASE pipe # <<>> /\ pipe' = <<Head(pipe)>>
      BY <2>1, <2>2, <2>5
    <2>6. CASE pipe # <<>> /\ pipe' = <<Head(pipe), Answer(Command)>>
      <3> DEFINE a == Head(pipe)
                 b == Answer(Command)
      <3>1. a \in GoodAnswers /\ b \in GoodAnswers /\ pipe' = <<a, b>>
        BY <2>1, <2>6
      <3> HIDE DEF a, b
      <3> QED BY <2>2, <3>1
    <2> QED BY <2>3, <2>4, <2>5, <2>6
  <1>4. Typed'
    BY <1>1, <1>2, <1>3 DEF Typed, TypeOK, NoHead
  <1>5. CountedIsWritten'
    <2> SUFFICES ASSUME op.kind = "write", NEW i \in 0 .. offset - 1
                 PROVE  \/ ~Writable(op.addr + i)
                        \/ mem'[op.addr + i] = [from |-> op.value, place |-> op.addr + i]
                        \/ failed /\ i < Payload
      BY <1>1 DEF CountedIsWritten, Writable
    <2>1. op.addr + i \in Addresses
      <3>1. /\ op.addr \in Nat /\ op.len \in Nat /\ offset < op.len /\ offset \in Nat
            /\ op.addr + op.len <= LastAddress + 1
        BY <1>1 DEF Typed, TypeOK, Operations
      <3> QED BY <3>1, SizeAssumption
    <2> QED BY <1>2, <2>1 DEF CountedIsWritten
  <1>6. FreshKept'
    BY <1>1, FreshStays
  <1> QED BY <1>1, <1>2, <1>4, <1>5, <1>6
         DEF MemoryInPlace, ReadIsOfItsAddress, AnswerIsPast, InStep, CutShortByFailure

LEMMA PollKeeps ==
    ASSUME IInv, Poll
    PROVE  IInv'
  <1> USE DEF IInv
  <1> DEFINE answers == Append(pipe, HaltAnswer)
  <1>1. Receive(answers)
    BY DEF Poll
  <1>2. ~doing /\ UNCHANGED <<mem, opVars>>
    BY DEF Poll
  <1>3. HaltAnswer \in GoodAnswers
    <2>1. <<>> \in [0 .. 0 - 1 -> Contents]
      OBVIOUS
    <2> DEFINE S == UNION {[0 .. n - 1 -> Contents] : n \in Nat}
               d == <<>>
    <2>2. d \in S
      BY <2>1
    <2>3. HaltAnswer = [cmd |-> "halt", addr |-> 0, count |-> 0, data |-> d]
      BY DEF HaltAnswer
    <2>4. \A a \in [cmd : Kinds \cup {"halt"}, addr : Nat, count : Nat, data : S] :
             a.cmd = "halt" => a \in GoodAnswers
      BY GoodAnswer
    <2> HIDE DEF S, d
    <2> QED BY <2>2, <2>3, <2>4
  <1>4. /\ Head(answers) \in GoodAnswers
        /\ in' = HeadOf(Head(answers))
        /\ pipe' \in Seq(GoodAnswers) /\ Len(pipe') <= 2
    BY <1>1, <1>3, ReceiveGood DEF HeadOf
  <1>5. in' \in [cmd : Kinds \cup {"halt", "none"}, addr : Nat, count : Nat]
    BY <1>4 DEF HeadOf, GoodAnswers
  <1> QED BY <1>2, <1>4, <1>5
         DEF opVars, Typed, TypeOK, MemoryInPlace, ReadIsOfItsAddress, AnswerIsPast,
             CountedIsWritten, FreshKept, InStep, CutShortByFailure, Writable

LEMMA BeginKeeps ==
    ASSUME IInv, NEW kind \in Kinds, NEW addr \in Nat, NEW len \in Nat \ {0},
           NEW value \in Values \cup {"before"}, Begin(kind, addr, len, value),
           kind # "regs" => addr + len <= LastAddress + 1
    PROVE  IInv'
  <1> USE DEF IInv
  <1>1. /\ op' = [kind |-> kind, addr |-> addr, len |-> len, value |-> value]
        /\ doing' = TRUE /\ offset' = 0 /\ data' = [i \in 0 .. len - 1 |-> Junk]
        /\ synced' = (pipe = <<>>) /\ failed' = FALSE /\ fresh' = ErasedFlash
        /\ UNCHANGED <<mem, pipe, in>>
    BY DEF Begin
  <1>2. op' \in Operations /\ op'.kind = kind /\ op'.addr = addr /\ op'.len = len
    BY <1>1 DEF Operations
  <1>3. Typed'
    <2>1. DOMAIN data' = 0 .. op'.len - 1
      BY <1>1, <1>2
    <2>2. offset' \in 0 .. op'.len + (IF op'.kind = "read" THEN Payload - 1 ELSE 0)
      BY <1>1, <1>2, SizeAssumption
    <2>3. synced' \in BOOLEAN
      BY <1>1
    <2>4. TypeOK'
      BY <1>1, <1>2, <2>1, <2>2, <2>3 DEF Typed, TypeOK, ErasedFlash
    <2> QED BY <1>1, <1>2, <2>4 DEF Typed
  <1>4. MemoryInPlace' /\ AnswerIsPast' /\ CutShortByFailure' /\ FreshKept'
    BY <1>1 DEF FreshKept, ErasedFlash, MemoryInPlace, AnswerIsPast, CutShortByFailure
  <1>6. InStep'
    BY <1>1 DEF InStep
  <1>7. CountedIsWritten'
    <2>1. 0 .. offset' - 1 = {}
      BY <1>1
    <2> QED BY <2>1 DEF CountedIsWritten
  <1>5. ReadIsOfItsAddress'
    BY <1>1 DEF ReadIsOfItsAddress
  <1> QED BY <1>3, <1>4, <1>5, <1>6, <1>7

(* The inductive invariant holds in every reachable state. *)
THEOREM Invariance == Spec => []IInv
  <1>1. Init => IInv
    <2> SUFFICES ASSUME Init PROVE IInv
      OBVIOUS
    <2>1. mem \in [Addresses -> Byte] /\ \A a \in Addresses : mem[a].place = a
      <3>1. PICK E : mem = [a \in Addresses |->
                              [from |-> IF a \in E THEN "erased" ELSE "before",
                               place |-> a]]
        BY DEF Init
      <3> QED BY <3>1 DEF Byte
    <2>2. op \in Operations /\ op.kind = "none" /\ op.len = 0
      BY DEF Init, NoOp, Operations
    <2>3. DOMAIN data = 0 .. 0 - 1
      BY DEF Init
    <2>4. Typed
      <3>1. offset \in 0 .. op.len + (IF op.kind = "read" THEN Payload - 1 ELSE 0)
        BY <2>2 DEF Init
      <3>2. pipe \in Seq(GoodAnswers) /\ Len(pipe) <= 2
        BY DEF Init
      <3>3. in \in [cmd : Kinds \cup {"halt", "none"}, addr : Nat, count : Nat]
        BY DEF Init, NoHead
      <3>4. DOMAIN data = 0 .. op.len - 1
        BY <2>2, <2>3
      <3>5. TypeOK
        BY <2>1, <2>2, <3>1, <3>2, <3>3, <3>4 DEF Init, TypeOK
      <3> QED BY <2>2, <3>2, <3>3, <3>5 DEF Init, Typed
    <2> QED BY <2>1, <2>2, <2>4
           DEF Init, IInv, MemoryInPlace, ReadIsOfItsAddress, AnswerIsPast,
               FreshKept, CountedIsWritten, InStep, CutShortByFailure
  <1>2. IInv /\ [Next]_vars => IInv'
    <2> SUFFICES ASSUME IInv, [Next]_vars PROVE IInv'
      OBVIOUS
    <2>1. CASE \E a, b \in Addresses :
                 /\ a <= b
                 /\ \/ MemRead(a, b - a + 1)
                    \/ \E v \in Values : MemWrite(a, b - a + 1, v)
      <3> PICK a \in Addresses, b \in Addresses :
                 /\ a <= b
                 /\ \/ MemRead(a, b - a + 1)
                    \/ \E v \in Values : MemWrite(a, b - a + 1, v)
        BY <2>1
      <3>1. a \in Nat /\ b - a + 1 \in Nat \ {0} /\ a + (b - a + 1) <= LastAddress + 1
        BY SizeAssumption
      <3>2. CASE MemRead(a, b - a + 1)
        BY <3>1, <3>2, BeginKeeps DEF MemRead
      <3>3. CASE \E v \in Values : MemWrite(a, b - a + 1, v)
        BY <3>1, <3>3, BeginKeeps DEF MemWrite
      <3> QED BY <3>2, <3>3
    <2>2. CASE \E r, s \in Registers : r <= s /\ RegsRead(r, s - r + 1)
      <3> PICK r \in Registers, s \in Registers : r <= s /\ RegsRead(r, s - r + 1)
        BY <2>2
      <3>1. r \in Nat /\ s - r + 1 \in Nat \ {0}
        BY SizeAssumption
      <3> QED BY <3>1, BeginKeeps DEF RegsRead
    <2>3. CASE Transact
      BY <2>3, TransactKeeps
    <2>4. CASE TransactFails
      BY <2>4, TransactFailsKeeps
    <2>5. CASE RestartServer
      BY <2>5, RestartServerKeeps
    <2>6. CASE Poll
      BY <2>6, PollKeeps
    <2>7. CASE UNCHANGED vars
      BY <2>7 DEF vars, opVars, IInv, Typed, TypeOK, MemoryInPlace, ReadIsOfItsAddress,
                  AnswerIsPast, CountedIsWritten, FreshKept, InStep, CutShortByFailure,
                  Writable
    <2> QED BY <2>1, <2>2, <2>3, <2>4, <2>5, <2>6, <2>7 DEF Next
  <1> QED BY <1>1, <1>2, PTL DEF Spec

---------------------------------------------------------------------------
(* The types, and that a loop counts past the end of its operation by less *)
(* than a packet and in memRead only (TargetSTM32F1.cpp 154-230).          *)
THEOREM TypeCorrect == Spec => []TypeOK
  <1>1. IInv => TypeOK
    BY DEF IInv, Typed
  <1> QED BY <1>1, Invariance, PTL

(* What GDB is shown for an address is that address's, also by a server    *)
(* that started with answers to another's commands in the pipe.            *)
THEOREM ReadIsOfItsAddressAlways == Spec => []ReadIsOfItsAddress
  <1>1. IInv => ReadIsOfItsAddress
    BY DEF IInv
  <1> QED BY <1>1, Invariance, PTL

(* What memWrite counts is in memory where memory takes it, RAM or flash   *)
(* that is erased, but for the first packet of an operation in which a     *)
(* transaction fails.                                                      *)
THEOREM CountedIsWrittenAlways == Spec => []CountedIsWritten
  <1>1. IInv => CountedIsWritten
    BY DEF IInv
  <1> QED BY <1>1, Invariance, PTL

(* A server in step never gives up an operation unless a transaction has   *)
(* failed.                                                                 *)
THEOREM CutShortByFailureAlways == Spec => []CutShortByFailure
  <1>1. IInv => CutShortByFailure
    BY DEF IInv
  <1> QED BY <1>1, Invariance, PTL

(* The loops of memRead, memWrite and regsRead do not go round for ever.   *)
THEOREM EachRoundAdvancesAlways == Spec => EachRoundAdvances
  <1>1. IInv /\ [Next]_vars => [doing /\ doing' => offset' > offset]_vars
    <2> SUFFICES ASSUME IInv, Next, doing, doing' PROVE offset' > offset
      OBVIOUS
    <2>1. Typed /\ offset \in Nat
      BY DEF IInv, Typed, TypeOK
    <2>2. CASE Transact
      <3>1. PICK a : Receive(Append(pipe, Answer(Command))) /\ Handle(Command, a)
                     /\ a = Head(Append(pipe, Answer(Command)))
        BY <2>2 DEF Transact
      <3>2. Answer(Command) \in GoodAnswers
        BY AnswerGood DEF IInv
      <3>3. a \in GoodAnswers
        BY <2>1, <3>1, <3>2, ReceiveGood
      <3>4. /\ a.addr \in Nat /\ a.count \in Nat
            /\ a.cmd = "regs" => a.count # 0
            /\ a.cmd = "read" => a.count <= Payload
        BY <3>3, SizeAssumption DEF GoodAnswers
      <3>5. \/ a.count \in Nat \ {0} /\ offset' = offset + a.count
            \/ doing' = FALSE
        BY <2>1, <3>1, <3>4, HandleRound
      <3> QED BY <2>1, <3>5
    <2>3. CASE TransactFails
      <3>1. Command.cmd = "write" /\ Handle(Command, in)
        BY <2>3 DEF TransactFails
      <3>2. Accepts(Command, in) /\ offset' = offset + in.count
        BY <3>1 DEF Handle
      <3>3. in.count # 0 /\ in.count \in Nat
        BY <2>1, <3>1, <3>2 DEF Accepts, Typed
      <3> QED BY <2>1, <3>2, <3>3
    <2> QED BY <2>2, <2>3
           DEF Next, MemRead, MemWrite, RegsRead, Begin, RestartServer, Poll
  <1> QED BY <1>1, Invariance, PTL DEF Spec, EachRoundAdvances

---------------------------------------------------------------------------
(* What a server in step reads.  Its packets follow one another without a  *)
(* gap, each but the last full, so that the packet that carries a place is *)
(* known from the place alone.                                             *)

LEMMA PlaceOfPacket ==
    ASSUME NEW size \in Nat \ {0}, NEW k \in Nat, NEW i \in Nat,
           k * size <= i, i < k * size + size
    PROVE  size * (i \div size) = k * size
  <1>1. i \div size = k
    OBVIOUS
  <1> QED BY <1>1

WholePackets ==
    op.kind = "read" /\ synced =>
        offset = op.len \/ \E k \in Nat : offset = k * Payload

ReadInv == WholePackets /\ ReadIsMemory

(* A round of memRead in step puts into the result what memory holds, and  *)
(* its packet is the one PacketOf names.                                   *)
LEMMA RoundInStep ==
    ASSUME IInv, ReadInv, Transact, op.kind = "read", synced
    PROVE  ReadInv'
  <1> DEFINE c == Command
             a == Answer(c)
  <1>1. /\ c.cmd = "read" /\ c.addr = op.addr + offset /\ offset \in Nat
        /\ c.count \in Nat \ {0} /\ offset + c.count <= op.len
        /\ c.count <= Payload /\ doing
    BY CommandType DEF IInv, Transact
  <1>2. /\ op.addr \in Nat /\ op.len \in Nat /\ DOMAIN data = 0 .. op.len - 1
        /\ offset < op.len
    BY <1>1 DEF IInv, Typed, TypeOK, Operations
  <1>3. Handle(c, a) /\ Execute(c) /\ op' = op /\ synced' = synced
    <2>1. Handle(c, Head(Append(pipe, a)))
      BY DEF Transact
    <2>2. pipe = <<>> /\ a \in GoodAnswers
      BY <1>1, AnswerGood DEF IInv, InStep
    <2>3. Head(Append(pipe, a)) = a
      BY <2>2
    <2> QED BY <2>1, <2>3 DEF Transact
  <1>4. mem' = mem
    BY <1>1, <1>3 DEF Execute
  <1>5. /\ a.cmd = "read" /\ a.addr = c.addr /\ a.count = c.count
        /\ a.data = ReadAnswer(c)
    BY <1>1 DEF Answer
  <1>6. c.count = Lesser(Payload, op.len - offset) /\ PacketSize = Payload
    BY DEF Command, PacketSize
  <1> HIDE DEF c, a
  <1>7. /\ offset' = offset + c.count
        /\ data' = [i \in DOMAIN data |->
                      IF i \in offset .. offset + c.count - 1
                      THEN ReadAnswer(c)[i - offset] ELSE data[i]]
    <2>1. Accepts(c, a)
      BY <1>1, <1>5 DEF Accepts
    <2> QED BY <1>1, <1>3, <1>5, <2>1 DEF Handle, Place
  <1>8. PICK k \in Nat : offset = k * Payload
    BY <1>2 DEF ReadInv, WholePackets
  <1>9. WholePackets'
    <2>1. CASE c.count = op.len - offset
      BY <2>1, <1>1, <1>2, <1>3, <1>7 DEF WholePackets
    <2>2. CASE c.count = Payload
      <3>1. offset' = (k + 1) * Payload
        BY <2>2, <1>7, <1>8, SizeAssumption
      <3> QED BY <3>1 DEF WholePackets
    <2> QED BY <2>1, <2>2, <1>6 DEF Lesser
  <1>10. \A i \in offset .. offset + c.count - 1 :
           PacketOf(i) = [addr |-> c.addr, count |-> c.count]
    <2> SUFFICES ASSUME NEW i \in offset .. offset + c.count - 1
                 PROVE  PacketOf(i) = [addr |-> c.addr, count |-> c.count]
      OBVIOUS
    <2>1. i \in Nat /\ k * Payload <= i /\ i < k * Payload + Payload
      BY <1>1, <1>8, SizeAssumption
    <2>2. PacketAt(i) = offset
      BY <2>1, <1>6, <1>8, PlaceOfPacket, SizeAssumption DEF PacketAt
    <2> QED BY <2>2, <1>1, <1>6 DEF PacketOf
  <1>11. ReadIsMemory'
    <2> SUFFICES ASSUME NEW i \in DOMAIN data
                 PROVE  data'[i] = IF i >= offset' THEN Junk
                                   ELSE IF Accessible(PacketOf(i).addr, PacketOf(i).count)
                                        THEN mem[op.addr + i] ELSE Hole
      <3>1. \A i \in DOMAIN data : PacketOf(i)' = PacketOf(i)
        BY <1>3 DEF PacketOf, PacketAt, PacketSize
      <3>2. DOMAIN data' = DOMAIN data
        BY <1>7
      <3> QED BY <1>3, <1>4, <3>1, <3>2 DEF ReadIsMemory, Accessible
    <2>1. i \in Nat /\ i < op.len
      BY <1>2
    <2>2. CASE i \in offset .. offset + c.count - 1
      <3>1. i - offset \in 0 .. c.count - 1 /\ c.addr + (i - offset) = op.addr + i
        BY <2>2, <1>1, <1>2, <2>1
      <3>2. data'[i] = IF Accessible(c.addr, c.count) THEN mem[op.addr + i] ELSE Hole
        BY <2>2, <1>7, <3>1 DEF ReadAnswer
      <3>3. i < offset'
        BY <2>2, <1>1, <1>7
      <3> QED BY <2>1, <2>2, <3>2, <3>3, <1>1, <1>7, <1>10
    <2>3. CASE i < offset
      <3>1. data'[i] = data[i] /\ i < offset'
        BY <2>3, <2>1, <1>1, <1>7
      <3> QED BY <2>1, <2>3, <3>1, <1>1, <1>7 DEF ReadInv, ReadIsMemory
    <2>4. CASE i >= offset + c.count
      <3>1. data'[i] = data[i] /\ i >= offset' /\ i >= offset
        BY <2>4, <2>1, <1>1, <1>7
      <3> QED BY <3>1 DEF ReadInv, ReadIsMemory
    <2> QED BY <2>1, <2>2, <2>3, <2>4, <1>1
  <1> QED BY <1>9, <1>11 DEF ReadInv

LEMMA ReadKept ==
    ASSUME ReadInv, UNCHANGED <<op, offset, data, synced>>,
           op.kind = "read" /\ synced => UNCHANGED mem
    PROVE  ReadInv'
  <1>1. \A i \in DOMAIN data : PacketOf(i)' = PacketOf(i)
    BY DEF PacketOf, PacketAt, PacketSize
  <1> QED BY <1>1 DEF ReadInv, WholePackets, ReadIsMemory, Accessible

LEMMA BeginReads ==
    ASSUME NEW kind, NEW addr, NEW len \in Nat, NEW value, Begin(kind, addr, len, value)
    PROVE  ReadInv'
  <1>1. /\ offset' = 0 /\ data' = [i \in 0 .. len - 1 |-> Junk]
    BY DEF Begin
  <1>2. 0 = 0 * Payload
    BY SizeAssumption
  <1>3. WholePackets'
    BY <1>1, <1>2 DEF WholePackets
  <1>4. ReadIsMemory'
    BY <1>1 DEF ReadIsMemory
  <1> QED BY <1>3, <1>4 DEF ReadInv

(* Only the command of a write changes memory. *)
LEMMA ReadLeavesMemory ==
    ASSUME IInv, doing, op.kind # "write", Execute(Command) \/ UNCHANGED mem
    PROVE  UNCHANGED mem
  BY CommandType DEF IInv, Execute

(* A server in step reads what the memory holds, 0xFF in every packet that  *)
(* leaves its region, and nothing beyond a failed transaction, for every   *)
(* memory, every set of regions and every packet size (memRead, and        *)
(* memoryReadCommand with checkMemRegionAccess).                           *)
THEOREM ReadIsMemoryAlways == Spec => []ReadIsMemory
  <1>1. Init => ReadInv
    BY SizeAssumption DEF Init, NoOp, ReadInv, WholePackets, ReadIsMemory
  <1>2. IInv /\ ReadInv /\ [Next]_vars => ReadInv'
    <2> SUFFICES ASSUME IInv, ReadInv, [Next]_vars PROVE ReadInv'
      OBVIOUS
    <2>1. CASE \E a, b \in Addresses :
                 /\ a <= b
                 /\ \/ MemRead(a, b - a + 1)
                    \/ \E v \in Values : MemWrite(a, b - a + 1, v)
      BY <2>1, BeginReads, SizeAssumption DEF MemRead, MemWrite
    <2>2. CASE \E r, s \in Registers : r <= s /\ RegsRead(r, s - r + 1)
      BY <2>2, BeginReads, SizeAssumption DEF RegsRead
    <2>3. CASE Transact
      <3>1. CASE op.kind = "read" /\ synced
        BY <2>3, <3>1, RoundInStep
      <3>2. CASE ~(op.kind = "read" /\ synced)
        BY <2>3, <3>2 DEF Transact, ReadInv, WholePackets, ReadIsMemory
      <3> QED BY <3>1, <3>2
    <2>4. CASE TransactFails
      <3>1. CASE op.kind = "read"
        <4>1. doing /\ (Execute(Command) \/ UNCHANGED mem) /\ Command.cmd = "read"
          BY <2>4, <3>1, CommandType DEF TransactFails, IInv
        <4>2. UNCHANGED <<op, offset, data, synced>>
          BY <2>4, <4>1 DEF TransactFails
        <4> QED BY <3>1, <4>1, <4>2, ReadLeavesMemory, ReadKept
      <3>2. CASE op.kind # "read"
        BY <2>4, <3>2 DEF TransactFails, ReadInv, WholePackets, ReadIsMemory
      <3> QED BY <3>1, <3>2
    <2>5. CASE RestartServer
      <3>1. doing /\ Execute(Command) /\ UNCHANGED <<op, offset, data, synced>>
        BY <2>5 DEF RestartServer
      <3> QED BY <3>1, ReadLeavesMemory, ReadKept
    <2>6. CASE Poll
      BY <2>6, ReadKept DEF Poll, opVars
    <2>7. CASE UNCHANGED vars
      BY <2>7, ReadKept DEF vars, opVars
    <2> QED BY <2>1, <2>2, <2>3, <2>4, <2>5, <2>6, <2>7 DEF Next
  <1>3. ReadInv => ReadIsMemory
    BY DEF ReadInv
  <1> QED BY <1>1, <1>2, <1>3, Invariance, PTL DEF Spec
=============================================================================

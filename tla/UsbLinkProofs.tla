---------------------------- MODULE UsbLinkProofs ----------------------------
(***************************************************************************)
(* The invariants of UsbLink, for every value of its bounds.               *)
(*                                                                         *)
(* On endpoint 1 the argument counts what is in front of an answer: a      *)
(* server sends its next command only after it has read one, so a command  *)
(* that found two packets in front of it is answered two commands later at *)
(* the latest.  On endpoint 2 it counts permissions: allowUsbTransfer, a   *)
(* chunk being written, in the buffer, or read but not completed each hold *)
(* one, and only a start of the firmware creates one.  The three places of *)
(* a packet on endpoint 1 together are the pipe of AnswerPipe.             *)
(***************************************************************************)
EXTENDS UsbLink, SequenceTheorems, TLAPS

(* Each command is taken before the next, so what is not taken is the last. *)
Order ==
    /\ out \in {No, sent}
    /\ {frame, in} \subseteq 0 .. sent
    /\ first <= sent + 1

(* What the read under way will bring.  A reset has ended every read. *)
NextAnswer ==
    host = "reading" =>
        /\ configured /\ first <= sent
        /\ lag = 0 => {out, frame, in} \subseteq {No, sent}
        /\ lag # 0 => \/ in # No /\ in # sent
                      \/ in = No /\ frame # No /\ frame # sent

Allowance == IF host = "reading" THEN 2 ELSE 1

(* How far an answer to this server can be behind, given those before it.  *)
Distance ==
    /\ out # No /\ out >= first => Full(frame) + Full(in) <= Allowance
    /\ frame # No /\ frame >= first => (sent - frame) + Full(in) <= Allowance
    /\ in # No /\ in >= first => sent - in <= Allowance

One(condition) == IF condition THEN 1 ELSE 0

Permits == One(allowUsbTransfer) + One(complete) + Full(serial) + One(svc = "write")

Permissions ==
    /\ Permits + lost <= overlaps + 1
    /\ svc = "clear" => allowUsbTransfer

Counters ==
    /\ svc # "out" => left >= 1
    /\ svc = "out" => left = 0
    /\ chunk + left <= MaxChunks
    /\ lost <= chunk /\ serial <= chunk
    /\ overlaps <= starts

LinkInv == Order /\ NextAnswer /\ Distance /\ AnswerIsOwnUnlessBehind
SerialInv == Counters /\ Permissions /\ LostOnlyByRestart /\ PrintingIsNotLockedOut
IInv == TypeOK /\ LinkInv /\ SerialInv

---------------------------------------------------------------------------
LEMMA Initially == Init => IInv
  <1> SUFFICES ASSUME Init PROVE IInv
    OBVIOUS
  <1> USE DEF Init, No
  <1>1. TypeOK
    <2>1. /\ configured \in BOOLEAN /\ usbInitialized \in BOOLEAN
          /\ allowUsbTransfer \in BOOLEAN /\ complete \in BOOLEAN /\ mute \in BOOLEAN
      OBVIOUS
    <2> QED BY <2>1, BoundAssumption DEF TypeOK
  <1>2. LinkInv
    BY DEF LinkInv, Order, NextAnswer, Distance, Full, AnswerIsOwnUnlessBehind
  <1>3. Counters /\ LostOnlyByRestart
    BY BoundAssumption DEF Counters, LostOnlyByRestart
  <1>4. One(allowUsbTransfer) = 0 /\ One(complete) = 0 /\ One(svc = "write") = 0
        /\ Full(serial) = 0
    BY DEF One, Full
  <1>5. Permissions
    BY <1>4 DEF Permissions, Permits
  <1>6. PrintingIsNotLockedOut
    BY DEF PrintingIsNotLockedOut
  <1> QED BY <1>1, <1>2, <1>3, <1>5, <1>6 DEF IInv, SerialInv

(* The actions of endpoint 1 leave the other endpoint alone, and the       *)
(* other way round.                                                        *)
LEMMA LinkOnly ==
    ASSUME IInv, UNCHANGED serialVars
    PROVE  SerialInv'
  BY DEF IInv, SerialInv, serialVars, Counters, Permissions, LostOnlyByRestart,
         PrintingIsNotLockedOut, Permits, One, Full

LEMMA SerialOnly ==
    ASSUME IInv, UNCHANGED linkVars, UNCHANGED configured
    PROVE  LinkInv'
  BY DEF IInv, LinkInv, linkVars, Order, NextAnswer, Distance, Allowance,
         AnswerIsOwnUnlessBehind, Full

LEMMA WritePipeKeeps == ASSUME IInv, WritePipe PROVE IInv'
  <1>1. TypeOK'
    BY BoundAssumption DEF WritePipe, IInv, TypeOK, serialVars, Behind, Full, No
  <1>2. LinkInv'
    <2> USE DEF WritePipe, IInv, LinkInv, TypeOK, No
    <2>1. Order'
      BY DEF Order
    <2>2. NextAnswer'
      BY DEF NextAnswer, Order, Behind, Full
    <2>3. Distance'
      BY DEF Distance, Allowance, Full
    <2>4. AnswerIsOwnUnlessBehind'
      BY DEF AnswerIsOwnUnlessBehind
    <2> QED BY <2>1, <2>2, <2>3, <2>4
  <1> QED BY <1>1, <1>2, LinkOnly DEF IInv, WritePipe

LEMMA ReadPacketKeeps == ASSUME IInv, ReadPacket PROVE IInv'
  <1>1. TypeOK'
    BY BoundAssumption DEF ReadPacket, IInv, TypeOK, serialVars, No
  <1>2. LinkInv'
    BY DEF ReadPacket, IInv, LinkInv, TypeOK, No, Order, NextAnswer, Distance, Allowance,
           Full, AnswerIsOwnUnlessBehind
  <1> QED BY <1>1, <1>2, LinkOnly DEF IInv, ReadPacket

LEMMA WritePacketKeeps == ASSUME IInv, WritePacket PROVE IInv'
  <1>1. TypeOK'
    BY BoundAssumption DEF WritePacket, IInv, TypeOK, serialVars, No
  <1>2. LinkInv'
    BY DEF WritePacket, IInv, LinkInv, TypeOK, No, Order, NextAnswer, Distance, Allowance,
           Full, AnswerIsOwnUnlessBehind
  <1> QED BY <1>1, <1>2, LinkOnly DEF IInv, WritePacket

LEMMA ReadPipeKeeps == ASSUME IInv, ReadPipe PROVE IInv'
  <1>1. TypeOK'
    BY BoundAssumption DEF ReadPipe, IInv, TypeOK, serialVars, No
  <1>2. LinkInv'
    BY DEF ReadPipe, IInv, LinkInv, TypeOK, No, Order, NextAnswer, Distance, Allowance,
           Full, AnswerIsOwnUnlessBehind
  <1> QED BY <1>1, <1>2, LinkOnly DEF IInv, ReadPipe

LEMMA RestartServerKeeps == ASSUME IInv, RestartServer PROVE IInv'
  <1>1. TypeOK'
    BY BoundAssumption DEF RestartServer, IInv, TypeOK, serialVars, No
  <1>2. LinkInv'
    BY DEF RestartServer, IInv, LinkInv, TypeOK, No, Order, NextAnswer, Distance,
           Allowance, Full, AnswerIsOwnUnlessBehind
  <1> QED BY <1>1, <1>2, LinkOnly DEF IInv, RestartServer

(* A bus reset takes both transmit buffers away. *)
LEMMA BusResetKeeps == ASSUME IInv, BusReset PROVE IInv'
  <1>1. /\ mute' \in BOOLEAN
        /\ ~mute' => ~mute /\ serial = No
    BY DEF BusReset, IInv, TypeOK
  <1>2. /\ serial' = No
        /\ UNCHANGED <<allowUsbTransfer, svc, left, chunk, complete, starts, overlaps, lost>>
    BY DEF BusReset
  <1>3. TypeOK'
    <2>1. configured' \in BOOLEAN
      BY DEF BusReset
    <2>2. {out', frame', in', got'} \subseteq 0 .. MaxSent /\ host' \in {"idle", "reading"}
      BY BoundAssumption DEF BusReset, IInv, TypeOK, No
    <2>3. UNCHANGED <<sent, first, lag, usbInitialized>>
      BY DEF BusReset
    <2> QED BY <1>1, <1>2, <2>1, <2>2, <2>3, BoundAssumption DEF IInv, TypeOK, No
  <1>4. LinkInv'
    BY DEF BusReset, IInv, LinkInv, TypeOK, No, Order, NextAnswer, Distance, Allowance,
           Full, AnswerIsOwnUnlessBehind
  <1>5. Counters' /\ Permissions' /\ LostOnlyByRestart'
    BY <1>2 DEF IInv, SerialInv, TypeOK, No, Counters, Permissions, LostOnlyByRestart,
                Permits, One, Full
  <1>6. PrintingIsNotLockedOut'
    BY <1>1, <1>2 DEF IInv, SerialInv, PrintingIsNotLockedOut
  <1> QED BY <1>3, <1>4, <1>5, <1>6 DEF IInv, SerialInv

LEMMA SetConfigKeeps == ASSUME IInv, SetConfig PROVE IInv'
  <1>1. /\ mute' \in BOOLEAN
        /\ ~mute' => ~mute /\ serial = No
    BY DEF SetConfig, IInv, TypeOK
  <1>2. /\ serial' = No
        /\ UNCHANGED <<allowUsbTransfer, svc, left, chunk, complete, starts, overlaps, lost>>
    BY DEF SetConfig
  <1>3. TypeOK'
    <2>1. configured' \in BOOLEAN
      BY DEF SetConfig
    <2>2. {out', frame', in', got'} \subseteq 0 .. MaxSent /\ host' \in {"idle", "reading"}
      BY BoundAssumption DEF SetConfig, IInv, TypeOK, No
    <2>3. UNCHANGED <<sent, first, lag, usbInitialized>>
      BY DEF SetConfig
    <2> QED BY <1>1, <1>2, <2>1, <2>2, <2>3, BoundAssumption DEF IInv, TypeOK, No
  <1>4. LinkInv'
    BY DEF SetConfig, IInv, LinkInv, TypeOK, No, Order, NextAnswer, Distance, Allowance,
           Full, AnswerIsOwnUnlessBehind
  <1>5. Counters' /\ Permissions' /\ LostOnlyByRestart'
    BY <1>2 DEF IInv, SerialInv, TypeOK, No, Counters, Permissions, LostOnlyByRestart,
                Permits, One, Full
  <1>6. PrintingIsNotLockedOut'
    BY <1>1, <1>2 DEF IInv, SerialInv, PrintingIsNotLockedOut
  <1> QED BY <1>3, <1>4, <1>5, <1>6 DEF IInv, SerialInv

LEMMA SvcBeginKeeps ==
    ASSUME IInv, NEW n \in 1 .. MaxMessage, SvcBegin(n)
    PROVE  IInv'
  <1>1. TypeOK'
    BY BoundAssumption DEF SvcBegin, IInv, TypeOK, linkVars
  <1>2. SerialInv'
    BY BoundAssumption
    DEF SvcBegin, Svc, IInv, SerialInv, TypeOK, Counters, Permissions,
        LostOnlyByRestart, PrintingIsNotLockedOut, Permits, One, Full
  <1> QED BY <1>1, <1>2, SerialOnly DEF IInv, SvcBegin

LEMMA SvcStepKeeps == ASSUME IInv, SvcStep PROVE IInv'
  <1> USE DEF IInv, SerialInv, Svc, Counters, Permissions, LostOnlyByRestart,
              PrintingIsNotLockedOut, Permits, One, Full
  <1>1. CASE SvcAllowed
    <2>1. TypeOK'
      BY <1>1 DEF SvcAllowed, TypeOK, linkVars
    <2>2. SerialInv'
      BY <1>1 DEF SvcAllowed, TypeOK
    <2> QED BY <1>1, <2>1, <2>2, SerialOnly DEF SvcAllowed
  <1>2. CASE SvcGivesUp
    <2>1. TypeOK'
      BY <1>2, BoundAssumption DEF SvcGivesUp, TypeOK, linkVars
    <2>2. SerialInv'
      BY <1>2 DEF SvcGivesUp, TypeOK
    <2> QED BY <1>2, <2>1, <2>2, SerialOnly DEF SvcGivesUp
  <1>3. CASE SvcClear
    <2>1. TypeOK'
      BY <1>3 DEF SvcClear, TypeOK, linkVars
    <2>2. SerialInv'
      BY <1>3 DEF SvcClear, TypeOK
    <2> QED BY <1>3, <2>1, <2>2, SerialOnly DEF SvcClear
  <1>4. CASE SvcWrite
    <2>1. TypeOK'
      BY <1>4, BoundAssumption DEF SvcWrite, TypeOK, linkVars, No
    <2>2. SerialInv'
      BY <1>4 DEF SvcWrite, TypeOK, No
    <2> QED BY <1>4, <2>1, <2>2, SerialOnly DEF SvcWrite
  <1> QED BY <1>1, <1>2, <1>3, <1>4 DEF SvcStep

LEMMA ReadSerialKeeps == ASSUME IInv, ReadSerial PROVE IInv'
  <1>1. TypeOK'
    BY BoundAssumption DEF ReadSerial, IInv, TypeOK, linkVars, No
  <1>2. SerialInv'
    BY DEF ReadSerial, IInv, SerialInv, TypeOK, No, Counters, Permissions,
           LostOnlyByRestart, PrintingIsNotLockedOut, Permits, One, Full
  <1> QED BY <1>1, <1>2, SerialOnly DEF IInv, ReadSerial

LEMMA UsbSerialDataInKeeps == ASSUME IInv, UsbSerialDataIn PROVE IInv'
  <1>1. TypeOK'
    BY BoundAssumption DEF UsbSerialDataIn, IInv, TypeOK, linkVars
  <1>2. SerialInv'
    BY DEF UsbSerialDataIn, IInv, SerialInv, TypeOK, Counters, Permissions,
           LostOnlyByRestart, PrintingIsNotLockedOut, Permits, One, Full
  <1> QED BY <1>1, <1>2, SerialOnly DEF IInv, UsbSerialDataIn

(* It counts an overlap whenever another chunk still holds a permission.   *)
LEMMA StartFirmwareKeeps == ASSUME IInv, StartFirmware PROVE IInv'
  <1>1. TypeOK'
    <2>1. allowUsbTransfer' \in BOOLEAN /\ mute' \in BOOLEAN
      BY DEF StartFirmware
    <2>2. starts' \in 0 .. MaxStarts /\ overlaps' \in 0 .. MaxStarts
      BY BoundAssumption DEF StartFirmware, IInv, TypeOK, SerialInv, Counters
    <2> QED BY <2>1, <2>2 DEF StartFirmware, IInv, TypeOK, linkVars
  <1>2. SerialInv'
    BY DEF StartFirmware, Svc, IInv, SerialInv, TypeOK, No, Counters, Permissions,
           LostOnlyByRestart, PrintingIsNotLockedOut, Permits, One, Full
  <1> QED BY <1>1, <1>2, SerialOnly DEF IInv, StartFirmware

---------------------------------------------------------------------------
(* The inductive invariant holds in every reachable state. *)
THEOREM Invariance == Spec => []IInv
  <1>1. IInv /\ [Next]_vars => IInv'
    <2> SUFFICES ASSUME IInv, [Next]_vars PROVE IInv'
      OBVIOUS
    <2>1. CASE UNCHANGED vars
      <3>1. UNCHANGED linkVars /\ UNCHANGED serialVars /\ UNCHANGED configured
        BY <2>1 DEF vars
      <3>2. TypeOK'
        BY <2>1 DEF vars, linkVars, serialVars, IInv, TypeOK
      <3> QED BY <3>1, <3>2, LinkOnly, SerialOnly DEF IInv
    <2>2. CASE UsbInterrupt
      BY <2>2, ReadPacketKeeps, WritePacketKeeps, UsbSerialDataInKeeps DEF UsbInterrupt
    <2>3. CASE WritePipe \/ ReadPipe \/ RestartServer \/ BusReset \/ SetConfig
      BY <2>3, WritePipeKeeps, ReadPipeKeeps, RestartServerKeeps, BusResetKeeps,
         SetConfigKeeps
    <2>4. CASE (\E n \in 1 .. MaxMessage : SvcBegin(n)) \/ SvcStep \/ ReadSerial
               \/ StartFirmware
      BY <2>4, SvcBeginKeeps, SvcStepKeeps, ReadSerialKeeps, StartFirmwareKeeps
    <2> QED BY <2>1, <2>2, <2>3, <2>4 DEF Next
  <1> QED BY <1>1, Initially, PTL DEF Spec

(* The types of the two endpoints' state; in it, that no more than two     *)
(* answers are ever in front of a command's own.                           *)
THEOREM TypeCorrect == Spec => []TypeOK
  <1>1. IInv => TypeOK
    BY DEF IInv
  <1> QED BY <1>1, Invariance, PTL

(* sendAndReceive returns the answer of its own command exactly if nothing *)
(* was on its way when it was sent, and of this server's commands none     *)
(* that is more than two back.                                             *)
THEOREM AnswerIsOwnUnlessBehindAlways == Spec => []AnswerIsOwnUnlessBehind
  <1>1. IInv => AnswerIsOwnUnlessBehind
    BY DEF IInv, LinkInv
  <1> QED BY <1>1, Invariance, PTL

(* A chunk is lost on a full buffer only for a restart of the firmware     *)
(* over a chunk that nobody had read.                                      *)
THEOREM LostOnlyByRestartAlways == Spec => []LostOnlyByRestart
  <1>1. IInv => LostOnlyByRestart
    BY DEF IInv, SerialInv
  <1> QED BY <1>1, Invariance, PTL

(* Without a bus reset, the permission to print is never lost for good.    *)
THEOREM PrintingIsNotLockedOutAlways == Spec => []PrintingIsNotLockedOut
  <1>1. IInv => PrintingIsNotLockedOut
    BY DEF IInv, SerialInv
  <1> QED BY <1>1, Invariance, PTL

(* Only the start of a server over unread answers lets it fall behind.     *)
THEOREM BehindOnlyByRestartAlways == Spec => BehindOnlyByRestart
  <1>1. IInv /\ [Next]_vars =>
          [Behind' > Behind => first' # first \/ ~configured']_vars
    <2> SUFFICES ASSUME IInv, Next, Behind' > Behind, first' = first, configured'
                 PROVE  FALSE
      OBVIOUS
    <2> DEFINE Packets == Full(out) + Full(frame) + Full(in)
               Reading == IF host = "reading" THEN 1 ELSE 0
    <2>0. /\ Full(out) \in 0 .. 1 /\ Full(frame) \in 0 .. 1 /\ Full(in) \in 0 .. 1
          /\ Full(out)' \in 0 .. 1 /\ Full(frame)' \in 0 .. 1 /\ Full(in)' \in 0 .. 1
          /\ sent \in Nat
          /\ Behind = Packets - Reading /\ Behind' = Packets' - Reading'
      BY DEF Full, Behind, IInv, TypeOK
    <2> USE DEF Full, No
    <2>1. CASE UNCHANGED linkVars
      BY <2>1 DEF linkVars, Behind
    <2>2. CASE WritePipe
      BY <2>0, <2>2 DEF WritePipe
    <2>3. CASE ReadPipe
      BY <2>0, <2>3 DEF ReadPipe
    <2>4. CASE ReadPacket
      BY <2>0, <2>4 DEF ReadPacket
    <2>6. CASE WritePacket
      BY <2>0, <2>6 DEF WritePacket
    <2>7. CASE RestartServer
      BY <2>0, <2>7 DEF RestartServer, IInv, LinkInv, NextAnswer, TypeOK
    <2>8. CASE BusReset \/ SetConfig
      BY <2>0, <2>8 DEF BusReset, SetConfig
    <2>5. WritePipe \/ ReadPipe \/ ReadPacket \/ WritePacket \/ RestartServer
          \/ BusReset \/ SetConfig \/ UNCHANGED linkVars
      BY DEF Next, UsbInterrupt, UsbSerialDataIn, SvcBegin, SvcStep, SvcAllowed,
             SvcGivesUp, SvcClear, SvcWrite, ReadSerial, StartFirmware
    <2> QED BY <2>1, <2>2, <2>3, <2>4, <2>5, <2>6, <2>7, <2>8
  <1> QED BY <1>1, Invariance, PTL DEF Spec, BehindOnlyByRestart

---------------------------------------------------------------------------
(* A place holds a packet or none. *)
LEMMA PartIsSequence ==
    ASSUME NEW packet \in Nat
    PROVE  /\ Part(packet) \in Seq(Nat) /\ Len(Part(packet)) <= 1
           /\ packet = No => Part(packet) = <<>>
           /\ packet # No => Part(packet) = <<packet>> /\ Part(packet) # <<>>
  BY DEF Part

(* Taking the oldest answer leaves the others as they are. *)
LEMMA OldestFirst ==
    ASSUME NEW e \in Nat, NEW s \in Seq(Nat), NEW t \in Seq(Nat)
    PROVE  /\ <<e>> \o s \o t # <<>>
           /\ Head(<<e>> \o s \o t) = e
           /\ Tail(<<e>> \o s \o t) = s \o t
  <1> DEFINE all == <<e>> \o s \o t
  <1>1. /\ <<e>> \in Seq(Nat) /\ s \o t \in Seq(Nat)
        /\ all = <<e>> \o (s \o t)
    BY ConcatAssociative
  <1>2. /\ all \in Seq(Nat) /\ Len(all) = 1 + Len(s \o t)
        /\ \A i \in 1 .. Len(all) : all[i] = IF i <= 1 THEN e ELSE (s \o t)[i - 1]
    BY <1>1, ConcatProperties
  <1>3. all # <<>> /\ Head(all) = e
    BY <1>1, <1>2, LenProperties
  <1>4. Tail(all) = s \o t
    <2>1. Tail(all) \in Seq(Nat) /\ Len(Tail(all)) = Len(s \o t)
          /\ \A i \in 1 .. Len(Tail(all)) : Tail(all)[i] = (s \o t)[i]
      BY <1>1, <1>2, <1>3, HeadTailProperties, LenProperties
    <2> QED BY <1>1, <2>1, SeqEqual
  <1> QED BY <1>3, <1>4

LEMMA PlacesTyped ==
    ASSUME IInv, IInv'
    PROVE  /\ in \in Nat /\ frame \in Nat /\ out \in Nat /\ sent \in Nat
           /\ in' \in Nat /\ frame' \in Nat /\ out' \in Nat
  BY BoundAssumption DEF IInv, TypeOK

(* The step of the pipe that each action of the link is.                    *)
LEMMA WritePipeSends ==
    ASSUME IInv, IInv', WritePipe
    PROVE  Pipe!Send
  <1> DEFINE before == Part(in) \o Part(frame)
  <1>1. before \in Seq(Nat) /\ Len(before) <= 2 /\ sent + 1 \in Nat
    <2>1. /\ Part(in) \in Seq(Nat) /\ Len(Part(in)) <= 1
          /\ Part(frame) \in Seq(Nat) /\ Len(Part(frame)) <= 1
          /\ sent \in Nat
      BY PlacesTyped, PartIsSequence
    <2> QED BY <2>1, ConcatProperties, LenProperties
  <1>2. Unread = before
    <2>1. Unread = before \o <<>>
      BY DEF WritePipe, Unread, Part
    <2> QED BY <1>1, <2>1, ConcatEmptySeq
  <1>3. Unread' = before \o <<sent + 1>>
    BY PlacesTyped DEF WritePipe, Unread, Part, No
  <1>4. Unread' = Append(Unread, sent + 1) /\ Len(Unread) <= 2
    BY <1>1, <1>2, <1>3, AppendIsConcat
  <1> QED BY <1>4 DEF WritePipe, Pipe!Send, Pipe!No, No

LEMMA ReadPipeReceives ==
    ASSUME IInv, IInv', ReadPipe
    PROVE  Pipe!Receive
  <1>1. Part(frame) \in Seq(Nat) /\ Part(out) \in Seq(Nat) /\ in \in Nat
    BY PlacesTyped, PartIsSequence
  <1>2. Unread = <<in>> \o Part(frame) \o Part(out)
    BY DEF ReadPipe, Unread, Part
  <1>3. Unread' = <<>> \o Part(frame) \o Part(out)
    BY DEF ReadPipe, Unread, Part
  <1>4. Unread' = Part(frame) \o Part(out)
    BY <1>1, <1>3, ConcatEmptySeq
  <1>5. Unread # <<>> /\ in = Head(Unread) /\ Unread' = Tail(Unread)
    BY <1>1, <1>2, <1>4, OldestFirst
  <1> QED BY <1>5 DEF ReadPipe, Pipe!Receive

LEMMA ReadPacketStutters ==
    ASSUME IInv, IInv', ReadPacket
    PROVE  UNCHANGED Pipe!vars
  <1>1. Part(in) \in Seq(Nat) /\ Part(out) \in Seq(Nat)
    BY PlacesTyped, PartIsSequence
  <1>2. /\ Unread = Part(in) \o <<>> \o Part(out)
        /\ Unread' = Part(in) \o Part(out) \o <<>>
    BY DEF ReadPacket, Unread, Part, No
  <1>3. Unread' = Unread
    BY <1>1, <1>2, ConcatEmptySeq, ConcatProperties
  <1> QED BY <1>3 DEF ReadPacket, Pipe!vars

(* usbd_ep_write_packet drops an answer exactly when an older one is there. *)
LEMMA WritePacketDrops ==
    ASSUME IInv, IInv', WritePacket
    PROVE  IF in = No THEN UNCHANGED Pipe!vars ELSE Pipe!Drop
  <1>1. Part(frame) \in Seq(Nat) /\ Part(out) \in Seq(Nat) /\ <<>> \in Seq(Nat)
        /\ in \in Nat /\ frame \in Nat
    BY PlacesTyped, PartIsSequence
  <1>2. CASE in = No
    <2>1. /\ Unread = <<>> \o Part(frame) \o Part(out)
          /\ Unread' = Part(frame) \o <<>> \o Part(out)
      BY <1>2 DEF WritePacket, Unread, Part, No
    <2>2. Unread' = Unread
      BY <1>1, <2>1, ConcatEmptySeq
    <2> QED BY <1>2, <2>2 DEF WritePacket, Pipe!vars
  <1>3. CASE in # No
    <2>1. /\ Unread = <<in>> \o <<frame>> \o Part(out)
          /\ Unread' = <<in>> \o <<>> \o Part(out)
      BY <1>3 DEF WritePacket, Unread, Part, No
    <2>2. /\ Head(Unread) = in /\ Tail(Unread) = <<frame>> \o Part(out)
          /\ Unread' = <<in>> \o Part(out)
      BY <1>1, <2>1, OldestFirst, ConcatEmptySeq
    <2>3. Tail(Unread) = <<frame>> \o <<>> \o Part(out)
      <3>1. <<frame>> \in Seq(Nat)
        BY <1>1
      <3>2. <<frame>> \o <<>> = <<frame>>
        BY <3>1, ConcatEmptySeq
      <3> QED BY <2>2, <3>2
    <2>4. Tail(Tail(Unread)) = Part(out)
      <3>1. Tail(<<frame>> \o <<>> \o Part(out)) = <<>> \o Part(out)
        BY <1>1, OldestFirst
      <3> QED BY <1>1, <2>3, <3>1, ConcatEmptySeq
    <2>5. Len(Unread) >= 2
      <3>1. <<in>> \in Seq(Nat) /\ <<frame>> \in Seq(Nat) /\ Len(<<in>>) = 1
            /\ Len(<<frame>>) = 1
        BY <1>1
      <3>2. Len(<<in>> \o <<frame>>) = 2 /\ <<in>> \o <<frame>> \in Seq(Nat)
        BY <3>1, ConcatProperties
      <3> QED BY <1>1, <2>1, <3>2, ConcatProperties, LenProperties
    <2>6. Unread' = <<Head(Unread)>> \o Tail(Tail(Unread))
      BY <2>2, <2>4
    <2> QED BY <1>3, <2>5, <2>6 DEF WritePacket, Pipe!Drop
  <1> QED BY <1>2, <1>3

LEMMA BusResetResets ==
    ASSUME IInv, IInv', BusReset
    PROVE  Pipe!Reset
  <1>1. Part(out) \in Seq(Nat) /\ in \in Nat /\ <<>> \in Seq(Nat)
    BY PlacesTyped, PartIsSequence
  <1>2. /\ Unread = Part(in) \o <<>> \o Part(out)
        /\ Unread' = <<>> \o <<>> \o Part(out)
    BY DEF BusReset, Unread, Part, No
  <1>3. in = No => Unread' = Unread
    BY <1>2 DEF Part
  <1>4. in # No => Unread # <<>> /\ Unread' = Tail(Unread)
    <2> SUFFICES ASSUME in # No PROVE Unread # <<>> /\ Unread' = Tail(Unread)
      OBVIOUS
    <2>1. Unread = <<in>> \o <<>> \o Part(out)
      BY <1>2 DEF Part
    <2> QED BY <1>1, <1>2, <2>1, OldestFirst
  <1> QED BY <1>3, <1>4 DEF BusReset, Pipe!Reset, Pipe!No, No

LEMMA SetConfigConfigures ==
    ASSUME IInv, IInv', SetConfig
    PROVE  Pipe!Configure
  <1>1. Unread' = <<>> \o <<>> \o <<>>
    BY DEF SetConfig, Unread, Part, No
  <1>2. Unread' = <<>>
    BY <1>1, ConcatEmptySeq, EmptySeq
  <1> QED BY <1>2 DEF SetConfig, Pipe!Configure

(* Everything on endpoint 2. *)
LEMMA OthersStutter ==
    ASSUME UNCHANGED linkVars, UNCHANGED configured
    PROVE  UNCHANGED Pipe!vars
  BY DEF linkVars, Unread, Pipe!vars

(* For the server endpoint 1 is a pipe that keeps the order of the answers  *)
(* and never drops the oldest of them, wherever the packets are.            *)
THEOREM LinkImplementsPipe == Spec => ImplementsPipe
  <1>1. Init => Pipe!Init
    <2> SUFFICES ASSUME Init PROVE Pipe!Init
      OBVIOUS
    <2>1. Unread = <<>> \o <<>> \o <<>>
      BY DEF Init, Unread, Part
    <2>2. Unread = <<>>
      BY <2>1, ConcatEmptySeq, EmptySeq
    <2> QED BY <2>2 DEF Init, Pipe!Init, Pipe!No, No
  <1>2. IInv /\ IInv' /\ [Next]_vars => [Pipe!Next]_Pipe!vars
    <2> SUFFICES ASSUME IInv, IInv', [Next]_vars PROVE Pipe!Next \/ UNCHANGED Pipe!vars
      BY DEF Pipe!vars
    <2>1. CASE WritePipe
      BY <2>1, WritePipeSends DEF Pipe!Next
    <2>2. CASE ReadPipe
      BY <2>2, ReadPipeReceives DEF Pipe!Next
    <2>3. CASE ReadPacket
      BY <2>3, ReadPacketStutters
    <2>4. CASE WritePacket
      BY <2>4, WritePacketDrops DEF Pipe!Next
    <2>5. CASE RestartServer
      <3>1. Pipe!Restart
        BY <2>5 DEF RestartServer, Unread, Pipe!Restart, Pipe!No, No
      <3> QED BY <3>1 DEF Pipe!Next
    <2>6. CASE BusReset
      BY <2>6, BusResetResets DEF Pipe!Next
    <2>7. CASE SetConfig
      BY <2>7, SetConfigConfigures DEF Pipe!Next
    <2>8. CASE UNCHANGED linkVars /\ UNCHANGED configured
      BY <2>8, OthersStutter
    <2>9. WritePipe \/ ReadPipe \/ ReadPacket \/ WritePacket \/ RestartServer
          \/ BusReset \/ SetConfig \/ (UNCHANGED linkVars /\ UNCHANGED configured)
      BY DEF Next, UsbInterrupt, UsbSerialDataIn, SvcBegin, SvcStep, SvcAllowed,
             SvcGivesUp, SvcClear, SvcWrite, ReadSerial, StartFirmware, vars
    <2> QED BY <2>1, <2>2, <2>3, <2>4, <2>5, <2>6, <2>7, <2>8, <2>9
  <1> QED BY <1>1, <1>2, Invariance, PTL DEF Spec, Pipe!Spec, ImplementsPipe

(* The safety core of HostIsAnswered: the server that reads, without a      *)
(* timeout, has an answer coming, so that it needs nothing but the          *)
(* interrupt and the polling of its host controller to get it.              *)
AnswerIsOnItsWay == host = "reading" => Unread # <<>>

THEOREM AnswerIsOnItsWayAlways == Spec => []AnswerIsOnItsWay
  <1> DEFINE Somewhere == host = "reading" => in # No \/ frame # No \/ out # No
  <1>1. Init => Somewhere
    BY DEF Init
  <1>2. IInv /\ Somewhere /\ [Next]_vars => Somewhere'
    <2> SUFFICES ASSUME IInv, Somewhere, [Next]_vars PROVE Somewhere'
      OBVIOUS
    <2>1. CASE WritePipe
      BY <2>1 DEF WritePipe, IInv, TypeOK, No
    <2>2. CASE ReadPacket
      BY <2>2 DEF ReadPacket
    <2>3. CASE WritePacket
      BY <2>3 DEF WritePacket
    <2>4. CASE ReadPipe \/ RestartServer \/ BusReset
      BY <2>4 DEF ReadPipe, RestartServer, BusReset
    <2>5. CASE SetConfig
      BY <2>5 DEF SetConfig, IInv, LinkInv, NextAnswer
    <2>6. CASE UNCHANGED linkVars
      BY <2>6 DEF linkVars
    <2> QED BY <2>1, <2>2, <2>3, <2>4, <2>5, <2>6
            DEF Next, UsbInterrupt, UsbSerialDataIn, SvcBegin, SvcStep, SvcAllowed,
                SvcGivesUp, SvcClear, SvcWrite, ReadSerial, StartFirmware, vars
  <1>3. IInv /\ Somewhere => AnswerIsOnItsWay
    <2> SUFFICES ASSUME IInv, Somewhere, host = "reading" PROVE Unread # <<>>
      BY DEF AnswerIsOnItsWay
    <2>1. in \in Nat /\ frame \in Nat /\ out \in Nat
      BY BoundAssumption DEF IInv, TypeOK
    <2>2. Part(in) \in Seq(Nat) /\ Part(frame) \in Seq(Nat) /\ Part(out) \in Seq(Nat)
      BY <2>1, PartIsSequence
    <2>3. Part(in) # <<>> \/ Part(frame) # <<>> \/ Part(out) # <<>>
      BY <2>1, PartIsSequence
    <2>4. Part(in) \o Part(frame) \in Seq(Nat)
      BY <2>2, ConcatProperties
    <2>5. Part(in) \o Part(frame) = <<>> => Part(in) = <<>> /\ Part(frame) = <<>>
      BY <2>2, ConcatEqualIffEmpty
    <2> QED BY <2>2, <2>3, <2>4, <2>5, ConcatEqualIffEmpty DEF Unread
  <1> QED BY <1>1, <1>2, <1>3, Invariance, PTL DEF Spec
=============================================================================

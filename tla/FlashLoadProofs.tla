-------------------------- MODULE FlashLoadProofs ---------------------------
(* Proofs about FlashLoad, for every number of sectors and cells.          *)
EXTENDS FlashLoad, TLAPS

(* While a load writes, the buffer has the sector it has written last; it  *)
(* begins with the one it has found there.                                 *)
BufferInv ==
    /\ at[1] = 0 => at = <<0, 0>>
    /\ phase = "loading" =>
         /\ at[1] = 0 => bufAddr = leftover
         /\ at[1] # 0 => bufAddr = at[1] /\ erased = covered /\ at[1] \in covered
    /\ phase = "done" => bufAddr = NoSector

(* GDB writes in ascending order: nothing is ahead of the last cell. *)
AheadInv ==
    phase = "loading" => \A s \in covered : s > at[1] => image[s] = Blank

(* A sector in the buffer is still blank in flash, all others are as they  *)
(* are to be, if no command for them has failed.                           *)
FlashInv ==
    phase = "loading" =>
        \A s \in erased \ ({leftover} \cup cut) :
            IF s = bufAddr THEN flash[s] = Blank /\ buf = image[s]
            ELSE flash[s] = image[s]

(* What is still to be erased counts as due or as failed, and nothing of a *)
(* sector whose erase has been carried out is.                             *)
PendingInv ==
    /\ pending \subseteq due \cup cut
    /\ pending \cap erased \subseteq cut
    /\ cut \subseteq covered \cup {leftover}
    /\ phase = "done" => erased = covered

(* The mode survives a load only if that load was broken off. *)
ResetInv ==
    /\ phase = "none" /\ ~brokenOff => ~flashMode
    /\ phase = "done" => ~flashMode
    /\ phase = "loading" /\ ~brokenOff => reset \/ (~flashMode /\ erased = {})
    /\ FirstEraseResets

IInv == /\ TypeOK /\ BufferInv /\ AheadInv /\ FlashInv /\ PendingInv /\ ResetInv
        /\ DoneIsWritten /\ OtherSectorsKept

---------------------------------------------------------------------------
LEMMA BlankType == Blank \in Sector
  BY DEF Blank, Sector, Value

(* What reaches the device has the type of flash, and is in one sector. *)
LEMMA ProgramType ==
  ASSUME TypeOK, NEW s \in Sectors, NEW content \in Sector,
         ProgramSector(s, content)
  PROVE  /\ flash' \in [Sectors -> Sector]
         /\ \A t \in Sectors \ {s} : flash'[t] = flash[t]
         /\ pending' = pending
         /\ cut \subseteq cut' /\ cut' \subseteq cut \cup {s}
  <1>1. PICK first \in Cells, last \in 0 .. LastCell :
          /\ flash' = [flash EXCEPT ![s] =
                         [c \in Cells |-> IF c \in first .. last
                                          THEN Programmed(flash[s][c], content[c])
                                          ELSE flash[s][c]]]
          /\ cut' = IF first .. last = Cells THEN cut ELSE cut \cup {s}
          /\ pending' = pending
    BY DEF ProgramSector
  <1>2. ASSUME NEW c \in Cells
        PROVE  /\ Programmed(flash[s][c], content[c]) \in Value
               /\ flash[s][c] \in Value
    BY DEF TypeOK, Programmed, Sector
  <1>3. flash' \in [Sectors -> Sector]
    BY <1>1, <1>2 DEF TypeOK, Sector
  <1> QED  BY <1>1, <1>3 DEF TypeOK

(* If nothing failed all of it has been programmed, and a blank sector     *)
(* takes it unchanged.                                                     *)
LEMMA ProgramBlank ==
  ASSUME TypeOK, NEW s \in Sectors, NEW content \in Sector,
         ProgramSector(s, content), s \notin cut', flash[s] = Blank
  PROVE  flash'[s] = content
  <1>1. PICK first \in Cells, last \in 0 .. LastCell :
          /\ flash' = [flash EXCEPT ![s] =
                         [c \in Cells |-> IF c \in first .. last
                                          THEN Programmed(flash[s][c], content[c])
                                          ELSE flash[s][c]]]
          /\ cut' = IF first .. last = Cells THEN cut ELSE cut \cup {s}
    BY DEF ProgramSector
  <1>2. first .. last = Cells
    BY <1>1
  <1>3. flash'[s] = [c \in Cells |-> IF c \in first .. last
                                     THEN Programmed(flash[s][c], content[c])
                                     ELSE flash[s][c]]
    BY <1>1 DEF TypeOK
  <1>4. ASSUME NEW c \in Cells
        PROVE  c \in first .. last /\ Programmed(flash[s][c], content[c]) = content[c]
    BY <1>2 DEF Blank, Programmed
  <1>5. flash'[s] = [c \in Cells |-> content[c]]
    BY <1>3, <1>4
  <1> QED  BY <1>5 DEF Sector

(* Flushing during a load finishes the buffered sector, unless it was      *)
(* there when the load began or a packet fails, and leaves all others      *)
(* alone.                                                                  *)
LEMMA FlushStep ==
  ASSUME TypeOK, FlashInv, phase = "loading", Flush
  PROVE  /\ flash' \in [Sectors -> Sector]
         /\ pending' = pending
         /\ cut \subseteq cut' /\ cut' \subseteq cut \cup ({bufAddr} \cap Sectors)
         /\ \A t \in Sectors : t # bufAddr => flash'[t] = flash[t]
         /\ bufAddr \in erased \ ({leftover} \cup cut') =>
              flash'[bufAddr] = image[bufAddr]
<1>1. CASE bufAddr = NoSector
  <2>1. bufAddr \notin erased
    BY <1>1 DEF TypeOK, NoSector, Sectors
  <2>2. QED
    BY <1>1, <2>1 DEF Flush, TypeOK, deviceVars
<1>2. CASE bufAddr # NoSector
  <2>1. bufAddr \in Sectors /\ buf \in Sector /\ ProgramSector(bufAddr, buf)
    BY <1>2 DEF TypeOK, Flush
  <2>2. cut \subseteq cut'
    BY <2>1, ProgramType
  <2>3. ASSUME bufAddr \in erased \ ({leftover} \cup cut')
        PROVE  flash'[bufAddr] = image[bufAddr]
    <3>1. flash[bufAddr] = Blank /\ buf = image[bufAddr]
      BY <2>2, <2>3 DEF FlashInv
    <3>2. QED
      BY <2>1, <2>3, <3>1, ProgramBlank
  <2>4. QED
    BY <2>1, <2>3, ProgramType
<1>3. QED
  BY <1>1, <1>2

---------------------------------------------------------------------------
LEMMA InitIInv == Init => IInv
<1> SUFFICES ASSUME Init
             PROVE  IInv
  OBVIOUS
<1>2. TypeOK
  <2>1. /\ flash \in [Sectors -> Sector] /\ image \in [Sectors -> Sector]
        /\ buf \in Sector
    BY BlankType DEF Init
  <2>2. /\ flashMode \in BOOLEAN /\ reset \in BOOLEAN
        /\ brokenOff \in BOOLEAN /\ phase \in {"none", "loading", "done"}
    BY DEF Init
  <2>3. QED
    BY <2>1, <2>2 DEF Init, TypeOK
<1>3. BufferInv /\ OtherSectorsKept /\ PendingInv
  BY DEF Init, BufferInv, OtherSectorsKept, PendingInv
<1>4. AheadInv /\ FlashInv /\ DoneIsWritten /\ ResetInv
  BY DEF Init, AheadInv, FlashInv, DoneIsWritten, ResetInv, FirstEraseResets
<1>5. QED
  BY <1>2, <1>3, <1>4 DEF IInv

(* One step per action of FlashLoad.                                       *)
LEMMA StartLoadIInv ==
  ASSUME IInv, NEW S \in SUBSET Sectors, StartLoad(S)
  PROVE  IInv'
<1>1. image' \in [Sectors -> Sector]
  BY BlankType DEF StartLoad, IInv, TypeOK
<1>2. TypeOK'
  BY <1>1 DEF StartLoad, IInv, TypeOK, serverVars
<1>3. BufferInv'
  BY DEF StartLoad, BufferInv, serverVars
<1>4. AheadInv'
  BY DEF StartLoad, AheadInv
<1>5. FlashInv' /\ DoneIsWritten' /\ PendingInv'
  BY DEF StartLoad, FlashInv, DoneIsWritten, PendingInv
<1>6. ResetInv'
  BY DEF StartLoad, IInv, TypeOK, ResetInv, FirstEraseResets, serverVars
<1>7. OtherSectorsKept'
  BY DEF StartLoad, OtherSectorsKept
<1>8. QED
  BY <1>2, <1>3, <1>4, <1>5, <1>6, <1>7 DEF IInv

LEMMA FlashEraseIInv ==
  ASSUME IInv, NEW a \in Sectors, NEW b \in Sectors, a <= b, FlashErase(a, b)
  PROVE  IInv'
<1> DEFINE asked == pending \cup (a .. b)
(* A command that is lost or waits erases nothing. *)
<1>1. PICK E \in SUBSET asked :
        /\ Erase(E)
        /\ pending' = {} \/ (pending' \subseteq asked /\ E = {})
        /\ cut' = (cut \cup (a .. b)) \ E
  <2>1. CASE \E E \in SUBSET asked : /\ Erase(E)
                                     /\ pending' = {}
                                     /\ cut' = (cut \cup (a .. b)) \ E
    BY <2>1
  <2>2. CASE /\ UNCHANGED flash
             /\ pending' \in {pending, asked}
             /\ cut' = cut \cup (a .. b)
    <3>1. Erase({})
      BY <2>2 DEF Erase, IInv, TypeOK
    <3>2. QED
      BY <2>2, <3>1
  <2>3. QED
    BY <2>1, <2>2 DEF FlashErase, EraseSectors
<1>2. a \in a .. b /\ a .. b \subseteq covered \ erased
  BY DEF FlashErase, Sectors
<1>3. at = <<0, 0>> /\ at[1] = 0 /\ bufAddr = leftover
  BY <1>2 DEF FlashErase, IInv, TypeOK, BufferInv, Sectors
<1>4. TypeOK'
  <2>1. flash' \in [Sectors -> Sector]
    BY <1>1, BlankType DEF Erase, IInv, TypeOK
  <2>2. reset' \in BOOLEAN /\ erased' \subseteq covered'
        /\ pending' \subseteq Sectors /\ cut' \subseteq Sectors
    BY <1>1, <1>2 DEF FlashErase, IInv, TypeOK
  <2>3. QED
    BY <2>1, <2>2 DEF FlashErase, IInv, TypeOK
<1>5. BufferInv'
  BY <1>3 DEF FlashErase, BufferInv, IInv
<1>6. AheadInv'
  BY DEF FlashErase, AheadInv, IInv
<1>7. FlashInv'
  <2>1. SUFFICES ASSUME NEW s \in erased' \ ({leftover} \cup cut')
                 PROVE  s # bufAddr /\ flash'[s] = image[s]
    BY DEF FlashErase, FlashInv
  <2>2. s # bufAddr /\ s \in Sectors /\ s \in covered /\ s > at[1]
    BY <1>2, <1>3 DEF FlashErase, IInv, TypeOK, Sectors
  <2>3. flash'[s] = IF s \in E THEN Blank ELSE flash[s]
    BY <1>1, <2>2 DEF Erase
  <2>4. image[s] = Blank
    BY <2>2 DEF FlashErase, IInv, AheadInv
  <2>5. s \notin E => flash[s] = image[s]
    BY <1>1, <2>1, <2>2 DEF FlashErase, IInv, FlashInv
  <2>6. QED
    BY <2>2, <2>3, <2>4, <2>5
<1>8. ResetInv'
  <2>1. phase = "loading" /\ phase' = "loading"
    BY DEF FlashErase
  <2>2. brokenOff' = brokenOff /\ reset' = (reset \/ ~flashMode)
    BY DEF FlashErase
  <2>3. ~brokenOff => reset \/ ~flashMode
    BY <2>1 DEF IInv, ResetInv
  <2>4. ~brokenOff' => reset'
    BY <2>2, <2>3
  <2>5. QED
    BY <2>1, <2>4 DEF ResetInv, FirstEraseResets
<1>9. DoneIsWritten'
  BY DEF FlashErase, DoneIsWritten
<1>10. OtherSectorsKept'
  <2>1. SUFFICES ASSUME NEW s \in Sectors \ (covered \cup {leftover} \cup due)
                 PROVE  flash'[s] = image[s]
    BY DEF FlashErase, OtherSectorsKept
  <2>2. s \notin E
    BY <1>1, <1>2, <2>1 DEF IInv, PendingInv
  <2>3. QED
    BY <1>1, <2>1, <2>2 DEF Erase, IInv, OtherSectorsKept
<1>11. PendingInv'
  <2>1. cut' \subseteq covered' \cup {leftover'}
    BY <1>1, <1>2 DEF FlashErase, IInv, PendingInv
  <2>2. pending' \subseteq due' \cup cut' /\ pending' \cap erased' \subseteq cut'
    <3>1. CASE pending' = {}
      BY <3>1
    <3>2. CASE pending' \subseteq asked /\ E = {}
      BY <1>1, <3>2 DEF FlashErase, IInv, PendingInv
    <3>3. QED
      BY <1>1, <3>1, <3>2
  <2>3. QED
    BY <2>1, <2>2 DEF FlashErase, PendingInv
<1>12. QED
  BY <1>4, <1>5, <1>6, <1>7, <1>8, <1>9, <1>10, <1>11 DEF IInv

LEMMA FlashWriteIInv ==
  ASSUME IInv, NEW s \in Sectors, NEW c \in Cells, NEW v \in Value,
         FlashWrite(s, c, v)
  PROVE  IInv'
<1>1. /\ phase = "loading" /\ phase' = "loading" /\ erased = covered
      /\ s \in covered /\ Ascending(s, c)
      /\ at' = <<s, c>> /\ image' = [image EXCEPT ![s][c] = v]
      /\ bufAddr' = s
      /\ buf' = [(IF s = bufAddr THEN buf ELSE Blank) EXCEPT ![c] = v]
      /\ IF s = bufAddr THEN UNCHANGED deviceVars ELSE Flush
      /\ UNCHANGED <<flashMode, covered, erased, leftover, due, reset, brokenOff>>
  BY DEF FlashWrite, WriteBuffered
<1>2. TypeOK /\ BufferInv /\ AheadInv /\ FlashInv /\ ResetInv
      /\ PendingInv /\ OtherSectorsKept
  BY DEF IInv
<1>3. /\ flash' \in [Sectors -> Sector]
      /\ pending' = pending
      /\ cut \subseteq cut' /\ cut' \subseteq cut \cup ({bufAddr} \cap Sectors)
      /\ \A t \in Sectors : t # bufAddr \/ t = s => flash'[t] = flash[t]
      /\ bufAddr # s /\ bufAddr \in erased \ ({leftover} \cup cut') =>
           flash'[bufAddr] = image[bufAddr]
  <2>1. CASE s = bufAddr
    BY <1>1, <1>2, <2>1 DEF TypeOK, deviceVars
  <2>2. CASE s # bufAddr
    BY <1>1, <1>2, <2>2, FlushStep
  <2>3. QED
    BY <2>1, <2>2
<1>4. TypeOK'
  <2>1. image' \in [Sectors -> Sector] /\ buf' \in Sector
    BY <1>1, <1>2, BlankType DEF TypeOK, Sector
  <2>2. at' \in (Sectors \cup {0}) \X (Cells \cup {0})
    BY <1>1
  <2>3. phase' \in {"none", "loading", "done"}
    BY <1>1
  <2>4. QED
    BY <1>1, <1>2, <1>3, <2>1, <2>2, <2>3 DEF TypeOK
<1>5. s \in Nat /\ s # 0 /\ at[1] \in Nat /\ at'[1] = s
  BY <1>1, <1>2 DEF Sectors, TypeOK
<1>6. BufferInv'
  BY <1>1, <1>5 DEF BufferInv
(* The cell is ahead of the last one, or in the sector that is buffered. *)
<1>7. s >= at[1] /\ (s # bufAddr => s > at[1])
  BY <1>1, <1>2, <1>5 DEF Ascending, BufferInv
<1>8. \A t \in Sectors \ {s} : image'[t] = image[t]
  BY <1>1, <1>2 DEF TypeOK
<1>9. AheadInv'
  <2>1. SUFFICES ASSUME NEW t \in covered, t > s
                 PROVE  image'[t] = Blank
    BY <1>1, <1>5 DEF AheadInv
  <2>2. t \in Sectors \ {s} /\ t > at[1]
    BY <1>2, <1>5, <1>7, <2>1 DEF TypeOK, Sectors
  <2>3. QED
    BY <1>1, <1>2, <1>8, <2>1, <2>2 DEF AheadInv
<1>10. FlashInv'
  <2>1. SUFFICES ASSUME NEW t \in erased \ ({leftover} \cup cut')
                 PROVE  IF t = s THEN flash'[t] = Blank /\ buf' = image'[t]
                        ELSE flash'[t] = image'[t]
    BY <1>1 DEF FlashInv
  <2>2. /\ t \in Sectors
        /\ IF t = bufAddr THEN flash[t] = Blank /\ buf = image[t]
           ELSE flash[t] = image[t]
    BY <1>1, <1>2, <1>3, <2>1 DEF FlashInv, TypeOK
  <2>3. CASE t = s
    <3>1. flash'[s] = flash[s]
      BY <1>3
    <3>2. image'[s] = [image[s] EXCEPT ![c] = v]
      BY <1>1, <1>2 DEF TypeOK
    <3>3. s # bufAddr => image[s] = Blank
      BY <1>1, <1>2, <1>7 DEF AheadInv
    <3>4. QED
      BY <1>1, <2>2, <2>3, <3>1, <3>2, <3>3
  <2>4. CASE t # s
    BY <1>3, <1>8, <2>1, <2>2, <2>4
  <2>5. QED
    BY <2>3, <2>4
<1>11. ResetInv'
  BY <1>1, <1>2 DEF ResetInv, FirstEraseResets
<1>12. DoneIsWritten'
  BY <1>1 DEF DoneIsWritten
<1>13. OtherSectorsKept'
  <2>1. SUFFICES ASSUME NEW t \in Sectors \ (covered \cup {leftover} \cup due)
                 PROVE  flash'[t] = image'[t]
    BY <1>1 DEF OtherSectorsKept
  <2>2. t # s /\ t # bufAddr
    BY <1>1, <1>2, <2>1 DEF BufferInv
  <2>3. QED
    BY <1>2, <1>3, <1>8, <2>1, <2>2 DEF OtherSectorsKept
<1>14. PendingInv'
  <2>1. bufAddr \in Sectors => bufAddr \in covered \cup {leftover}
    BY <1>1, <1>2 DEF BufferInv
  <2>2. QED
    BY <1>1, <1>2, <1>3, <2>1 DEF PendingInv
<1>15. QED
  BY <1>4, <1>6, <1>9, <1>10, <1>11, <1>12, <1>13, <1>14 DEF IInv

LEMMA FlashDoneIInv ==
  ASSUME IInv, FlashDone
  PROVE  IInv'
<1>1. /\ phase = "loading" /\ phase' = "done" /\ at # <<0, 0>>
      /\ Flush /\ bufAddr' = NoSector /\ flashMode' = FALSE
      /\ UNCHANGED <<buf, covered, erased, at, image, leftover, due, reset,
                     brokenOff>>
  BY DEF FlashDone, DoneBuffered
<1>2. /\ TypeOK /\ BufferInv /\ FlashInv /\ ResetInv /\ PendingInv
      /\ OtherSectorsKept
  BY DEF IInv
<1>3. /\ flash' \in [Sectors -> Sector]
      /\ pending' = pending
      /\ cut \subseteq cut' /\ cut' \subseteq cut \cup ({bufAddr} \cap Sectors)
      /\ \A t \in Sectors : t # bufAddr => flash'[t] = flash[t]
      /\ bufAddr \in erased \ ({leftover} \cup cut') =>
           flash'[bufAddr] = image[bufAddr]
  BY <1>1, <1>2, FlushStep
<1>4. bufAddr = at[1] /\ erased = covered /\ bufAddr \in covered
  BY <1>1, <1>2 DEF BufferInv
<1>5. TypeOK'
  <2>1. flashMode' \in BOOLEAN /\ phase' \in {"none", "loading", "done"}
    BY <1>1
  <2>2. QED
    BY <1>1, <1>2, <1>3, <2>1 DEF TypeOK
<1>6. BufferInv' /\ AheadInv' /\ FlashInv' /\ PendingInv'
  BY <1>1, <1>2, <1>3, <1>4 DEF BufferInv, AheadInv, FlashInv, PendingInv
<1>7. ResetInv'
  BY <1>1, <1>2 DEF ResetInv, FirstEraseResets
<1>8. OtherSectorsKept'
  BY <1>1, <1>2, <1>3, <1>4 DEF OtherSectorsKept
<1>9. DoneIsWritten'
  <2>1. SUFFICES ASSUME NEW t \in Sectors \ ({leftover} \cup cut' \cup (due \ covered))
                 PROVE  flash'[t] = image[t]
    BY <1>1 DEF DoneIsWritten
  <2>2. CASE t \notin covered
    BY <1>1, <1>2, <1>8, <2>1, <2>2 DEF OtherSectorsKept
  <2>3. CASE t \in covered /\ t = bufAddr
    BY <1>3, <1>4, <2>1, <2>3
  <2>4. CASE t \in covered /\ t # bufAddr
    BY <1>1, <1>2, <1>3, <1>4, <2>1, <2>4 DEF FlashInv
  <2>5. QED
    BY <2>2, <2>3, <2>4
<1>10. QED
  BY <1>5, <1>6, <1>7, <1>8, <1>9 DEF IInv

(* A load that ends otherwise, and a server that is started again.         *)
LEMMA EndIInv ==
  ASSUME IInv, FlashWriteFails \/ BreakOff \/ RestartServer \/ UNCHANGED vars
  PROVE  IInv'
<1>1. CASE UNCHANGED vars
  BY <1>1 DEF vars, deviceVars, serverVars, loadVars, IInv, TypeOK, BufferInv,
              AheadInv, FlashInv, PendingInv, ResetInv, FirstEraseResets,
              DoneIsWritten, OtherSectorsKept
<1>2. CASE FlashWriteFails \/ BreakOff \/ RestartServer
  <2>1. /\ phase' = "none"
        /\ ~brokenOff' => ~flashMode'
        /\ UNCHANGED <<flash, pending, cut, covered, erased, at, image, leftover,
                       due, reset>>
        /\ brokenOff' \in BOOLEAN
        /\ flashMode' \in BOOLEAN
        /\ bufAddr' \in {bufAddr, NoSector} /\ buf' \in {buf, Blank}
    BY <1>2 DEF FlashWriteFails, BreakOff, RestartServer, deviceVars, serverVars,
                IInv, TypeOK
  <2>2. TypeOK'
    BY <2>1, BlankType DEF IInv, TypeOK
  <2>3. BufferInv' /\ AheadInv' /\ FlashInv' /\ DoneIsWritten'
    BY <2>1 DEF IInv, BufferInv, AheadInv, FlashInv, DoneIsWritten
  <2>4. ResetInv' /\ OtherSectorsKept' /\ PendingInv'
    BY <2>1 DEF IInv, ResetInv, FirstEraseResets, OtherSectorsKept, PendingInv
  <2>5. QED
    BY <2>2, <2>3, <2>4 DEF IInv
<1>3. QED
  BY <1>1, <1>2

(* An erase that comes late spoils what is excepted already.               *)
LEMMA LateEraseIInv ==
  ASSUME IInv, LateErase
  PROVE  IInv'
<1>1. PICK E \in SUBSET pending : Erase(E)
  BY DEF LateErase
<1>2. /\ pending' = {}
      /\ UNCHANGED <<cut, bufAddr, buf, flashMode, phase, covered, erased, at,
                     image, leftover, due, reset, brokenOff>>
  BY DEF LateErase, serverVars, loadVars
<1>3. flash' \in [Sectors -> Sector]
      /\ \A s \in Sectors \ pending : flash'[s] = flash[s]
  BY <1>1, BlankType DEF Erase, IInv, TypeOK
<1>4. TypeOK'
  BY <1>2, <1>3 DEF IInv, TypeOK
<1>5. BufferInv' /\ AheadInv' /\ PendingInv' /\ ResetInv'
  BY <1>2 DEF IInv, BufferInv, AheadInv, PendingInv, ResetInv, FirstEraseResets
<1>6. FlashInv'
  <2>1. \A s \in erased \ cut : s \in Sectors \ pending
    BY DEF IInv, TypeOK, PendingInv
  <2>2. QED
    BY <1>2, <1>3, <2>1 DEF IInv, FlashInv
<1>7. DoneIsWritten'
  <2>1. phase = "done" =>
          \A s \in Sectors \ (cut \cup (due \ covered)) : s \notin pending
    BY DEF IInv, PendingInv
  <2>2. QED
    BY <1>2, <1>3, <2>1 DEF IInv, DoneIsWritten
<1>8. OtherSectorsKept'
  <2>1. \A s \in Sectors \ (covered \cup {leftover} \cup due) : s \notin pending
    BY DEF IInv, PendingInv
  <2>2. QED
    BY <1>2, <1>3, <2>1 DEF IInv, OtherSectorsKept
<1>9. QED
  BY <1>4, <1>5, <1>6, <1>7, <1>8 DEF IInv

---------------------------------------------------------------------------
LEMMA NextIInv == IInv /\ [Next]_vars => IInv'
<1> SUFFICES ASSUME IInv, [Next]_vars
             PROVE  IInv'
  OBVIOUS
<1>1. ASSUME NEW S \in SUBSET Sectors \ {{}}, StartLoad(S)
      PROVE  IInv'
  BY <1>1, StartLoadIInv
<1>2. ASSUME NEW a \in Sectors, NEW b \in Sectors, a <= b, FlashErase(a, b)
      PROVE  IInv'
  BY <1>2, FlashEraseIInv
<1>3. ASSUME NEW s \in Sectors, NEW c \in Cells, NEW v \in Value,
             FlashWrite(s, c, v)
      PROVE  IInv'
  BY <1>3, FlashWriteIInv
<1>4. ASSUME FlashDone
      PROVE  IInv'
  BY <1>4, FlashDoneIInv
<1>5. ASSUME FlashWriteFails \/ BreakOff \/ RestartServer \/ UNCHANGED vars
      PROVE  IInv'
  BY <1>5, EndIInv
<1>6. ASSUME LateErase
      PROVE  IInv'
  BY <1>6, LateEraseIInv
<1>7. QED
  BY <1>1, <1>2, <1>3, <1>4, <1>5, <1>6 DEF Next

THEOREM InvariantHolds == Spec => []IInv
  BY InitIInv, NextIInv, PTL DEF Spec

(* The variables keep their types, and a load erases nothing outside its   *)
(* image.                                                                  *)
THEOREM TypeCorrect == Spec => []TypeOK
<1>1. IInv => TypeOK
  BY DEF IInv
<1>2. QED
  BY <1>1, InvariantHolds, PTL

(* After vFlashDone the flash holds the image but in the sectors a failing *)
(* command or an earlier load has left, for every number of sectors and    *)
(* cells, every order of erases, every packet that may fail and every      *)
(* history of earlier loads.                                               *)
THEOREM DoneIsWrittenHolds == Spec => []DoneIsWritten
<1>1. IInv => DoneIsWritten
  BY DEF IInv
<1>2. QED
  BY <1>1, InvariantHolds, PTL

(* A load touches nothing but its sectors, the one left in the buffer and  *)
(* those left to erase.                                                    *)
THEOREM OtherSectorsKeptHolds == Spec => []OtherSectorsKept
<1>1. IInv => OtherSectorsKept
  BY DEF IInv
<1>2. QED
  BY <1>1, InvariantHolds, PTL

(* Every load resets the target first, unless it follows a broken one.     *)
THEOREM FirstEraseResetsHolds == Spec => []FirstEraseResets
<1>1. IInv => FirstEraseResets
  BY DEF IInv, ResetInv
<1>2. QED
  BY <1>1, InvariantHolds, PTL
=============================================================================

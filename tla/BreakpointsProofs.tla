------------------------- MODULE BreakpointsProofs -------------------------
(***************************************************************************)
(* Theorems about Breakpoints, for any comparators, any list, any set of   *)
(* breakpoints a user may ask for and either setting of GDB.               *)
(***************************************************************************)
EXTENDS Breakpoints, TLAPS

Numbers == 1 .. Comparators

(* A comparator has a word exactly while it has a half-word, and none has  *)
(* before the unit is enabled.                                             *)
CompInv == \A i \in Numbers :
             /\ fpComp[i].halves = {} <=> fpComp[i].word = NoWord
             /\ ~fpEnabled => fpComp[i].halves = {}

IInv == /\ TypeOK
        /\ CompInv
        /\ OneComparatorPerWord
        /\ InsertedIsListed
        /\ OnlyInsertedStops

---------------------------------------------------------------------------
(* Taking the entry at place k out of a list loses nothing else.           *)
LEMMA WithoutEntry ==
    ASSUME NEW S, NEW s \in Seq(S), NEW k \in 1 .. Len(s), NEW r,
           r = [j \in 1 .. Len(s) - 1 |-> IF j < k THEN s[j] ELSE s[j + 1]]
    PROVE  /\ r \in Seq(S)
           /\ Range(s) \ {s[k]} \subseteq Range(r)
<1>1. /\ r \in Seq(S)
      /\ DOMAIN r = 1 .. Len(s) - 1
      /\ \A j \in 1 .. Len(s) - 1 : r[j] = IF j < k THEN s[j] ELSE s[j + 1]
  OBVIOUS
<1>2. ASSUME NEW x \in Range(s), x # s[k]
      PROVE  x \in Range(r)
  <2>1. PICK j \in 1 .. Len(s) : s[j] = x
    BY <1>2 DEF Range
  <2>2. CASE j < k
    <3>1. j \in DOMAIN r /\ r[j] = x
      BY <1>1, <2>1, <2>2
    <3>2. QED
      BY <3>1 DEF Range
  <2>3. CASE j > k
    <3>1. j - 1 \in DOMAIN r /\ r[j - 1] = x
      BY <1>1, <2>1, <2>3
    <3>2. QED
      BY <3>1 DEF Range
  <2>4. QED
    BY <1>2, <2>1, <2>2, <2>3
<1>3. QED
  BY <1>1, <1>2

(* A new entry at the front loses nothing.                                 *)
LEMMA WithEntry ==
    ASSUME bwList \in Seq(UserBreakpoints), NEW b \in UserBreakpoints,
           bwList' = <<b>> \o bwList
    PROVE  bwList' \in Seq(UserBreakpoints) /\ Listed \cup {b} \subseteq Listed'
<1>1. /\ bwList' \in Seq(UserBreakpoints)
      /\ Len(bwList') = Len(bwList) + 1
      /\ bwList'[1] = b
      /\ \A j \in 1 .. Len(bwList) : bwList'[j + 1] = bwList[j]
  OBVIOUS
<1>2. b \in Listed'
  BY <1>1 DEF Listed, Range
<1>3. ASSUME NEW x \in Listed PROVE x \in Listed'
  <2>1. PICK j \in 1 .. Len(bwList) : bwList[j] = x
    BY DEF Listed, Range
  <2>2. j + 1 \in DOMAIN bwList' /\ bwList'[j + 1] = x
    BY <1>1, <2>1
  <2>3. QED
    BY <2>2 DEF Listed, Range
<1>4. QED
  BY <1>1, <1>2, <1>3

---------------------------------------------------------------------------
(* What breakpointCommand does to the comparators when it sets one: they   *)
(* stay well formed and arm nothing but the breakpoint in addition.        *)
LEMMA SetKeeps ==
    ASSUME TypeOK, CompInv, OneComparatorPerWord,
           NEW b \in UserBreakpoints, DeviceSet(b)
    PROVE  /\ fpEnabled' = TRUE
           /\ fpComp' \in [Numbers -> [word : Words \cup {NoWord},
                                       halves : SUBSET Halves]]
           /\ CompInv'
           /\ OneComparatorPerWord'
           /\ ArmedBy(Numbers)' \subseteq ArmedBy(Numbers) \cup {<<b.word, b.half>>}
<1> USE DEF Numbers
<1>b. b \in Breakpoint /\ b.word \in Words /\ b.half \in Halves /\ b.word # NoWord
  BY UserAssumption, WordAssumption DEF Breakpoint
<1>0. fpEnabled' = TRUE
  BY DEF DeviceSet
<1>1. CASE \E i \in Lowest(HoldingWord(b.word)) :
             fpComp' = [fpComp EXCEPT ![i].halves = @ \cup {b.half}]
  <2>1. PICK i \in Numbers : /\ fpComp[i].word = b.word
                             /\ fpComp' = [fpComp EXCEPT ![i].halves = @ \cup {b.half}]
    BY <1>1 DEF Lowest, HoldingWord
  <2>2. /\ \A j \in Numbers \ {i} : fpComp'[j] = fpComp[j]
        /\ fpComp'[i].word = b.word
        /\ fpComp'[i].halves = fpComp[i].halves \cup {b.half}
        /\ fpComp' \in [Numbers -> [word : Words \cup {NoWord}, halves : SUBSET Halves]]
    BY <1>b, <2>1 DEF TypeOK
  <2>3. CompInv'
    BY <1>0, <1>b, <2>2 DEF CompInv
  <2>4. OneComparatorPerWord'
    BY <1>b, <2>1, <2>2 DEF OneComparatorPerWord
  <2>5. fpEnabled \/ fpComp[i].halves = {}
    BY <2>1 DEF CompInv
  <2>6. ASSUME NEW a \in ArmedBy(Numbers)', a # <<b.word, b.half>>
        PROVE  a \in ArmedBy(Numbers)
    <3>1. a \in Address
      BY <2>6 DEF ArmedBy
    <3>2. PICK j \in Numbers : fpComp'[j].word = a[1] /\ a[2] \in fpComp'[j].halves
      BY <2>6 DEF ArmedBy
    <3>3. fpComp[j].word = a[1] /\ a[2] \in fpComp[j].halves
      BY <2>1, <2>2, <2>6, <3>1, <3>2 DEF Address
    <3>4. fpEnabled
      BY <3>3 DEF CompInv
    <3>5. QED
      BY <3>1, <3>3, <3>4 DEF ArmedBy
  <2>7. QED
    BY <1>0, <2>2, <2>3, <2>4, <2>6
<1>2. CASE /\ HoldingWord(b.word) = {}
           /\ \E i \in Lowest(Unused) :
                fpComp' = [fpComp EXCEPT ![i] = [word |-> b.word, halves |-> {b.half}]]
  <2>1. PICK i \in Numbers :
          fpComp' = [fpComp EXCEPT ![i] = [word |-> b.word, halves |-> {b.half}]]
    BY <1>2 DEF Lowest, Unused
  <2>2. /\ \A j \in Numbers \ {i} : fpComp'[j] = fpComp[j]
        /\ fpComp'[i].word = b.word
        /\ fpComp'[i].halves = {b.half}
        /\ fpComp' \in [Numbers -> [word : Words \cup {NoWord}, halves : SUBSET Halves]]
    BY <1>b, <2>1 DEF TypeOK
  <2>3. \A j \in Numbers : fpComp[j].word # b.word
    BY <1>2 DEF HoldingWord
  <2>4. CompInv'
    BY <1>0, <1>b, <2>2 DEF CompInv
  <2>5. OneComparatorPerWord'
    BY <2>2, <2>3 DEF OneComparatorPerWord
  <2>6. ASSUME NEW a \in ArmedBy(Numbers)', a # <<b.word, b.half>>
        PROVE  a \in ArmedBy(Numbers)
    <3>1. a \in Address
      BY <2>6 DEF ArmedBy
    <3>2. PICK j \in Numbers : fpComp'[j].word = a[1] /\ a[2] \in fpComp'[j].halves
      BY <2>6 DEF ArmedBy
    <3>3. fpComp[j].word = a[1] /\ a[2] \in fpComp[j].halves
      BY <2>2, <2>6, <3>1, <3>2 DEF Address
    <3>4. fpEnabled
      BY <3>3 DEF CompInv
    <3>5. QED
      BY <3>1, <3>3, <3>4 DEF ArmedBy
  <2>7. QED
    BY <1>0, <2>2, <2>4, <2>5, <2>6
<1>3. CASE HoldingWord(b.word) = {} /\ Unused = {} /\ UNCHANGED fpComp
  <2>1. \A i \in Numbers : fpComp[i].halves # {}
    BY <1>3 DEF Unused
  <2>2. CompInv'
    BY <1>0, <1>3 DEF CompInv
  <2>3. fpEnabled \/ Numbers = {}
    BY <2>1 DEF CompInv
  <2>4. QED
    BY <1>0, <1>3, <2>2, <2>3 DEF TypeOK, OneComparatorPerWord, ArmedBy
<1>4. QED
  BY <1>1, <1>2, <1>3 DEF DeviceSet

(* And when it clears some: none of them is armed afterwards, nor anything *)
(* that was not.                                                           *)
LEMMA ClearKeeps ==
    ASSUME TypeOK, CompInv, OneComparatorPerWord,
           NEW bs \in SUBSET UserBreakpoints, DeviceClear(bs)
    PROVE  /\ fpEnabled' = fpEnabled
           /\ fpComp' \in [Numbers -> [word : Words \cup {NoWord},
                                       halves : SUBSET Halves]]
           /\ CompInv'
           /\ OneComparatorPerWord'
           /\ ArmedBy(Numbers)' \subseteq ArmedBy(Numbers) \ AddressesOf(bs)
<1> USE DEF Numbers
<1> DEFINE Cleared(i) == {b.half : b \in {c \in bs : c.word = fpComp[i].word}}
           Left(i) == fpComp[i].halves \ Cleared(i)
<1>1. /\ fpEnabled' = fpEnabled
      /\ fpComp' = [i \in Numbers |->
                      IF Left(i) = {} THEN Free
                      ELSE [word |-> fpComp[i].word, halves |-> Left(i)]]
  BY DEF DeviceClear
<1>2. \A i \in Numbers : Left(i) \subseteq fpComp[i].halves
  OBVIOUS
<1> HIDE DEF Left
<1>3. \A i \in Numbers :
        \/ /\ fpComp'[i].word = NoWord /\ fpComp'[i].halves = {}
           /\ Left(i) = {}
        \/ /\ fpComp'[i].word = fpComp[i].word /\ fpComp'[i].halves = Left(i)
           /\ Left(i) # {}
  <2> TAKE i \in Numbers
  <2>1. fpComp'[i] = IF Left(i) = {} THEN Free
                     ELSE [word |-> fpComp[i].word, halves |-> Left(i)]
    BY <1>1
  <2>2. QED
    BY <2>1 DEF Free
<1>4. fpComp' \in [Numbers -> [word : Words \cup {NoWord}, halves : SUBSET Halves]]
  BY <1>1, <1>2 DEF TypeOK, Free
<1>5. CompInv'
  BY <1>1, <1>2, <1>3 DEF CompInv
<1>6. OneComparatorPerWord'
  BY <1>3 DEF OneComparatorPerWord
<1>7. ASSUME NEW a \in ArmedBy(Numbers)'
      PROVE  a \in ArmedBy(Numbers) /\ a \notin AddressesOf(bs)
  <2>1. a \in Address /\ fpEnabled
    BY <1>1, <1>7 DEF ArmedBy
  <2>2. PICK i \in Numbers : fpComp'[i].word = a[1] /\ a[2] \in fpComp'[i].halves
    BY <1>7 DEF ArmedBy
  <2>3. fpComp[i].word = a[1] /\ a[2] \in Left(i)
    BY <1>3, <2>2
  <2>4. a \in ArmedBy(Numbers)
    BY <1>2, <2>1, <2>3 DEF ArmedBy
  <2>5. ASSUME NEW b \in bs, a = <<b.word, b.half>> PROVE FALSE
    <3>1. b.half \in Cleared(i)
      BY <2>3, <2>5
    <3>2. QED
      BY <2>3, <2>5, <3>1 DEF Left
  <2>6. QED
    BY <2>4, <2>5 DEF AddressesOf
<1>8. QED
  BY <1>1, <1>4, <1>5, <1>6, <1>7

---------------------------------------------------------------------------
(* The same for the server's operations, which move the list and, unless   *)
(* the transaction is lost, the comparators.                               *)
DeviceTypeOK == /\ bwList \in Seq(UserBreakpoints)
                /\ fpEnabled \in BOOLEAN
                /\ fpComp \in [Numbers -> [word : Words \cup {NoWord},
                                           halves : SUBSET Halves]]

LEMMA DeviceUnchangedKeeps ==
    ASSUME TypeOK, CompInv, OneComparatorPerWord, UNCHANGED deviceVars
    PROVE  /\ fpEnabled' \in BOOLEAN
           /\ fpComp' \in [Numbers -> [word : Words \cup {NoWord},
                                       halves : SUBSET Halves]]
           /\ CompInv' /\ OneComparatorPerWord'
           /\ ArmedBy(Numbers)' = ArmedBy(Numbers)
<1>1. QED
  BY DEF TypeOK, CompInv, OneComparatorPerWord, ArmedBy, Numbers, deviceVars

LEMMA SetBreakwatchKeeps ==
    ASSUME TypeOK, CompInv, OneComparatorPerWord,
           NEW b \in UserBreakpoints, SetBreakwatch(b)
    PROVE  /\ DeviceTypeOK' /\ CompInv' /\ OneComparatorPerWord'
           /\ Listed \cup {b} \subseteq Listed'
           /\ ArmedBy(Numbers)' \subseteq ArmedBy(Numbers) \cup {<<b.word, b.half>>}
           /\ leftover' = leftover
           /\ unset' \in {unset \ {b}, unset \cup {b}}
<1>1. /\ bwList' = <<b>> \o bwList /\ leftover' = leftover
      /\ unset' \in {unset \ {b}, unset \cup {b}}
  BY DEF SetBreakwatch
<1>2. bwList' \in Seq(UserBreakpoints) /\ Listed \cup {b} \subseteq Listed'
  BY <1>1, WithEntry DEF TypeOK
<1>3. CASE DeviceSet(b)
  BY <1>1, <1>2, <1>3, SetKeeps DEF DeviceTypeOK
<1>4. CASE UNCHANGED deviceVars
  BY <1>1, <1>2, <1>4, DeviceUnchangedKeeps DEF DeviceTypeOK
<1>5. QED
  BY <1>3, <1>4 DEF SetBreakwatch

(* What is armed and not left over loses the address of the breakpoint: a  *)
(* removal that is lost leaves it over.                                    *)
LEMMA ClearBreakwatchKeeps ==
    ASSUME TypeOK, CompInv, OneComparatorPerWord,
           NEW b \in UserBreakpoints, ClearBreakwatch(b)
    PROVE  /\ DeviceTypeOK' /\ CompInv' /\ OneComparatorPerWord'
           /\ Listed \ {b} \subseteq Listed'
           /\ ArmedBy(Numbers)' \ leftover' \subseteq
                 (ArmedBy(Numbers) \ leftover) \ {<<b.word, b.half>>}
           /\ leftover' \subseteq Address
           /\ unset' = unset \ {b}
<1>1. PICK k \in DOMAIN bwList :
        /\ bwList[k] = b
        /\ SendClear(k, b)
        /\ bwList' = [j \in 1 .. Len(bwList) - 1 |->
                        IF j < k THEN bwList[j] ELSE bwList[j + 1]]
  BY DEF ClearBreakwatch, Lowest, Places
<1> DEFINE bs == Behind(k)
<1>2. k \in 1 .. Len(bwList) /\ bwList \in Seq(UserBreakpoints)
  BY DEF TypeOK
<1>3. bs \in SUBSET UserBreakpoints /\ b \in bs
  BY <1>1, <1>2 DEF Behind
<1>4. bwList' \in Seq(UserBreakpoints) /\ Listed \ {b} \subseteq Listed'
  BY <1>1, <1>2, WithoutEntry DEF Listed
<1>5. /\ unset' = unset \ {b}
      /\ \/ DeviceClear(bs) /\ leftover' = leftover \ AddressesOf(bs)
         \/ /\ UNCHANGED deviceVars
            /\ leftover' = leftover \cup (AddressesOf({b}) \cap ArmedBy(Numbers))
  BY <1>1 DEF SendClear, Numbers
<1> HIDE DEF bs
<1>6. <<b.word, b.half>> \in AddressesOf(bs)
  BY <1>3 DEF AddressesOf
<1>7. leftover \subseteq Address /\ ArmedBy(Numbers) \subseteq Address
  BY DEF TypeOK, ArmedBy
<1>8. CASE DeviceClear(bs) /\ leftover' = leftover \ AddressesOf(bs)
  <2>1. /\ fpEnabled' \in BOOLEAN
        /\ fpComp' \in [Numbers -> [word : Words \cup {NoWord}, halves : SUBSET Halves]]
        /\ CompInv' /\ OneComparatorPerWord'
        /\ ArmedBy(Numbers)' \subseteq ArmedBy(Numbers) \ AddressesOf(bs)
    BY <1>3, <1>8, ClearKeeps DEF TypeOK
  <2>2. ArmedBy(Numbers)' \ leftover' \subseteq
           (ArmedBy(Numbers) \ leftover) \ {<<b.word, b.half>>}
    BY <1>6, <1>8, <2>1
  <2>3. QED
    BY <1>4, <1>5, <1>7, <1>8, <2>1, <2>2 DEF DeviceTypeOK
<1>9. CASE /\ UNCHANGED deviceVars
           /\ leftover' = leftover \cup (AddressesOf({b}) \cap ArmedBy(Numbers))
  <2>1. AddressesOf({b}) = {<<b.word, b.half>>}
    BY DEF AddressesOf
  <2>2. ArmedBy(Numbers)' = ArmedBy(Numbers)
    BY <1>9, DeviceUnchangedKeeps
  <2>3. ArmedBy(Numbers)' \ leftover' \subseteq
           (ArmedBy(Numbers) \ leftover) \ {<<b.word, b.half>>}
    BY <1>9, <2>1, <2>2
  <2>4. QED
    BY <1>4, <1>5, <1>7, <1>9, <2>3, DeviceUnchangedKeeps DEF DeviceTypeOK
<1>10. QED
  BY <1>5, <1>8, <1>9

---------------------------------------------------------------------------
(* IInv is inductive.                                                      *)
LEMMA InitIInv == Init => IInv
<1> SUFFICES ASSUME Init PROVE IInv
  OBVIOUS
<1>1. TypeOK
  <2>1. Free \in [word : Words \cup {NoWord}, halves : SUBSET Halves]
    BY DEF Free
  <2>2. fpComp \in [1 .. Comparators ->
                      [word : Words \cup {NoWord}, halves : SUBSET Halves]]
    BY <2>1 DEF Init
  <2>3. bwList \in Seq(UserBreakpoints)
    BY DEF Init
  <2>4. QED
    BY <2>2, <2>3 DEF Init, TypeOK, Phases
<1>2. CompInv /\ OneComparatorPerWord
  BY DEF Init, CompInv, OneComparatorPerWord, Free, Numbers
<1>3. InsertedIsListed /\ OnlyInsertedStops
  BY DEF Init, InsertedIsListed, OnlyInsertedStops
<1>4. QED
  BY <1>1, <1>2, <1>3 DEF IInv

LEMMA NextIInv == IInv /\ [Next]_vars => IInv'
<1> SUFFICES ASSUME IInv, [Next]_vars PROVE IInv'
  OBVIOUS
<1>0. TypeOK /\ CompInv /\ OneComparatorPerWord /\ InsertedIsListed /\ OnlyInsertedStops
  BY DEF IInv
<1> DEFINE Same == UNCHANGED <<bwList, deviceVars>>
(* A step that leaves list and comparators alone.                          *)
<1>a. ASSUME Same
      PROVE  /\ DeviceTypeOK' /\ CompInv' /\ OneComparatorPerWord'
             /\ Listed' = Listed /\ ArmedBy(Numbers)' = ArmedBy(Numbers)
  BY <1>0, <1>a DEF TypeOK, DeviceTypeOK, CompInv, OneComparatorPerWord,
                    Listed, ArmedBy, Numbers, deviceVars
<1>1. CASE Connect
  <2>1. Same /\ gdb' = "stopped" /\ UNCHANGED <<wanted, inserted, unset>>
        /\ leftover' = ArmedBy(Numbers)
    BY <1>1 DEF Connect, Numbers
  <2>2. leftover' \subseteq Address
    BY <2>1 DEF ArmedBy
  <2>3. QED
    BY <1>0, <1>a, <2>1, <2>2
       DEF IInv, TypeOK, DeviceTypeOK, InsertedIsListed, OnlyInsertedStops, Phases, Numbers
<1>2. CASE Resume \/ Run \/ Stop \/ Removed
  <2>1. /\ Same /\ UNCHANGED <<wanted, inserted, leftover, unset>>
        /\ gdb # "away" /\ gdb' \in Phases
    BY <1>2 DEF Resume, Run, Stop, Removed, Phases, historyVars
  <2>2. QED
    BY <1>0, <1>a, <2>1
       DEF IInv, TypeOK, DeviceTypeOK, InsertedIsListed, OnlyInsertedStops, Numbers
<1>3. ASSUME NEW b \in UserBreakpoints, Add(b) PROVE IInv'
  <2>1. /\ Same /\ UNCHANGED <<gdb, inserted, leftover, unset>>
        /\ wanted' = wanted \cup {b}
    BY <1>3 DEF Add, historyVars
  <2>2. QED
    BY <1>0, <1>a, <2>1
       DEF IInv, TypeOK, DeviceTypeOK, InsertedIsListed, OnlyInsertedStops, Numbers
(* Removing b, the only breakpoint at its address or not.                  *)
<1>b. ASSUME NEW b \in UserBreakpoints, ClearBreakwatch(b), gdb # "away",
             inserted' = inserted \ {b}
      PROVE  InsertedIsListed' /\ OnlyInsertedStops'
  <2>1. /\ Listed \ {b} \subseteq Listed'
        /\ ArmedBy(Numbers)' \ leftover' \subseteq
              (ArmedBy(Numbers) \ leftover) \ {<<b.word, b.half>>}
    BY <1>0, <1>b, ClearBreakwatchKeeps
  <2>2. AddressesOf(inserted) \subseteq AddressesOf(inserted') \cup {<<b.word, b.half>>}
    BY <1>b DEF AddressesOf
  <2>3. QED
    BY <1>0, <1>b, <2>1, <2>2 DEF InsertedIsListed, OnlyInsertedStops, Numbers
<1>4. ASSUME NEW b \in UserBreakpoints, Delete(b) PROVE IInv'
  <2>1. /\ UNCHANGED gdb /\ gdb = "stopped"
        /\ wanted' = wanted \ {b} /\ inserted' = inserted \ {b}
    BY <1>4 DEF Delete
  <2>2. CASE b \in inserted
    <3>1. ClearBreakwatch(b)
      BY <1>4, <2>2 DEF Delete
    <3>2. QED
      BY <1>0, <1>b, <2>1, <3>1, ClearBreakwatchKeeps DEF IInv, TypeOK, DeviceTypeOK, Numbers
  <2>3. CASE b \notin inserted
    <3>1. Same /\ inserted' = inserted /\ UNCHANGED historyVars
      BY <1>4, <2>1, <2>3 DEF Delete
    <3>2. QED
      BY <1>0, <1>a, <2>1, <2>3, <3>1
         DEF IInv, TypeOK, DeviceTypeOK, InsertedIsListed, OnlyInsertedStops, Numbers,
             historyVars
  <2>4. QED
    BY <2>2, <2>3
<1>5. ASSUME NEW b \in UserBreakpoints, Insert(b) PROVE IInv'
  <2>1. /\ SetBreakwatch(b) /\ b \in wanted /\ gdb # "away"
        /\ UNCHANGED <<gdb, wanted>> /\ inserted' = inserted \cup {b}
    BY <1>5 DEF Insert
  <2>2. AddressesOf(inserted') = AddressesOf(inserted) \cup {<<b.word, b.half>>}
    BY <2>1 DEF AddressesOf
  <2>3. QED
    BY <1>0, <2>1, <2>2, SetBreakwatchKeeps
       DEF IInv, TypeOK, DeviceTypeOK, InsertedIsListed, OnlyInsertedStops, Numbers
<1>6. ASSUME NEW b \in UserBreakpoints, Remove(b) PROVE IInv'
  <2>1. /\ ClearBreakwatch(b) /\ gdb = "removing"
        /\ UNCHANGED <<gdb, wanted>> /\ inserted' = inserted \ {b}
    BY <1>6 DEF Remove
  <2>2. QED
    BY <1>0, <1>b, <2>1, ClearBreakwatchKeeps DEF IInv, TypeOK, DeviceTypeOK, Numbers
<1>7. CASE ConnectionLost
  <2>1. /\ Same /\ gdb' = "away" /\ wanted' = {} /\ inserted' = {} /\ unset' = {}
        /\ leftover' = leftover
    BY <1>7 DEF ConnectionLost
  <2>2. QED
    BY <1>0, <1>a, <2>1
       DEF IInv, TypeOK, DeviceTypeOK, InsertedIsListed, OnlyInsertedStops, Phases, Numbers
<1>8. CASE ServerEnds
  <2>1. /\ UNCHANGED deviceVars /\ bwList' = <<>> /\ leftover' = leftover
        /\ gdb' = "away" /\ wanted' = {} /\ inserted' = {} /\ unset' = {}
    BY <1>8 DEF ServerEnds
  <2>2. CompInv' /\ OneComparatorPerWord'
    BY <1>0, <2>1 DEF CompInv, OneComparatorPerWord, deviceVars
  <2>3. QED
    BY <1>0, <2>1, <2>2
       DEF IInv, TypeOK, InsertedIsListed, OnlyInsertedStops, Phases, deviceVars
<1>9. CASE UNCHANGED vars
  <2>1. Same /\ UNCHANGED <<gdb, wanted, inserted, leftover, unset>>
    BY <1>9 DEF vars, gdbVars, historyVars
  <2>2. QED
    BY <1>0, <1>a, <2>1
       DEF IInv, TypeOK, DeviceTypeOK, InsertedIsListed, OnlyInsertedStops, Numbers
<1>10. QED
  BY <1>1, <1>2, <1>3, <1>4, <1>5, <1>6, <1>7, <1>8, <1>9 DEF Next

THEOREM InvariantHolds == Spec => []IInv
<1>1. QED
  BY InitIInv, NextIInv, PTL DEF Spec

(* Whatever GDB, its user, the connection and the server do, the variables *)
(* keep their types, and GDB has inserted only what its user wants.        *)
THEOREM TypeCorrect == Spec => []TypeOK
<1>1. IInv => TypeOK
  BY DEF IInv
<1>2. QED
  BY InvariantHolds, <1>1, PTL

(* breakpointCommand (main.cpp 264-283) never gives a word to two          *)
(* comparators.                                                            *)
THEOREM OneComparatorPerWordHolds == Spec => []OneComparatorPerWord
<1>1. IInv => OneComparatorPerWord
  BY DEF IInv
<1>2. QED
  BY InvariantHolds, <1>1, PTL

(* What GDB has inserted is in the server's list, so that its removal is   *)
(* never refused (target.c 461-468).                                       *)
THEOREM InsertedIsListedHolds == Spec => []InsertedIsListed
<1>1. IInv => InsertedIsListed
  BY DEF IInv
<1>2. QED
  BY InvariantHolds, <1>1, PTL

(* A removed breakpoint stops nobody, however many comparators there are,  *)
(* unless the removal was lost on USB: then a later removal that reaches   *)
(* its address frees it.                                                   *)
THEOREM OnlyInsertedStopsHolds == Spec => []OnlyInsertedStops
<1>1. IInv => OnlyInsertedStops
  BY DEF IInv
<1>2. QED
  BY InvariantHolds, <1>1, PTL

---------------------------------------------------------------------------
(* With GDB's default setting.  A session that found the comparators free  *)
(* fills them from the lowest, so a comparator of the second kind is taken *)
(* only when all of the first kind are.                                    *)
CodeNumbers == 1 .. CodeComparators

Full == \A i \in CodeNumbers : fpComp[i].halves # {}

LowestFirst == \A i \in Numbers \ CodeNumbers : fpComp[i].halves # {} => Full

Reached == Full \/ AddressesOf(inserted \ unset) \subseteq ArmedBy(CodeNumbers)

LazyInv == /\ gdb \in {"away", "stopped"} => inserted = {}
           /\ gdb = "running" => inserted = wanted
           /\ gdb \in {"inserting", "running"} /\ leftover = {} =>
                 LowestFirst /\ Reached

LEMMA LazyInsert ==
    ASSUME IInv, LowestFirst, Reached, NEW b \in UserBreakpoints, Insert(b)
    PROVE  LowestFirst' /\ Reached'
<1> USE SizeAssumption DEF Numbers, CodeNumbers
<1>0. TypeOK /\ CompInv
  BY DEF IInv
<1>1. inserted' = inserted \cup {b} /\ b \notin inserted
  BY DEF Insert
<1>2. CASE UNCHANGED deviceVars /\ unset' = unset \cup {b}
  <2>1. inserted' \ unset' \subseteq inserted \ unset
    BY <1>1, <1>2
  <2>2. QED
    BY <1>2, <2>1 DEF LowestFirst, Reached, Full, ArmedBy, AddressesOf, deviceVars
<1>3. CASE DeviceSet(b) /\ unset' = unset \ {b}
  <2>1. fpEnabled' = TRUE
    BY <1>3 DEF DeviceSet
  <2>2. b.word \in Words /\ b.half \in Halves
    BY UserAssumption DEF Breakpoint
  <2>3. AddressesOf(inserted' \ unset') =
          AddressesOf(inserted \ unset) \cup {<<b.word, b.half>>}
    <3>1. inserted' \ unset' = (inserted \ unset) \cup {b}
      BY <1>0, <1>1, <1>3 DEF TypeOK
    <3>2. QED
      BY <3>1 DEF AddressesOf
  <2>4. <<b.word, b.half>> \in Address
    BY <2>2 DEF Address
  <2>c. CodeNumbers \subseteq Numbers
    OBVIOUS
  (* No half-word is dropped, and none changes its word.                     *)
  <2>a. ASSUME \A i \in Numbers :
                 /\ fpComp[i].halves \subseteq fpComp'[i].halves
                 /\ fpComp[i].halves # {} => fpComp'[i].word = fpComp[i].word
        PROVE  (Full => Full') /\ ArmedBy(CodeNumbers) \subseteq ArmedBy(CodeNumbers)'
    <3>1. Full => Full'
      BY <2>a, <2>c DEF Full
    <3>2. ASSUME NEW a \in ArmedBy(CodeNumbers) PROVE a \in ArmedBy(CodeNumbers)'
      <4>1. PICK i \in CodeNumbers : fpComp[i].word = a[1] /\ a[2] \in fpComp[i].halves
        BY <3>2 DEF ArmedBy
      <4>2. fpComp'[i].word = a[1] /\ a[2] \in fpComp'[i].halves
        BY <2>a, <2>c, <4>1
      <4>3. QED
        BY <2>1, <3>2, <4>2 DEF ArmedBy
    <3>3. QED
      BY <3>1, <3>2
  (* A comparator takes the half-word: it is one of the first kind, or these *)
  (* are all in use.                                                         *)
  <2>b. ASSUME NEW i \in Numbers, i \in CodeNumbers \/ Full,
               \A j \in Numbers \ {i} : fpComp'[j] = fpComp[j],
               fpComp'[i].word = b.word, b.half \in fpComp'[i].halves,
               fpComp[i].halves \subseteq fpComp'[i].halves,
               fpComp[i].halves # {} => fpComp[i].word = b.word
        PROVE  LowestFirst' /\ Reached'
    <3>1. (Full => Full') /\ ArmedBy(CodeNumbers) \subseteq ArmedBy(CodeNumbers)'
      BY <2>a, <2>b
    <3>2. LowestFirst'
      BY <2>b, <3>1 DEF LowestFirst
    <3>3. CASE Full
      BY <3>1, <3>2, <3>3 DEF Reached
    <3>4. CASE ~Full /\ i \in CodeNumbers
      <4>1. <<b.word, b.half>> \in ArmedBy(CodeNumbers)'
        BY <2>1, <2>4, <2>b, <3>4 DEF ArmedBy
      <4>2. QED
        BY <2>3, <3>1, <3>2, <3>4, <4>1 DEF Reached
    <3>5. QED
      BY <2>b, <3>3, <3>4
  <2>5. CASE \E i \in Lowest(HoldingWord(b.word)) :
               fpComp' = [fpComp EXCEPT ![i].halves = @ \cup {b.half}]
    <3>1. PICK i \in Numbers : /\ fpComp[i].word = b.word
                               /\ fpComp' = [fpComp EXCEPT ![i].halves = @ \cup {b.half}]
      BY <2>5 DEF Lowest, HoldingWord
    <3>2. /\ \A j \in Numbers \ {i} : fpComp'[j] = fpComp[j]
          /\ fpComp'[i].word = b.word
          /\ fpComp'[i].halves = fpComp[i].halves \cup {b.half}
      BY <1>0, <3>1 DEF TypeOK
    <3>3. fpComp[i].halves # {}
      BY <1>0, <2>2, <3>1, WordAssumption DEF CompInv
    <3>4. i \in CodeNumbers \/ Full
      BY <3>3 DEF LowestFirst
    <3>5. QED
      BY <2>b, <3>1, <3>2, <3>4
  <2>6. CASE /\ HoldingWord(b.word) = {}
             /\ \E i \in Lowest(Unused) :
                  fpComp' = [fpComp EXCEPT ![i] = [word |-> b.word, halves |-> {b.half}]]
    <3>1. PICK i \in Numbers :
            /\ fpComp[i].halves = {}
            /\ \A j \in Numbers : fpComp[j].halves = {} => i <= j
            /\ fpComp' = [fpComp EXCEPT ![i] = [word |-> b.word, halves |-> {b.half}]]
      BY <2>6 DEF Lowest, Unused
    <3>2. /\ \A j \in Numbers \ {i} : fpComp'[j] = fpComp[j]
          /\ fpComp'[i].word = b.word
          /\ fpComp'[i].halves = {b.half}
      BY <1>0, <3>1 DEF TypeOK
    <3>3. i \in CodeNumbers \/ Full
      BY <3>1 DEF Full
    <3>4. QED
      BY <2>b, <3>1, <3>2, <3>3
  <2>7. CASE HoldingWord(b.word) = {} /\ Unused = {} /\ UNCHANGED fpComp
    <3>1. Full'
      BY <2>7 DEF Unused, Full
    <3>2. QED
      BY <3>1 DEF LowestFirst, Reached
  <2>8. QED
    BY <1>3, <2>5, <2>6, <2>7 DEF DeviceSet
<1>4. QED
  BY <1>2, <1>3 DEF Insert, SetBreakwatch

LEMMA LazyNext ==
    ASSUME ~AlwaysInserted
    PROVE  IInv /\ LazyInv /\ [Next]_vars => LazyInv'
<1> SUFFICES ASSUME IInv, LazyInv, [Next]_vars PROVE LazyInv'
  OBVIOUS
<1> USE DEF LazyInv
(* A session that begins with nothing armed begins with nothing in use.    *)
<1>1. CASE Resume
  <2>1. /\ gdb = "stopped" /\ gdb' = "inserting"
        /\ UNCHANGED <<fpEnabled, fpComp, inserted, leftover, unset>>
    BY <1>1 DEF Resume, deviceVars, historyVars
  <2>2. ASSUME leftover = {}, NEW i \in Numbers, fpComp[i].halves # {} PROVE FALSE
    <3>1. PICK h \in Halves : h \in fpComp[i].halves
      BY <2>2 DEF IInv, TypeOK, Numbers
    <3>2. fpEnabled /\ fpComp[i].word \in Words
      BY <2>2 DEF IInv, TypeOK, CompInv, Numbers
    <3>3. <<fpComp[i].word, h>> \in ArmedBy(Numbers)
      BY <3>1, <3>2 DEF ArmedBy, Address
    <3>4. AddressesOf({}) = {}
      BY DEF AddressesOf
    <3>5. QED
      BY <2>1, <2>2, <3>3, <3>4 DEF IInv, OnlyInsertedStops, Numbers
  <2>3. leftover = {} => LowestFirst /\ Reached
    BY <2>1, <2>2 DEF LowestFirst, Reached, AddressesOf
  <2>4. QED
    BY <2>1, <2>3 DEF LowestFirst, Reached, Full, ArmedBy
<1>2. CASE Run
  BY <1>2 DEF Run, deviceVars, historyVars, LowestFirst, Reached, Full, ArmedBy
<1>3. CASE Connect \/ Stop \/ Removed \/ ConnectionLost \/ ServerEnds
  BY <1>3 DEF Connect, Stop, Removed, ConnectionLost, ServerEnds
<1>4. ASSUME NEW b \in UserBreakpoints, Add(b) \/ Delete(b) \/ Remove(b) PROVE LazyInv'
  BY <1>4 DEF Add, Delete, Remove
<1>5. ASSUME NEW b \in UserBreakpoints, Insert(b) PROVE LazyInv'
  <2>1. gdb = "inserting" /\ gdb' = "inserting" /\ leftover' = leftover
    BY <1>5 DEF Insert, SetBreakwatch
  <2>2. QED
    BY <1>5, <2>1, LazyInsert
<1>6. CASE UNCHANGED vars
  BY <1>6 DEF vars, gdbVars, deviceVars, historyVars, LowestFirst, Reached, Full, ArmedBy
<1>7. QED
  BY <1>1, <1>2, <1>3, <1>4, <1>5, <1>6 DEF Next

(* With the default setting, and nothing left armed before, the target     *)
(* stops wherever its user asked, except at what USB has lost and unless   *)
(* the comparators do not suffice: for any number of comparators of either *)
(* kind and any breakpoints.                                               *)
THEOREM StopsWhereAskedHolds ==
    ASSUME ~AlwaysInserted
    PROVE  Spec => []StopsWhereAsked
<1>1. Init => LazyInv
  BY DEF Init, LazyInv
<1>2. IInv /\ LazyInv /\ [Next]_vars => LazyInv'
  BY LazyNext
<1>3. LazyInv => StopsWhereAsked
  BY DEF LazyInv, Reached, Full, CodeNumbers, StopsWhereAsked
<1>4. QED
  BY InvariantHolds, <1>1, <1>2, <1>3, PTL DEF Spec
=============================================================================

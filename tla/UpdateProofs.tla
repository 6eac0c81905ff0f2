----------------------------- MODULE UpdateProofs -----------------------------
(***************************************************************************)
(* Proofs about the update of a board of any size: any flash, field, image *)
(* and setting, any number of losses, errors, resets and sessions.         *)
(*                                                                         *)
(* Types come first, part by part: the flash driver, the field, the board, *)
(* the host (UpdateInv).  Then what relates them, each part with the lemma *)
(* that a step keeps it:                                                   *)
(*   JobPlaces      where a flash job runs, and in which sector            *)
(*   LinkPlaces     what the message on the link says of host and board    *)
(*   CallPlaces     its part about the call to the bootloader              *)
(*   CountInv       the bit every count in the field has                   *)
(*   ParamsInv      the field the host read, to be restored, fits          *)
(*   SessionPlaces, BlocksInv, SoundInv   blocks and images                *)
(*   FieldInv       the field, its boot option and its setting             *)
(* Their conjunction WholeInv is the inductive invariant of UpdateSpec;    *)
(* the theorems stand at the end.                                          *)
(***************************************************************************)
EXTENDS UpdateSystem, SequenceTheorems, TLAPS

-----------------------------------------------------------------------------
(* The flash driver. *)

LEMMA WriteBytesType ==
  ASSUME FlashTypeOK, NEW w \in Seq(Write), w # <<>>, STMFLASH_write_bytes(w)
  PROVE  FlashTypeOK'
<1>1. CASE Len(w) > MaxLen
  <2>1. <<>> \in Seq(Write)
    BY EmptySeq
  <2> QED
    BY <1>1, <2>1 DEF FlashTypeOK, STMFLASH_write_bytes, Failed, Busy
<1>2. CASE ~(Len(w) > MaxLen)
  BY <1>2 DEF FlashTypeOK, STMFLASH_write_bytes, Busy, erase_sector_once
<1> QED
  BY <1>1, <1>2

(* The write at hand has an address and a word. *)
LEMMA CurrentType ==
  ASSUME FlashTypeOK, Busy
  PROVE  Current \in Write /\ CurrentSector \in Sector
<1>1. job.todo \in Seq(Write) /\ job.todo # <<>>
  BY DEF FlashTypeOK
<1>2. Current \in Write
  BY <1>1 DEF Current
<1>3. Current.addr \in Addr
  BY <1>2 DEF Write
<1> QED
  BY <1>2, <1>3, SectorOfAssumption DEF CurrentSector

LEMMA EraseOkType == ASSUME FlashTypeOK, EraseOk PROVE FlashTypeOK'
<1>1. Busy /\ job.todo # <<>>
  BY DEF EraseOk, Busy, FlashTypeOK
<1>2. CurrentSector \in Sector
  BY <1>1, CurrentType
<1>3. flash' \in [Addr -> Word] /\ mark' \in [Sector -> BOOLEAN]
  BY <1>2 DEF EraseOk, FlashTypeOK, Erased, Word
<1> QED
  BY <1>1, <1>3 DEF EraseOk, FlashTypeOK, Busy

LEMMA ProgramOkType == ASSUME FlashTypeOK, ProgramOk PROVE FlashTypeOK'
<1>1. Busy /\ job.todo # <<>> /\ job.todo \in Seq(Write)
  BY DEF ProgramOk, Busy, FlashTypeOK
<1>2. Current \in Write
  BY <1>1, CurrentType
<1>3. flash' \in [Addr -> Word]
  BY <1>2 DEF ProgramOk, FlashTypeOK, Programmed, Word, Write
<1>4. Tail(job.todo) \in Seq(Write)
  BY <1>1
<1>5. Len(job.todo) = 1 <=> Tail(job.todo) = <<>>
  <2>1. Len(Tail(job.todo)) = Len(job.todo) - 1 /\ Len(job.todo) \in Nat
    BY <1>1, HeadTailProperties
  <2>2. Len(Tail(job.todo)) = 0 <=> Tail(job.todo) = <<>>
    BY <1>4, EmptySeq
  <2> QED
    BY <2>1, <2>2
<1> QED
  BY <1>3, <1>4, <1>5 DEF ProgramOk, FlashTypeOK, Busy, AfterWord

(* What a cut step leaves is still a word at every address. *)
LEMMA PartialType ==
  ASSUME FlashTypeOK, LeavesPartial
  PROVE  flash' \in [Addr -> Word] /\ Busy
<1>1. CASE job.pc = "erase" /\ PartlyErased
  BY <1>1 DEF PartlyErased, FlashTypeOK, Erased, Word, Busy
<1>2. CASE job.pc = "program" /\ PartlyProgrammed
  BY <1>2 DEF PartlyProgrammed, FlashTypeOK, Word, Busy
<1> QED
  BY <1>1, <1>2 DEF LeavesPartial

LEMMA FlashFailsType == ASSUME FlashTypeOK, FlashFails PROVE FlashTypeOK'
<1>1. flash' \in [Addr -> Word]
  BY PartialType DEF FlashFails
<1> QED
  BY <1>1 DEF FlashFails, FlashTypeOK, Unmarked, Failed, Busy

LEMMA FlashResetType == ASSUME FlashTypeOK, FlashReset PROVE FlashTypeOK'
<1>1. flash' \in [Addr -> Word]
  BY PartialType DEF FlashReset, FlashTypeOK
<1> QED
  BY <1>1 DEF FlashReset, FlashTypeOK, Unmarked, NoJob, Busy

-----------------------------------------------------------------------------
(* The powerup field. *)

LEMMA ReadType ==
  ASSUME FlashTypeOK, NEW i \in 0 .. MAX_VAR_NUM_FUTURE
  PROVE  read(i) \in Word /\ VarAddr[i] \in Addr
BY FieldAssumption DEF FlashTypeOK, read

LEMMA CheckType == ASSUME NEW f, NEW len PROVE check_func(f, len) \in Word
BY DEF check_func, Word

LEMMA SuitType ==
  ASSUME FlashTypeOK
  PROVE  /\ actualVarNum \in Nat
         /\ getSuitVarNum \in 0 .. MAX_VAR_NUM_FUTURE
<1>1. VAR_NUM_OF_VAR \in 0 .. MAX_VAR_NUM_FUTURE
  BY VarNumAssumption DEF VAR_NUM_OF_VAR
<1>2. actualVarNum \in Nat
  BY <1>1, ReadType, WordAssumption DEF actualVarNum
<1> QED
  BY <1>2, VarNumAssumption DEF getSuitVarNum

LEMMA FieldWritesType ==
  ASSUME NEW f, NEW last \in -1 .. MAX_VAR_NUM_FUTURE,
         \A i \in 0 .. last : f[i] \in Word
  PROVE  /\ FieldWrites(f, 0, last) \in Seq(Write)
         /\ last >= 0 => FieldWrites(f, 0, last) # <<>>
<1>1. FieldWrites(f, 0, last) =
        [n \in 1 .. last + 1 |-> [addr |-> VarAddr[n - 1], val |-> f[n - 1]]]
  BY VarNumAssumption DEF FieldWrites
<1>2. ASSUME NEW n \in 1 .. last + 1
      PROVE  [addr |-> VarAddr[n - 1], val |-> f[n - 1]] \in Write
  <2>1. n - 1 \in 0 .. last /\ n - 1 \in 0 .. MAX_VAR_NUM_FUTURE
    BY VarNumAssumption
  <2> QED
    BY <2>1, FieldAssumption DEF Write
<1>3. last + 1 \in Nat
  BY VarNumAssumption
<1>4. FieldWrites(f, 0, last) \in Seq(Write)
  BY <1>1, <1>2, <1>3
<1>5. Len(FieldWrites(f, 0, last)) = last + 1
  BY <1>1, <1>3
<1> QED
  BY <1>3, <1>4, <1>5, EmptySeq

ShadowTypeOK ==
  /\ DOMAIN powerupVarShadow \subseteq 0 .. MAX_VAR_NUM_FUTURE
  /\ \A i \in DOMAIN powerupVarShadow : powerupVarShadow[i] \in Word

LEMMA ChangedType ==
  ASSUME FlashTypeOK, NEW idx, NEW val \in Word
  PROVE  /\ DOMAIN Changed(idx, val) = 0 .. getSuitVarNum
         /\ \A i \in 0 .. getSuitVarNum : Changed(idx, val)[i] \in Word
<1> DEFINE new == [i \in 0 .. getSuitVarNum - 1 |-> IF i = idx THEN val ELSE read(i)]
<1>1. getSuitVarNum \in 0 .. MAX_VAR_NUM_FUTURE /\ MAX_VAR_NUM_FUTURE \in Nat
  BY SuitType, VarNumAssumption
<1>2. Changed(idx, val) =
        [i \in 0 .. getSuitVarNum |->
           IF i = getSuitVarNum THEN check_func(new, i) ELSE new[i]]
  BY DEF Changed
<1>3. ASSUME NEW i \in 0 .. getSuitVarNum, i # getSuitVarNum
      PROVE  new[i] \in Word
  <2>1. i \in 0 .. getSuitVarNum - 1 /\ i \in 0 .. MAX_VAR_NUM_FUTURE
    BY <1>1, <1>3
  <2> QED
    BY <2>1, ReadType
<1> HIDE DEF new
<1> QED
  BY <1>2, <1>3, CheckType

LEMMA WriteStartType ==
  ASSUME FlashTypeOK, NEW idx, NEW val \in Word, write_start(idx, val)
  PROVE  FlashTypeOK' /\ ShadowTypeOK'
<1> DEFINE w == FieldWrites(Changed(idx, val), 0, getSuitVarNum)
<1>1. getSuitVarNum \in 0 .. MAX_VAR_NUM_FUTURE /\ MAX_VAR_NUM_FUTURE \in Nat
  BY SuitType, VarNumAssumption
<1>2. w \in Seq(Write) /\ w # <<>>
  BY <1>1, ChangedType, FieldWritesType
<1>3. STMFLASH_write_bytes(w) /\ powerupVarShadow' = Changed(idx, val)
  BY DEF write_start
<1> HIDE DEF w
<1>4. FlashTypeOK'
  BY <1>2, <1>3, WriteBytesType
<1>5. ShadowTypeOK'
  BY <1>1, <1>3, ChangedType DEF ShadowTypeOK
<1> QED
  BY <1>4, <1>5

LEMMA WriteEndType ==
  ASSUME FlashTypeOK, ShadowTypeOK, write_end
  PROVE  FlashTypeOK' /\ ShadowTypeOK'
BY DEF write_end, rst_addr_erase_mark, FlashTypeOK, ShadowTypeOK, Busy

LEMMA InitStartType ==
  ASSUME FlashTypeOK, initInApp_start
  PROVE  FlashTypeOK' /\ ShadowTypeOK'
<1>1. /\ VarNum - 1 \in 0 .. MAX_VAR_NUM_FUTURE /\ VarNum \in Nat
      /\ getSuitVarNum \in 0 .. MAX_VAR_NUM_FUTURE /\ MAX_VAR_NUM_FUTURE \in Nat
  BY SuitType, VarNumAssumption
<1>2. /\ DOMAIN Initialised = 0 .. VarNum - 1
      /\ \A i \in 0 .. VarNum - 1 : Initialised[i] \in Word
  <2> SUFFICES ASSUME NEW i \in 0 .. VarNum - 1 PROVE Initialised[i] \in Word
    BY DEF Initialised
  <2>1. i \in 0 .. MAX_VAR_NUM_FUTURE
    BY <1>1, VarNumAssumption
  <2> QED
    BY <2>1, ReadType, WordAssumption DEF Initialised
<1> DEFINE w == FieldWrites(Initialised, 0, VarNum - 1)
<1>3. w \in Seq(Write) /\ w # <<>>
  BY <1>1, <1>2, FieldWritesType
<1>4. STMFLASH_write_bytes(w) /\ powerupVarShadow' = Initialised
  BY DEF initInApp_start
<1> HIDE DEF w
<1>5. FlashTypeOK'
  BY <1>3, <1>4, WriteBytesType
<1>6. 0 .. VarNum - 1 \subseteq 0 .. MAX_VAR_NUM_FUTURE
  BY <1>1, VarNumAssumption
<1>7. ShadowTypeOK'
  BY <1>2, <1>4, <1>6 DEF ShadowTypeOK
<1> QED
  BY <1>5, <1>7

LEMMA OneWriteType ==
  ASSUME FlashTypeOK, NEW a \in Addr, NEW v \in Word,
         STMFLASH_write_bytes(<<[addr |-> a, val |-> v]>>)
  PROVE  FlashTypeOK'
<1> DEFINE w == <<[addr |-> a, val |-> v]>>
<1>1. w \in Seq(Write) /\ w # <<>>
  BY DEF Write
<1> QED
  BY <1>1, WriteBytesType

LEMMA InitCheckType ==
  ASSUME FlashTypeOK, ShadowTypeOK, initInApp_check
  PROVE  FlashTypeOK' /\ ShadowTypeOK'
<1>1. VarAddr[VarNum] \in Addr
  BY VarNumAssumption, FieldAssumption
<1>2. FlashTypeOK'
  BY <1>1, CheckType, OneWriteType DEF initInApp_check
<1> QED
  BY <1>2 DEF initInApp_check, ShadowTypeOK

-----------------------------------------------------------------------------
(* The board. *)

(* The parts of BoardTypeOK that a call into pvf or flash can touch. *)
CoreTypeOK == FlashTypeOK /\ ShadowTypeOK /\ pc \in PC /\ resume \in PC

LEMMA BoardCore == BoardTypeOK <=> CoreTypeOK /\ link \in Msg
BY DEF BoardTypeOK, CoreTypeOK, ShadowTypeOK

LEMMA BootWords ==
  /\ BOOT_PARAM_APP \in Word /\ BOOT_PARAM_BL \in Word /\ BOOT_PARAM_LOADING \in Word
  /\ VAR_BOOT_OPTI \in 0 .. MAX_VAR_NUM_FUTURE
BY WordAssumption, VarNumAssumption DEF VAR_BOOT_OPTI

LEMMA PvfWriteType ==
  ASSUME CoreTypeOK, NEW idx, NEW val \in Word, NEW nxt \in PC,
         PvfWrite(idx, val, nxt)
  PROVE  CoreTypeOK'
<1>1. CASE write_skipped(idx, val)
  <2>1. UNCHANGED <<flashVars, powerupVarShadow, resume>> /\ pc' = nxt
    BY <1>1 DEF PvfWrite, write_start
  <2> QED
    BY <2>1 DEF CoreTypeOK, FlashTypeOK, ShadowTypeOK, flashVars, Busy
<1>2. CASE ~write_skipped(idx, val)
  <2>1. write_start(idx, val) /\ pc' = "pvf" /\ resume' = nxt
    BY <1>2 DEF PvfWrite
  <2>2. FlashTypeOK' /\ ShadowTypeOK'
    BY <2>1, WriteStartType DEF CoreTypeOK
  <2> QED
    BY <2>1, <2>2 DEF CoreTypeOK, PC
<1> QED
  BY <1>1, <1>2

LEMMA NoShadowType == ASSUME powerupVarShadow' = NoShadow PROVE ShadowTypeOK'
BY VarNumAssumption DEF ShadowTypeOK, NoShadow, Word

LEMMA ResetType == ASSUME BoardTypeOK, Reset PROVE BoardTypeOK'
<1>1. FlashTypeOK'
  BY FlashResetType DEF BoardTypeOK, Reset
<1>2. ShadowTypeOK'
  BY NoShadowType DEF Reset
<1>3. pc' \in PC /\ resume' \in PC /\ link' \in Msg
  BY DEF Reset, PC, Msg, NoMsg
<1> QED
  BY <1>1, <1>2, <1>3 DEF BoardTypeOK, ShadowTypeOK

LEMMA LoadAppType == ASSUME CoreTypeOK, iap_load_app PROVE CoreTypeOK'
<1>1. CASE StackTopLegal
  <2>1. /\ pc' \in {"init", "crashed"} /\ mark' = Unmarked /\ job' = NoJob
        /\ powerupVarShadow' = NoShadow /\ UNCHANGED <<flash, resume>>
    BY <1>1 DEF iap_load_app
  <2>2. FlashTypeOK'
    BY <2>1 DEF CoreTypeOK, FlashTypeOK, Unmarked, NoJob, Busy
  <2>3. ShadowTypeOK'
    BY <2>1, NoShadowType
  <2> QED
    BY <2>1, <2>2, <2>3 DEF CoreTypeOK, PC
<1>2. CASE ~StackTopLegal
  <2>1. PvfWrite(VAR_BOOT_OPTI, BOOT_PARAM_BL, "hung")
    BY <1>2 DEF iap_load_app
  <2>2. "hung" \in PC
    BY DEF PC
  <2> QED
    BY <2>1, <2>2, BootWords, PvfWriteType
<1> QED
  BY <1>1, <1>2

(* A step that leaves flash, field, and shadow alone. *)
LEMMA QuietType ==
  ASSUME CoreTypeOK, UNCHANGED <<flashVars, powerupVarShadow>>,
         pc' \in PC, resume' \in PC
  PROVE  CoreTypeOK'
BY DEF CoreTypeOK, FlashTypeOK, ShadowTypeOK, flashVars, Busy

LEMMA BoardStepType == ASSUME BoardTypeOK, BoardStep PROVE BoardTypeOK'
<1> USE DEF PC
<1>0. CoreTypeOK /\ link \in Msg
  BY BoardCore
<1> SUFFICES CoreTypeOK' /\ link' \in Msg
  BY DEF BoardTypeOK, CoreTypeOK, ShadowTypeOK
<1>1. ASSUME FlashStep, UNCHANGED <<powerupVarShadow, pc, resume, link>>
      PROVE  CoreTypeOK' /\ link' \in Msg
  <2>1. FlashTypeOK'
    BY <1>0, <1>1, EraseOkType, ProgramOkType DEF FlashStep, CoreTypeOK
  <2> QED
    BY <2>1, <1>0, <1>1 DEF CoreTypeOK, ShadowTypeOK
<1>2. CASE SystemReset
  <2>1. BoardTypeOK'
    BY <1>2, ResetType DEF SystemReset
  <2> QED
    BY <2>1 DEF BoardTypeOK, CoreTypeOK, ShadowTypeOK
<1>3. CASE PvfReturn
  <2>1. write_end /\ pc' = resume /\ UNCHANGED <<resume, link>>
    BY <1>3 DEF PvfReturn
  <2>2. FlashTypeOK' /\ ShadowTypeOK'
    BY <2>1, <1>0, WriteEndType DEF CoreTypeOK
  <2> QED
    BY <2>1, <2>2, <1>0 DEF CoreTypeOK
<1>4. CASE BootCheck
  <2>1. CASE KnownBootOption
    BY <2>1, <1>0, <1>4, QuietType DEF BootCheck, CoreTypeOK
  <2>2. CASE ~KnownBootOption
    BY <2>2, <1>0, <1>4, PvfWriteType, BootWords DEF BootCheck
  <2> QED
    BY <2>1, <2>2
<1>5. CASE WindowCloses
  <2>1. CASE read(VAR_BOOT_OPTI) = BOOT_PARAM_APP
    BY <2>1, <1>0, <1>5, LoadAppType DEF WindowCloses
  <2>2. CASE read(VAR_BOOT_OPTI) # BOOT_PARAM_APP
    BY <2>2, <1>0, <1>5, QuietType DEF WindowCloses, CoreTypeOK
  <2> QED
    BY <2>1, <2>2
<1>6. CASE bl_write_memory
  <2>1. link \in WriteMsg
    BY <1>0, <1>6 DEF bl_write_memory, Msg
  <2>2. link.addr \in Addr /\ link.val \in Word
    BY <2>1 DEF WriteMsg
  <2>3. FlashTypeOK'
    BY <2>2, <1>0, <1>6, OneWriteType DEF bl_write_memory, CoreTypeOK
  <2>4. link' \in Msg
    BY <2>1, <1>6 DEF bl_write_memory, Msg, WriteMsg
  <2> QED
    BY <2>3, <2>4, <1>0, <1>6 DEF bl_write_memory, CoreTypeOK, ShadowTypeOK
<1>7. CASE bl_write_memory_end
  <2>1. link' \in Msg
    BY <1>7 DEF bl_write_memory_end, Msg, NoMsg
  <2> QED
    BY <2>1, <1>0, <1>7, QuietType DEF bl_write_memory_end, CoreTypeOK
<1>8. CASE bl_go
  <2>1. link' \in Msg
    BY <1>8 DEF bl_go, Msg
  <2> QED
    BY <2>1, <1>0, <1>8, LoadAppType DEF bl_go
<1>9. CASE InitInApp
  <2>1. CASE initInApp_needed
    <3>1. initInApp_start /\ pc' = "init1" /\ UNCHANGED <<resume, link>>
      BY <2>1, <1>9 DEF InitInApp
    <3> QED
      BY <3>1, <1>0, InitStartType DEF CoreTypeOK
  <2>2. CASE ~initInApp_needed
    BY <2>2, <1>0, <1>9, QuietType DEF InitInApp, CoreTypeOK
  <2> QED
    BY <2>1, <2>2
<1>10. CASE InitInAppCheck
  BY <1>0, <1>10, InitCheckType DEF InitInAppCheck, CoreTypeOK
<1>11. CASE InitInAppReturn
  BY <1>0, <1>11, WriteEndType DEF InitInAppReturn, CoreTypeOK
<1>12. CASE iapHandlerFunc
  <2>1. link' \in Msg
    BY <1>12 DEF iapHandlerFunc, Msg
  <2>2. "reset" \in PC
    OBVIOUS
  <2>3. PvfWrite(VAR_BOOT_OPTI, BOOT_PARAM_LOADING, "reset")
    BY <1>12 DEF iapHandlerFunc
  <2> QED
    BY <1>0, <2>1, <2>2, <2>3, PvfWriteType, BootWords
<1> QED
  BY <1>1, <1>2, <1>3, <1>4, <1>5, <1>6, <1>7, <1>8, <1>9, <1>10, <1>11, <1>12
  DEF BoardStep

-----------------------------------------------------------------------------
(* The whole update. *)

(* Where the host is never runs past what it has to send. *)
NextFits ==
  /\ hpc \in {"sync", "called"} => next = 0
  /\ hpc = "blocks" => next \in Block
  /\ hpc = "params" => next < Len(params)

UpdateInv == UpdateTypeOK /\ NextFits

LEMMA BlockCount ==
  /\ Cardinality(Block) \in Nat /\ 0 \in Block
  /\ \A b \in Block : b \in Nat
  /\ \A b \in Block : b + 1 < Cardinality(Block) => b + 1 \in Block
BY ImageAssumption

LEMMA SpendType ==
  ASSUME left \in [Trouble -> Nat], NEW what \in Trouble, Spend(what)
  PROVE  left' \in [Trouble -> Nat]
BY DEF Spend

(* The field restorebootparam sends back. *)
LEMMA RestoredType ==
  ASSUME FlashTypeOK
  PROVE  /\ RestoreCount \in 0 .. MAX_VAR_NUM_FUTURE
         /\ \A i \in 0 .. MAX_VAR_NUM_FUTURE : RestoredVar(i) \in Word
<1>1. DefaultCount \in Word
  BY DefaultCountAssumption DEF DefaultCount
<1>2. RestoreCount \in 0 .. MAX_VAR_NUM_FUTURE
  BY SuitType, VarNumAssumption DEF RestoreCount, DefaultSuit
<1> QED
  BY <1>1, <1>2, ReadType, BootWords DEF RestoredVar

LEMMA DeliveredType ==
  ASSUME NEW v \in Version, NEW s \in Setting
  PROVE  Delivered(v, s) \in [Addr -> Word]
<1> DEFINE f == [i \in 0 .. VarNum - 1 |->
                   IF i = VAR_BOOT_OPTI THEN BOOT_PARAM_APP
                   ELSE IF i = VAR_NUM_OF_VAR THEN NumWord ELSE s]
<1>1. \A i \in 0 .. VarNum - 1 : f[i] \in Word
  BY WordAssumption, SettingAssumption
<1>2. ASSUME NEW a \in Addr, \E i \in 0 .. VarNum - 1 : a = VarAddr[i]
      PROVE  f[CHOOSE i \in 0 .. VarNum - 1 : a = VarAddr[i]] \in Word
  BY <1>1, <1>2
<1>3. ImgWord[v] \in Word /\ Erased \in Word
  BY ImageAssumption DEF Erased, Word
<1>4. Delivered(v, s) =
        [a \in Addr |->
           IF \E b \in Block : a = BlockAddr[b] THEN ImgWord[v]
           ELSE IF a = VarAddr[VarNum] THEN check_func(f, VarNum)
           ELSE IF \E i \in 0 .. VarNum - 1 : a = VarAddr[i]
                  THEN f[CHOOSE i \in 0 .. VarNum - 1 : a = VarAddr[i]]
           ELSE Erased]
  BY DEF Delivered
<1>5. check_func(f, VarNum) \in Word
  BY CheckType
<1> HIDE DEF f
<1>6. ASSUME NEW a \in Addr PROVE Delivered(v, s)[a] \in Word
  <2>1. CASE \E b \in Block : a = BlockAddr[b]
    BY <2>1, <1>3, <1>4
  <2>2. CASE ~(\E b \in Block : a = BlockAddr[b]) /\ a = VarAddr[VarNum]
    BY <2>2, <1>4, <1>5
  <2>3. CASE /\ ~(\E b \in Block : a = BlockAddr[b]) /\ a # VarAddr[VarNum]
             /\ \E i \in 0 .. VarNum - 1 : a = VarAddr[i]
    BY <2>3, <1>2, <1>4
  <2>4. CASE /\ ~(\E b \in Block : a = BlockAddr[b]) /\ a # VarAddr[VarNum]
             /\ ~(\E i \in 0 .. VarNum - 1 : a = VarAddr[i])
    BY <2>4, <1>3, <1>4
  <2> QED
    BY <2>1, <2>2, <2>3, <2>4
<1> QED
  BY <1>4, <1>6

LEMMA BoardInitType ==
  ASSUME NEW contents \in [Addr -> Word], BoardInit(contents)
  PROVE  BoardTypeOK
<1>1. FlashTypeOK
  BY DEF BoardInit, FlashInit, FlashTypeOK, Unmarked, NoJob, Busy
<1>2. ShadowTypeOK
  BY VarNumAssumption DEF BoardInit, ShadowTypeOK, NoShadow, Word
<1> QED
  BY <1>1, <1>2 DEF BoardInit, BoardTypeOK, ShadowTypeOK, PC, Msg, NoMsg

LEMMA UpdateInitInv == UpdateInit => UpdateInv
<1> SUFFICES ASSUME UpdateInit PROVE UpdateInv
  OBVIOUS
<1>1. BoardTypeOK /\ image \in {"sound", "suspect"} /\ setting \in SUBSET Word
  <2>1. ASSUME NEW v \in Version, NEW s \in Setting, BoardInit(Delivered(v, s)),
               image = "sound" /\ setting = {s}
        PROVE  BoardTypeOK /\ image \in {"sound", "suspect"} /\ setting \in SUBSET Word
    BY <2>1, DeliveredType, BoardInitType, SettingAssumption
  <2>2. ASSUME BoardInit([a \in Addr |-> Erased]), image = "suspect" /\ setting = {}
        PROVE  BoardTypeOK /\ image \in {"sound", "suspect"} /\ setting \in SUBSET Word
    <3>1. [a \in Addr |-> Erased] \in [Addr -> Word]
      BY DEF Erased, Word
    <3> QED
      BY <2>2, <3>1, BoardInitType
  <2> QED
    BY <2>1, <2>2 DEF UpdateInit
<1>2. ver \in Version /\ left \in [Trouble -> Nat]
  BY VersionAssumption, BudgetAssumption DEF UpdateInit
<1>3. params \in Seq(Write)
  BY EmptySeq DEF UpdateInit
<1>4. hpc = "off" /\ next = 0 /\ clean \in BOOLEAN /\ faulty \in BOOLEAN
  BY DEF UpdateInit
<1> QED
  BY <1>1, <1>2, <1>3, <1>4 DEF UpdateInv, UpdateTypeOK, NextFits, HPC

-----------------------------------------------------------------------------
(* The host's steps. *)

LEMMA LinkOnlyType ==
  ASSUME BoardTypeOK, UNCHANGED <<flashVars, powerupVarShadow, pc, resume>>,
         link' \in Msg
  PROVE  BoardTypeOK'
BY QuietType, BoardCore DEF BoardTypeOK, CoreTypeOK, ShadowTypeOK

LEMMA BoardSame == ASSUME BoardTypeOK, UNCHANGED boardVars PROVE BoardTypeOK'
BY LinkOnlyType DEF boardVars, BoardTypeOK

LEMMA NoMsgType == NoMsg \in Msg
BY DEF NoMsg, Msg

LEMMA HostStartInv == ASSUME UpdateInv, HostStart PROVE UpdateInv'
<1>1. BoardTypeOK'
  BY LinkOnlyType, NoMsgType DEF HostStart, UpdateInv, UpdateTypeOK
<1>2. left' \in [Trouble -> Nat]
  BY SpendType DEF HostStart, UpdateInv, UpdateTypeOK, Trouble
<1>3. params' \in Seq(Write)
  BY EmptySeq DEF HostStart
<1> QED
  BY <1>1, <1>2, <1>3
  DEF HostStart, UpdateInv, UpdateTypeOK, NextFits, HPC, history

LEMMA HostCallsAppInv == ASSUME UpdateInv, HostCallsApp PROVE UpdateInv'
<1>1. [st |-> "call"] \in Msg
  BY DEF Msg
<1>2. BoardTypeOK'
  BY <1>1, LinkOnlyType DEF HostCallsApp, UpdateInv, UpdateTypeOK
<1> QED
  BY <1>2
  DEF HostCallsApp, Queries, UpdateInv, UpdateTypeOK, NextFits, HPC, history

LEMMA HostRefusesAppInv == ASSUME UpdateInv, HostRefusesApp PROVE UpdateInv'
<1>1. BoardTypeOK'
  BY BoardSame DEF HostRefusesApp, UpdateInv, UpdateTypeOK
<1> QED
  BY <1>1 DEF HostRefusesApp, UpdateInv, UpdateTypeOK, NextFits, HPC, history

LEMMA HostUnansweredInv == ASSUME UpdateInv, HostUnanswered PROVE UpdateInv'
<1>1. BoardTypeOK'
  BY BoardSame DEF HostUnanswered, UpdateInv, UpdateTypeOK
<1>2. left' \in [Trouble -> Nat]
  BY SpendType DEF HostUnanswered, UpdateInv, UpdateTypeOK, Trouble
<1> QED
  BY <1>1, <1>2
  DEF HostUnanswered, UpdateInv, UpdateTypeOK, NextFits, HPC, history

LEMMA HostInBootloaderInv == ASSUME UpdateInv, HostInBootloader PROVE UpdateInv'
<1>1. BoardTypeOK'
  BY BoardSame DEF HostInBootloader, UpdateInv, UpdateTypeOK
<1>2. next' \in Block /\ hpc' = "blocks"
  BY BlockCount DEF HostInBootloader, Expects, UpdateInv, NextFits
<1>3. clean' \in BOOLEAN
  BY DEF HostInBootloader, Fresh
<1> QED
  BY <1>1, <1>2, <1>3
  DEF HostInBootloader, UpdateInv, UpdateTypeOK, NextFits, HPC

LEMMA HostSendsInv == ASSUME UpdateInv, HostSends PROVE UpdateInv'
<1>1. CASE hpc = "blocks"
  <2>1. BlockAddr[next] \in Addr /\ ImgWord[ver] \in Word
    BY <1>1, ImageAssumption DEF UpdateInv, UpdateTypeOK, NextFits
  <2> QED
    BY <1>1, <2>1, LinkOnlyType
    DEF HostSends, Request, BlockWrite, Msg, WriteMsg, UpdateInv, UpdateTypeOK,
        NextFits, hostVars, history
<1>2. CASE hpc = "params"
  <2>1. next + 1 \in 1 .. Len(params) /\ params \in Seq(Write)
    BY <1>2 DEF UpdateInv, UpdateTypeOK, NextFits
  <2>2. params[next + 1] \in Write
    BY <2>1
  <2>3. Request \in Msg
    BY <1>2, <2>2 DEF Request, Msg, WriteMsg, Write
  <2> QED
    BY <2>3, LinkOnlyType
    DEF HostSends, UpdateInv, UpdateTypeOK, NextFits, hostVars, history
<1>3. CASE hpc = "go"
  <2>1. Request \in Msg
    BY <1>3 DEF Request, Msg
  <2> QED
    BY <2>1, LinkOnlyType
    DEF HostSends, UpdateInv, UpdateTypeOK, NextFits, hostVars, history
<1> QED
  BY <1>1, <1>2, <1>3 DEF HostSends

LEMMA HostGetsAckInv == ASSUME UpdateInv, HostGetsAck PROVE UpdateInv'
<1>1. BoardTypeOK'
  BY LinkOnlyType, NoMsgType DEF HostGetsAck, UpdateInv, UpdateTypeOK
<1>2. next \in Nat /\ hpc \in HPC
  BY DEF UpdateInv, UpdateTypeOK
<1>3. hpc' \in HPC /\ next' \in Nat /\ NextFits'
  <2>1. CASE next + 1 < Length
    <3>1. next' = next + 1 /\ hpc' = hpc /\ params' = params
      BY <2>1 DEF HostGetsAck
    <3>2. hpc = "blocks" => next' \in Block
      BY <2>1, <3>1, BlockCount DEF Length, UpdateInv, NextFits
    <3>3. hpc \in {"blocks", "params"}
      BY <2>1, <1>2 DEF Length
    <3> QED
      BY <1>2, <2>1, <3>1, <3>2, <3>3 DEF NextFits, Length
  <2>2. CASE ~(next + 1 < Length)
    <3>1. next' = 0 /\ hpc' \in {"read", "go", "done"}
      BY <2>2 DEF HostGetsAck, After
    <3> QED
      BY <3>1 DEF NextFits, HPC
  <2> QED
    BY <2>1, <2>2
<1>4. image' \in {"sound", "suspect"}
  BY DEF HostGetsAck, UpdateInv, UpdateTypeOK
<1> QED
  BY <1>1, <1>3, <1>4 DEF HostGetsAck, UpdateInv, UpdateTypeOK

LEMMA HostGetsNackInv == ASSUME UpdateInv, HostGetsNack PROVE UpdateInv'
<1>1. BoardTypeOK'
  BY LinkOnlyType, NoMsgType DEF HostGetsNack, UpdateInv, UpdateTypeOK
<1> QED
  BY <1>1 DEF HostGetsNack, UpdateInv, UpdateTypeOK, NextFits, hostVars, history

LEMMA HostReadsParamsInv == ASSUME UpdateInv, HostReadsParams PROVE UpdateInv'
<1> DEFINE n == RestoreCount
           f == [i \in 0 .. n - 1 |-> RestoredVar(i)]
           check == [addr |-> VarAddr[n], val |-> check_func(f, n)]
           words == FieldWrites(f, 0, n - 1)
<1>1. FlashTypeOK
  BY DEF UpdateInv, UpdateTypeOK, BoardTypeOK
<1>2. n \in 0 .. MAX_VAR_NUM_FUTURE /\ n - 1 \in -1 .. MAX_VAR_NUM_FUTURE
  BY <1>1, RestoredType, VarNumAssumption
<1>3. \A i \in 0 .. n - 1 : f[i] \in Word
  <2> SUFFICES ASSUME NEW i \in 0 .. n - 1 PROVE RestoredVar(i) \in Word
    OBVIOUS
  <2>1. i \in 0 .. MAX_VAR_NUM_FUTURE
    BY <1>2, VarNumAssumption
  <2> QED
    BY <1>1, <2>1, RestoredType
<1>4. check \in Write
  BY <1>2, CheckType, FieldAssumption DEF Write
<1>5. words \in Seq(Write)
  BY <1>2, <1>3, FieldWritesType
<1>6. params' = Append(words, check) /\ hpc' = "params" /\ next' = 0
  BY DEF HostReadsParams
<1> HIDE DEF words, check, f, n
<1>7. params' \in Seq(Write) /\ Len(params') = Len(words) + 1
  BY <1>4, <1>5, <1>6
<1>8. Len(words) \in Nat
  BY <1>5
<1>9. BoardTypeOK'
  BY BoardSame DEF HostReadsParams, UpdateInv, UpdateTypeOK
<1> QED
  BY <1>6, <1>7, <1>8, <1>9
  DEF HostReadsParams, UpdateInv, UpdateTypeOK, NextFits, HPC, history

LEMMA HostExitsInv == ASSUME UpdateInv, HostExits PROVE UpdateInv'
<1>1. BoardTypeOK'
  BY LinkOnlyType, NoMsgType DEF HostExits, UpdateInv, UpdateTypeOK
<1>2. left' \in [Trouble -> Nat]
  BY SpendType DEF HostExits, UpdateInv, UpdateTypeOK, Trouble
<1>3. params' \in Seq(Write)
  BY EmptySeq DEF HostExits
<1>4. setting' \in SUBSET Word
  BY DEF HostExits, UpdateInv, UpdateTypeOK
<1> QED
  BY <1>1, <1>2, <1>3, <1>4 DEF HostExits, UpdateInv, UpdateTypeOK, NextFits, HPC

-----------------------------------------------------------------------------
(* The surroundings' steps, and the board's own. *)

LEMMA LoseMessageInv == ASSUME UpdateInv, LoseMessage PROVE UpdateInv'
<1>1. BoardTypeOK'
  BY LinkOnlyType, NoMsgType DEF LoseMessage, UpdateInv, UpdateTypeOK
<1>2. left' \in [Trouble -> Nat]
  BY SpendType DEF LoseMessage, UpdateInv, UpdateTypeOK, Trouble
<1> QED
  BY <1>1, <1>2 DEF LoseMessage, UpdateInv, UpdateTypeOK, NextFits, hostVars, history

LEMMA PowerLossInv == ASSUME UpdateInv, PowerLoss PROVE UpdateInv'
<1>1. BoardTypeOK'
  BY ResetType DEF PowerLoss, UpdateInv, UpdateTypeOK
<1>2. left' \in [Trouble -> Nat]
  BY SpendType DEF PowerLoss, UpdateInv, UpdateTypeOK, Trouble
<1>3. setting' \in SUBSET Word
  BY DEF PowerLoss, UpdateInv, UpdateTypeOK
<1> QED
  BY <1>1, <1>2, <1>3 DEF PowerLoss, UpdateInv, UpdateTypeOK, NextFits, hostVars

LEMMA FlashErrorInv == ASSUME UpdateInv, FlashError PROVE UpdateInv'
<1>1. FlashTypeOK'
  BY FlashFailsType DEF FlashError, UpdateInv, UpdateTypeOK, BoardTypeOK
<1>2. left' \in [Trouble -> Nat]
  BY SpendType DEF FlashError, UpdateInv, UpdateTypeOK, Trouble
<1>3. setting' \in SUBSET Word /\ faulty' \in BOOLEAN
  BY DEF FlashError, UpdateInv, UpdateTypeOK, FieldAtWork
<1> QED
  BY <1>1, <1>2, <1>3
  DEF FlashError, UpdateInv, UpdateTypeOK, BoardTypeOK, NextFits, hostVars

LEMMA OperatorInv == ASSUME UpdateInv, Operator PROVE UpdateInv'
<1> USE DEF PC
<1>1. CoreTypeOK /\ setting \in SUBSET Word /\ clean \in BOOLEAN /\ link \in Msg
  BY BoardCore DEF UpdateInv, UpdateTypeOK
<1>2. BoardTypeOK' /\ setting' \in SUBSET Word /\ clean' \in BOOLEAN
  <2>1. CASE WindowEmergency /\ clean' = FALSE /\ UNCHANGED setting
    <3>1. CoreTypeOK' /\ link' = link
      BY <1>1, <2>1, PvfWriteType, BootWords DEF WindowEmergency
    <3> QED
      BY <1>1, <2>1, <3>1 DEF BoardTypeOK, CoreTypeOK, ShadowTypeOK
  <2>2. ASSUME NEW w \in Setting, UidUnlockHandlerFunc(FirstSetting, w),
               UNCHANGED clean,
               setting' = IF FirstSetting >= getSuitVarNum \/ TooLong THEN setting
                          ELSE IF verifyPowerupField /\ hpc # "params" THEN {w}
                          ELSE {}
        PROVE  BoardTypeOK' /\ setting' \in SUBSET Word /\ clean' \in BOOLEAN
    <3>1. w \in Word
      BY SettingAssumption
    <3>2. CoreTypeOK' /\ link' = link
      BY <1>1, <2>2, <3>1, PvfWriteType DEF UidUnlockHandlerFunc
    <3> QED
      BY <1>1, <2>2, <3>1, <3>2 DEF BoardTypeOK, CoreTypeOK, ShadowTypeOK
  <2>3. CASE chipResetHandlerFunc /\ UNCHANGED <<clean, setting>>
    <3>1. CoreTypeOK' /\ link' = link
      BY <1>1, <2>3, QuietType DEF chipResetHandlerFunc, CoreTypeOK
    <3> QED
      BY <1>1, <2>3, <3>1 DEF BoardTypeOK, CoreTypeOK, ShadowTypeOK
  <2> QED
    BY <2>1, <2>2, <2>3 DEF Operator
<1>3. UNCHANGED <<hostVars, left, image, faulty>>
  BY DEF Operator
<1> QED
  BY <1>2, <1>3 DEF UpdateInv, UpdateTypeOK, NextFits, hostVars

LEMMA BoardRunsInv == ASSUME UpdateInv, BoardRuns PROVE UpdateInv'
<1>1. BoardTypeOK'
  BY BoardStepType DEF BoardRuns, UpdateInv, UpdateTypeOK
<1>2. image' \in {"sound", "suspect"} /\ faulty' \in BOOLEAN
  BY DEF BoardRuns, UpdateInv, UpdateTypeOK
<1> QED
  BY <1>1, <1>2 DEF BoardRuns, UpdateInv, UpdateTypeOK, NextFits, hostVars

LEMMA UpdateStepInv == UpdateInv /\ [UpdateNext]_vars => UpdateInv'
<1> SUFFICES ASSUME UpdateInv, [UpdateNext]_vars PROVE UpdateInv'
  OBVIOUS
<1>1. CASE BoardRuns
  BY <1>1, BoardRunsInv
<1>2. CASE HostStep
  BY <1>2, HostCallsAppInv, HostRefusesAppInv, HostInBootloaderInv, HostSendsInv,
     HostGetsAckInv, HostGetsNackInv, HostReadsParamsInv DEF HostStep
<1>3. CASE HostStart
  BY <1>3, HostStartInv
<1>4. CASE HostExits
  BY <1>4, HostExitsInv
<1>5. CASE LoseMessage
  BY <1>5, LoseMessageInv
<1>6. CASE PowerLoss
  BY <1>6, PowerLossInv
<1>7. CASE FlashError
  BY <1>7, FlashErrorInv
<1>8. CASE Operator
  BY <1>8, OperatorInv
<1>9. CASE UNCHANGED vars
  <2>1. BoardTypeOK'
    BY <1>9, BoardSame DEF vars, UpdateInv, UpdateTypeOK
  <2> QED
    BY <1>9, <2>1 DEF vars, hostVars, history, UpdateInv, UpdateTypeOK, NextFits
<1>10. CASE HostUnanswered
  BY <1>10, HostUnansweredInv
<1> QED
  BY <1>1, <1>2, <1>3, <1>4, <1>5, <1>6, <1>7, <1>8, <1>9, <1>10 DEF UpdateNext

-----------------------------------------------------------------------------
(* Where a flash job can be, and which sector it works in.                 *)

Idle == pc \notin {"write", "pvf", "init1", "init2"}

JobPlaces ==
  /\ Idle => ~Busy
  /\ pc \in {"boot", "window", "init", "app", "reset"} => ~mark[FieldSector]
  /\ \A k \in DOMAIN job.todo : SectorOf[job.todo[k].addr] = CurrentSector
  /\ job.pc = "erase" => ~mark[CurrentSector]
  /\ job.pc = "program" => mark[CurrentSector]
  /\ pc \in {"pvf", "init1", "init2"} /\ Busy => CurrentSector = FieldSector
  /\ pc = "pvf" => resume \in {"window", "loop", "hung", "app", "reset"}

LEMMA FieldPlace ==
  ASSUME NEW i \in 0 .. MAX_VAR_NUM_FUTURE
  PROVE  VarAddr[i] \in Addr /\ SectorOf[VarAddr[i]] = FieldSector
<1>1. 0 \in 0 .. MAX_VAR_NUM_FUTURE
  BY VarNumAssumption
<1> QED
  BY <1>1, FieldAssumption DEF FieldSector

LEMMA BlockPlace ==
  ASSUME NEW b \in Block
  PROVE  BlockAddr[b] \in Addr /\ SectorOf[BlockAddr[b]] # FieldSector
BY ImageAssumption, LayoutAssumption

LEMMA FieldSectorType == FieldSector \in Sector
<1>1. 0 \in 0 .. MAX_VAR_NUM_FUTURE
  BY VarNumAssumption
<1> QED
  BY <1>1, FieldPlace, SectorOfAssumption

LEMMA FieldWritesFacts ==
  ASSUME NEW f, NEW last \in 0 .. MAX_VAR_NUM_FUTURE, NEW k \in 0 .. last + 1
  PROVE  /\ Len(FieldWrites(f, k, last)) = last - k + 1
         /\ DOMAIN FieldWrites(f, k, last) = 1 .. last - k + 1
         /\ \A n \in 1 .. last - k + 1 :
              FieldWrites(f, k, last)[n] = [addr |-> VarAddr[k + n - 1], val |-> f[k + n - 1]]
         /\ FieldWrites(f, k, last) = <<>> <=> k = last + 1
         /\ k <= last =>
              /\ Head(FieldWrites(f, k, last)) = [addr |-> VarAddr[k], val |-> f[k]]
              /\ Tail(FieldWrites(f, k, last)) = FieldWrites(f, k + 1, last)
<1> DEFINE m == last - k + 1
           e(n) == [addr |-> VarAddr[k + n - 1], val |-> f[k + n - 1]]
           S == {e(n) : n \in 1 .. m}
           w == FieldWrites(f, k, last)
<1>1. m \in Nat /\ last \in Nat /\ k \in Nat
  BY VarNumAssumption
<1>2. w = [n \in 1 .. m |-> e(n)]
  BY DEF FieldWrites
<1>3. w \in Seq(S) /\ Len(w) = m
  <2>1. [n \in 1 .. m |-> e(n)] \in [1 .. m -> S]
    OBVIOUS
  <2>2. w \in [1 .. m -> S]
    BY <1>2, <2>1
  <2> HIDE DEF w, m, S
  <2> QED
    BY <1>1, <2>2
<1>4. w = <<>> <=> k = last + 1
  BY <1>1, <1>3, EmptySeq
<1>5. ASSUME k <= last
      PROVE  /\ Head(w) = e(1)
             /\ Tail(w) = FieldWrites(f, k + 1, last)
  <2>1. w # <<>>
    BY <1>4, <1>5, <1>1
  <2>2. Head(w) = w[1] /\ w[1] = e(1)
    BY <1>1, <1>2, <1>3, <1>5, <2>1
  <2>3. /\ Len(Tail(w)) = m - 1 /\ Tail(w) \in Seq(S)
        /\ \A n \in 1 .. m - 1 : Tail(w)[n] = w[n + 1]
    BY <1>1, <1>3, <2>1, HeadTailProperties
  <2> DEFINE v == FieldWrites(f, k + 1, last)
  <2>4. v = [n \in 1 .. m - 1 |-> e(n + 1)]
    <3>1. \A n \in 1 .. m - 1 : k + 1 + n - 1 = k + (n + 1) - 1
      BY <1>1
    <3>2. last - (k + 1) + 1 = m - 1
      BY <1>1
    <3> QED
      BY <3>1, <3>2 DEF FieldWrites
  <2>5. v \in Seq(S) /\ Len(v) = m - 1
    <3>1. ASSUME NEW n \in 1 .. m - 1 PROVE e(n + 1) \in S
      <4>1. n + 1 \in 1 .. m
        BY <1>1
      <4> HIDE DEF e
      <4> QED
        BY <4>1
    <3>2. m - 1 \in Nat
      BY <1>1, <1>5
    <3> HIDE DEF S, e, m, v
    <3>3. v \in [1 .. m - 1 -> S]
      BY <2>4, <3>1
    <3> QED
      BY <3>2, <3>3
  <2>6. \A n \in 1 .. m - 1 : Tail(w)[n] = v[n]
    BY <1>1, <1>2, <2>3, <2>4
  <2> HIDE DEF v, w, S, m
  <2>7. Tail(w) = v
    BY <2>3, <2>5, <2>6, SeqEqual
  <2> QED
    BY <2>2, <2>7 DEF v
<1>6. k + 1 - 1 = k
  BY <1>1
<1> QED
  BY <1>1, <1>2, <1>3, <1>4, <1>5, <1>6

LEMMA FieldWritesLen ==
  ASSUME NEW f, NEW last \in 0 .. MAX_VAR_NUM_FUTURE, NEW k \in 0 .. last + 1
  PROVE  DOMAIN FieldWrites(f, k, last) = 1 .. last - k + 1
BY DEF FieldWrites

LEMMA FieldWritesAt ==
  ASSUME NEW f, NEW last \in 0 .. MAX_VAR_NUM_FUTURE, NEW k \in 0 .. last + 1,
         NEW n \in 1 .. last - k + 1
  PROVE  FieldWrites(f, k, last)[n] = [addr |-> VarAddr[k + n - 1], val |-> f[k + n - 1]]
BY DEF FieldWrites

LEMMA FieldWritesNone ==
  ASSUME NEW f, NEW last \in 0 .. MAX_VAR_NUM_FUTURE, NEW k \in 0 .. last + 1
  PROVE  FieldWrites(f, k, last) = <<>> <=> k = last + 1
<1>1. last \in Nat /\ k \in Nat /\ k <= last + 1
  BY VarNumAssumption
<1>2. CASE k = last + 1
  <2>1. 1 .. last - k + 1 = {}
    BY <1>1, <1>2
  <2>2. FieldWrites(f, k, last) = <<>>
    BY <2>1 DEF FieldWrites
  <2> QED
    BY <1>2, <2>2
<1>3. CASE k # last + 1
  <2>1. 1 \in 1 .. last - k + 1
    BY <1>1, <1>3
  <2>2. 1 \in DOMAIN FieldWrites(f, k, last)
    BY <2>1, FieldWritesLen, Zenon
  <2>3. DOMAIN <<>> = {}
    OBVIOUS
  <2>4. FieldWrites(f, k, last) # <<>>
    BY <2>2, <2>3, Zenon
  <2> QED
    BY <1>3, <2>4
<1> QED
  BY <1>2, <1>3

LEMMA FieldWritesNext ==
  ASSUME NEW f, NEW last \in 0 .. MAX_VAR_NUM_FUTURE, NEW k \in 0 .. last
  PROVE  /\ Head(FieldWrites(f, k, last)) = [addr |-> VarAddr[k], val |-> f[k]]
         /\ Tail(FieldWrites(f, k, last)) = FieldWrites(f, k + 1, last)
<1>1. k \in 0 .. last + 1 /\ k <= last
  BY VarNumAssumption
<1> QED
  BY <1>1, FieldWritesFacts

(* A flash step, whole or cut, changes its own sector only. *)
LEMMA Elsewhere ==
  ASSUME FlashTypeOK, EraseOk \/ ProgramOk \/ LeavesPartial,
         NEW a \in Addr, SectorOf[a] # CurrentSector
  PROVE  flash'[a] = flash[a]
<1>1. Busy
  BY DEF EraseOk, ProgramOk, LeavesPartial, Busy
<1>2. Current.addr \in Addr /\ flash \in [Addr -> Word]
  BY <1>1, CurrentType DEF FlashTypeOK, Write
<1>3. a # Current.addr
  BY DEF CurrentSector
<1>4. CASE EraseOk
  BY <1>4 DEF EraseOk
<1>5. CASE ProgramOk
  BY <1>2, <1>3, <1>5 DEF ProgramOk
<1>6. CASE LeavesPartial
  BY <1>2, <1>3, <1>6 DEF LeavesPartial, PartlyErased, PartlyProgrammed
<1> QED
  BY <1>4, <1>5, <1>6

(* A write of the field that one call may be too short for. *)
LEMMA FieldLen ==
  ASSUME NEW f, NEW last \in 0 .. MAX_VAR_NUM_FUTURE
  PROVE  Len(FieldWrites(f, 0, last)) > MaxLen <=> last >= MaxLen
<1>1. last \in Nat /\ last + 1 \in Nat /\ MaxLen \in Nat
  BY VarNumAssumption, MaxLenAssumption
<1>2. FieldWrites(f, 0, last) =
        [n \in 1 .. last + 1 |-> [addr |-> VarAddr[n - 1], val |-> f[n - 1]]]
  BY <1>1 DEF FieldWrites
<1>3. Len(FieldWrites(f, 0, last)) = last + 1
  BY <1>1, <1>2
<1> QED
  BY <1>1, <1>3

(* The job that a write of the field begins. *)
LEMMA FieldJob ==
  ASSUME NEW f, NEW last \in 0 .. MAX_VAR_NUM_FUTURE, last < MaxLen,
         STMFLASH_write_bytes(FieldWrites(f, 0, last))
  PROVE  /\ ~Busy /\ UNCHANGED <<flash, mark>>
         /\ job'.todo = FieldWrites(f, 0, last)
         /\ job'.pc = IF mark[FieldSector] THEN "program" ELSE "erase"
         /\ CurrentSector' = FieldSector
         /\ \A n \in DOMAIN job'.todo : SectorOf[job'.todo[n].addr] = FieldSector
<1>1. last \in Nat /\ MAX_VAR_NUM_FUTURE \in Nat /\ 0 \in 0 .. last + 1 /\ 0 <= last
  BY VarNumAssumption
<1> DEFINE w == FieldWrites(f, 0, last)
<1>2. /\ Head(w) = [addr |-> VarAddr[0], val |-> f[0]]
      /\ DOMAIN w = 1 .. last - 0 + 1
      /\ \A n \in 1 .. last - 0 + 1 :
           w[n] = [addr |-> VarAddr[0 + n - 1], val |-> f[0 + n - 1]]
  <2>1. /\ DOMAIN w = 1 .. last - 0 + 1
        /\ \A n \in 1 .. last - 0 + 1 :
             w[n] = [addr |-> VarAddr[0 + n - 1], val |-> f[0 + n - 1]]
    BY <1>1, FieldWritesLen, FieldWritesAt
  <2>2. 0 \in 0 .. last
    BY <1>1
  <2> QED
    BY <2>1, <2>2, FieldWritesNext
<1> HIDE DEF w
<1>3. ASSUME NEW n \in DOMAIN w PROVE SectorOf[w[n].addr] = FieldSector
  <2>1. 0 + n - 1 \in 0 .. MAX_VAR_NUM_FUTURE /\ w[n].addr = VarAddr[0 + n - 1]
    BY <1>1, <1>2, <1>3
  <2> QED
    BY <2>1, FieldPlace
<1>4. SectorOf[Head(w).addr] = FieldSector
  BY <1>2 DEF FieldSector
<1>5. /\ ~Busy /\ UNCHANGED <<flash, mark>>
      /\ job' = [pc |-> erase_sector_once(SectorOf[Head(w).addr]), todo |-> w]
  <2>1. ~(Len(w) > MaxLen)
    BY <1>1, FieldLen, MaxLenAssumption DEF w
  <2> QED
    BY <2>1 DEF STMFLASH_write_bytes, w
<1>6. job'.todo = w /\ job'.pc = IF mark[FieldSector] THEN "program" ELSE "erase"
  BY <1>4, <1>5 DEF erase_sector_once
<1>7. CurrentSector' = FieldSector
  BY <1>4, <1>6 DEF CurrentSector, Current
<1> QED
  BY <1>3, <1>5, <1>6, <1>7 DEF w

(* The job of one word. *)
LEMMA WordJob ==
  ASSUME NEW w \in Write, STMFLASH_write_bytes(<<w>>)
  PROVE  /\ ~Busy /\ UNCHANGED <<flash, mark>>
         /\ job'.todo = <<w>>
         /\ job'.pc = IF mark[SectorOf[w.addr]] THEN "program" ELSE "erase"
         /\ CurrentSector' = SectorOf[w.addr]
         /\ \A n \in DOMAIN job'.todo : SectorOf[job'.todo[n].addr] = SectorOf[w.addr]
<1>1. ~(Len(<<w>>) > MaxLen)
  BY MaxLenAssumption
<1>2. /\ job' = [pc |-> erase_sector_once(SectorOf[Head(<<w>>).addr]), todo |-> <<w>>]
      /\ ~Busy /\ UNCHANGED <<flash, mark>>
  BY <1>1 DEF STMFLASH_write_bytes
<1>3. job'.todo = <<w>> /\ Head(<<w>>) = w /\ <<w>>[1] = w /\ DOMAIN <<w>> = {1}
  BY <1>2
<1> QED
  BY <1>2, <1>3 DEF erase_sector_once, CurrentSector, Current

(* A field that claims too many variables is not written at all. *)
LEMMA RefusedJob ==
  ASSUME FlashTypeOK, NEW f, TooLong,
         STMFLASH_write_bytes(FieldWrites(f, 0, getSuitVarNum))
  PROVE  ~Busy /\ UNCHANGED <<flash, mark>> /\ job' = Failed
<1>1. getSuitVarNum \in 0 .. MAX_VAR_NUM_FUTURE
  BY SuitType
<1>2. Len(FieldWrites(f, 0, getSuitVarNum)) > MaxLen
  BY <1>1, FieldLen DEF TooLong
<1> QED
  BY <1>2 DEF STMFLASH_write_bytes

(* One that does not is short enough. *)
LEMMA FieldShort ==
  ASSUME FlashTypeOK, ~TooLong
  PROVE  getSuitVarNum \in 0 .. MAX_VAR_NUM_FUTURE /\ getSuitVarNum < MaxLen
<1>1. getSuitVarNum \in 0 .. MAX_VAR_NUM_FUTURE
  BY SuitType
<1> QED
  BY <1>1, VarNumAssumption, MaxLenAssumption DEF TooLong

LEMMA PvfWritePlaces ==
  ASSUME CoreTypeOK, ~Busy, NEW idx, NEW val \in Word,
         NEW nxt \in {"window", "loop", "hung", "app", "reset"},
         PvfWrite(idx, val, nxt),
         nxt \in {"window", "app", "reset"} => ~mark[FieldSector], JobPlaces
  PROVE  JobPlaces'
<1>1. CASE write_skipped(idx, val)
  <2>1. UNCHANGED <<flashVars, powerupVarShadow, resume>> /\ pc' = nxt
    BY <1>1 DEF PvfWrite, write_start
  <2> QED
    BY <2>1 DEF JobPlaces, Idle, Busy, flashVars, CurrentSector, Current
<1>2. CASE ~write_skipped(idx, val)
  <2>1. write_start(idx, val) /\ pc' = "pvf" /\ resume' = nxt
    BY <1>2 DEF PvfWrite
  <2>2. STMFLASH_write_bytes(FieldWrites(Changed(idx, val), 0, getSuitVarNum))
    BY <2>1 DEF write_start
  <2>3. CASE TooLong
    <3>1. UNCHANGED <<flash, mark>> /\ job' = Failed
      BY <2>2, <2>3, RefusedJob DEF CoreTypeOK
    <3>2. DOMAIN job'.todo = {}
      BY <3>1 DEF Failed
    <3> QED
      BY <2>1, <3>1, <3>2 DEF JobPlaces, Idle, Failed, Busy
  <2>4. CASE ~TooLong
    <3>1. /\ UNCHANGED <<flash, mark>>
          /\ job'.pc = IF mark[FieldSector] THEN "program" ELSE "erase"
          /\ CurrentSector' = FieldSector
          /\ \A n \in DOMAIN job'.todo : SectorOf[job'.todo[n].addr] = FieldSector
      BY <2>2, <2>4, FieldShort, FieldJob DEF CoreTypeOK
    <3> QED
      BY <2>1, <3>1 DEF JobPlaces, Idle
  <2> QED
    BY <2>3, <2>4
<1> QED
  BY <1>1, <1>2

(* What Reset leaves. *)
LEMMA ResetPlaces == ASSUME Reset PROVE JobPlaces'
<1>1. /\ mark' = Unmarked /\ job' = NoJob /\ pc' = "boot"
  BY DEF Reset, FlashReset
<1>2. mark'[FieldSector] = FALSE
  BY <1>1, FieldSectorType DEF Unmarked
<1>3. DOMAIN job'.todo = {}
  BY <1>1 DEF NoJob
<1> QED
  BY <1>1, <1>2, <1>3 DEF JobPlaces, NoJob, Busy, Idle

LEMMA LoadAppPlaces ==
  ASSUME CoreTypeOK, ~Busy, JobPlaces, iap_load_app
  PROVE  JobPlaces'
<1>1. CASE StackTopLegal
  <2>1. /\ pc' \in {"init", "crashed"} /\ mark' = Unmarked /\ job' = NoJob
    BY <1>1 DEF iap_load_app
  <2>2. mark'[FieldSector] = FALSE
    BY <2>1, FieldSectorType DEF Unmarked
  <2>3. DOMAIN job'.todo = {}
    BY <2>1 DEF NoJob
  <2> QED
    BY <2>1, <2>2, <2>3 DEF JobPlaces, NoJob, Busy, Idle
<1>2. CASE ~StackTopLegal
  <2>1. PvfWrite(VAR_BOOT_OPTI, BOOT_PARAM_BL, "hung")
    BY <1>2 DEF iap_load_app
  <2> QED
    BY <2>1, PvfWritePlaces, BootWords
<1> QED
  BY <1>1, <1>2

(* The flash driver goes on with a job. *)
LEMMA FlashStepPlaces ==
  ASSUME FlashTypeOK, FlashStep, JobPlaces, UNCHANGED <<pc, resume>>
  PROVE  JobPlaces'
<1>1. Busy /\ job.todo # <<>> /\ job.todo \in Seq(Write)
  BY DEF FlashStep, EraseOk, ProgramOk, Busy, FlashTypeOK
<1>2. CurrentSector \in Sector
  BY <1>1, CurrentType
<1>3. ~Idle
  BY <1>1 DEF JobPlaces
<1>4. CASE EraseOk
  <2>1. /\ job'.todo = job.todo /\ job'.pc = "program"
        /\ mark' = [mark EXCEPT ![CurrentSector] = TRUE]
    BY <1>4 DEF EraseOk, FlashTypeOK
  <2>2. CurrentSector' = CurrentSector /\ mark'[CurrentSector] = TRUE
    BY <1>2, <2>1 DEF CurrentSector, Current, FlashTypeOK
  <2> QED
    BY <1>1, <1>3, <2>1, <2>2 DEF JobPlaces, Idle, Busy
<1>5. CASE ProgramOk
  <2>1. /\ job'.todo = Tail(job.todo) /\ mark' = mark
        /\ job'.pc \in {"ok", "program"} /\ job.pc = "program"
    BY <1>5 DEF ProgramOk, AfterWord
  <2>2. /\ Tail(job.todo) \in Seq(Write)
        /\ \A n \in 1 .. Len(Tail(job.todo)) :
             n + 1 \in 1 .. Len(job.todo) /\ Tail(job.todo)[n] = job.todo[n + 1]
    BY <1>1, HeadTailProperties
  <2>3. \A n \in DOMAIN job'.todo : SectorOf[job'.todo[n].addr] = CurrentSector
    BY <1>1, <2>1, <2>2 DEF JobPlaces
  <2>4. job'.pc = "program" => CurrentSector' = CurrentSector
    <3>1. FlashTypeOK'
      BY <1>5, ProgramOkType
    <3>2. ASSUME job'.pc = "program" PROVE CurrentSector' = CurrentSector
      <4>1. job'.todo # <<>> /\ job'.todo \in Seq(Write)
        BY <3>1, <3>2 DEF FlashTypeOK, Busy
      <4>2. 1 \in DOMAIN job'.todo /\ Head(job'.todo) = job'.todo[1]
        BY <4>1, EmptySeq
      <4> QED
        BY <2>3, <4>2 DEF CurrentSector, Current
    <3> QED
      BY <3>2
  <2>5. job'.pc = "ok" => DOMAIN job'.todo = {}
    <3>1. FlashTypeOK'
      BY <1>5, ProgramOkType
    <3>2. job'.pc = "ok" => job'.todo = <<>>
      BY <3>1 DEF FlashTypeOK, Busy
    <3> QED
      BY <3>2
  <2> QED
    BY <1>1, <1>3, <2>1, <2>3, <2>4, <2>5 DEF JobPlaces, Idle, Busy
<1> QED
  BY <1>4, <1>5 DEF FlashStep

LEMMA MovePlaces ==
  ASSUME JobPlaces, UNCHANGED flashVars, resume' = resume,
         (pc' \notin {"write", "pvf", "init1", "init2"} /\ ~Busy) \/ pc' = pc,
         pc' \in {"boot", "window", "init", "app", "reset"} => ~mark[FieldSector]
  PROVE  JobPlaces'
BY DEF JobPlaces, Idle, Busy, flashVars, CurrentSector, Current

LEMMA BoardPlaces ==
  ASSUME BoardTypeOK, JobPlaces, BoardStep
  PROVE  JobPlaces'
<1>0. CoreTypeOK /\ link \in Msg /\ FlashTypeOK
  BY BoardCore DEF BoardTypeOK
<1>1. CASE FlashStep /\ UNCHANGED <<powerupVarShadow, pc, resume, link>>
  BY <1>0, <1>1, FlashStepPlaces
<1>2. CASE SystemReset
  BY <1>2, ResetPlaces DEF SystemReset
<1>3. CASE PvfReturn
  <2>1. /\ ~Busy /\ UNCHANGED <<flash, job, resume>> /\ pc' = resume /\ pc = "pvf"
        /\ mark' = [mark EXCEPT ![SectorOf[VarAddr[0]]] = FALSE]
    BY <1>3 DEF PvfReturn, write_end, rst_addr_erase_mark
  <2>2. mark'[FieldSector] = FALSE
    BY <1>0, <2>1, FieldSectorType DEF FieldSector, FlashTypeOK
  <2>3. resume \in {"window", "loop", "hung", "app", "reset"}
    BY <2>1 DEF JobPlaces
  <2> QED
    BY <2>1, <2>2, <2>3 DEF JobPlaces, Busy, Idle, CurrentSector, Current
<1>4. CASE BootCheck
  <2>1. ~Busy /\ ~mark[FieldSector]
    BY <1>4 DEF BootCheck, JobPlaces, Idle
  <2>2. CASE KnownBootOption
    BY <1>4, <2>1, <2>2, MovePlaces DEF BootCheck
  <2>3. CASE ~KnownBootOption
    BY <1>0, <1>4, <2>1, <2>3, PvfWritePlaces, BootWords DEF BootCheck
  <2> QED
    BY <2>2, <2>3
<1>5. CASE WindowCloses
  <2>1. ~Busy /\ ~mark[FieldSector]
    BY <1>5 DEF WindowCloses, JobPlaces, Idle
  <2>2. CASE read(VAR_BOOT_OPTI) = BOOT_PARAM_APP
    BY <1>0, <1>5, <2>1, <2>2, LoadAppPlaces DEF WindowCloses
  <2>3. CASE read(VAR_BOOT_OPTI) # BOOT_PARAM_APP
    BY <1>5, <2>1, <2>3, MovePlaces DEF WindowCloses
  <2> QED
    BY <2>2, <2>3
<1>6. CASE bl_write_memory
  <2>1. link \in WriteMsg
    BY <1>0, <1>6 DEF bl_write_memory, Msg
  <2>2. [addr |-> link.addr, val |-> link.val] \in Write
    BY <2>1 DEF WriteMsg, Write
  <2> DEFINE w == [addr |-> link.addr, val |-> link.val]
  <2>3. STMFLASH_write_bytes(<<w>>) /\ pc' = "write" /\ resume' = resume
    BY <1>6 DEF bl_write_memory
  <2> HIDE DEF w
  <2> QED
    BY <2>2, <2>3, WordJob DEF JobPlaces, Idle, w
<1>7. CASE bl_write_memory_end
  BY <1>7, MovePlaces DEF bl_write_memory_end
<1>8. CASE bl_go
  BY <1>0, <1>8, LoadAppPlaces DEF bl_go, JobPlaces, Idle
<1>9. CASE InitInApp
  <2>1. ~Busy /\ ~mark[FieldSector]
    BY <1>9 DEF InitInApp, JobPlaces, Idle
  <2>2. CASE initInApp_needed
    <3>1. STMFLASH_write_bytes(FieldWrites(Initialised, 0, VarNum - 1)) /\ pc' = "init1"
      BY <1>9, <2>2 DEF InitInApp, initInApp_start
    <3>2. VarNum - 1 \in 0 .. MAX_VAR_NUM_FUTURE /\ VarNum - 1 < MaxLen
      BY VarNumAssumption, MaxLenAssumption
    <3> QED
      BY <2>1, <3>1, <3>2, FieldJob DEF JobPlaces, Idle
  <2>3. CASE ~initInApp_needed
    BY <1>9, <2>1, <2>3, MovePlaces DEF InitInApp
  <2> QED
    BY <2>2, <2>3
<1>10. CASE InitInAppCheck
  <2> DEFINE w == [addr |-> VarAddr[VarNum], val |-> check_func(powerupVarShadow, VarNum)]
  <2>1. VarNum \in 0 .. MAX_VAR_NUM_FUTURE
    BY VarNumAssumption
  <2>2. w \in Write /\ SectorOf[w.addr] = FieldSector
    BY <2>1, FieldPlace, CheckType DEF Write
  <2>3. STMFLASH_write_bytes(<<w>>) /\ pc' = "init2"
    BY <1>10 DEF InitInAppCheck, initInApp_check
  <2> HIDE DEF w
  <2> QED
    BY <2>2, <2>3, WordJob DEF JobPlaces, Idle
<1>11. CASE InitInAppReturn
  <2>1. /\ ~Busy /\ UNCHANGED <<flash, job, resume>> /\ pc' = "app"
        /\ mark' = [mark EXCEPT ![SectorOf[VarAddr[0]]] = FALSE]
    BY <1>11 DEF InitInAppReturn, write_end, rst_addr_erase_mark
  <2>2. mark'[FieldSector] = FALSE
    BY <1>0, <2>1, FieldSectorType DEF FieldSector, FlashTypeOK
  <2> QED
    BY <2>1, <2>2 DEF JobPlaces, Busy, Idle, CurrentSector, Current
<1>12. CASE iapHandlerFunc
  <2>1. ~Busy /\ ~mark[FieldSector]
    BY <1>12 DEF iapHandlerFunc, JobPlaces, Idle
  <2> QED
    BY <1>0, <1>12, <2>1, PvfWritePlaces, BootWords DEF iapHandlerFunc
<1> QED
  BY <1>1, <1>2, <1>3, <1>4, <1>5, <1>6, <1>7, <1>8, <1>9, <1>10, <1>11, <1>12
  DEF BoardStep

LEMMA PlacesStep ==
  ASSUME UpdateInv, JobPlaces, [UpdateNext]_vars
  PROVE  JobPlaces'
<1>0. BoardTypeOK /\ CoreTypeOK
  BY BoardCore DEF UpdateInv, UpdateTypeOK
<1>1. CASE BoardRuns
  BY <1>0, <1>1, BoardPlaces DEF BoardRuns
<1>2. CASE HostCallsApp \/ HostRefusesApp \/ HostUnanswered
  BY <1>2, MovePlaces DEF HostCallsApp, HostRefusesApp, HostUnanswered, boardVars, JobPlaces
<1>3. CASE HostStart \/ HostExits \/ LoseMessage
  BY <1>3, MovePlaces DEF HostStart, HostExits, LoseMessage, JobPlaces
<1>4. CASE HostInBootloader \/ HostSends \/ HostGetsAck \/ HostGetsNack \/ HostReadsParams
  BY <1>4, MovePlaces DEF HostInBootloader, HostSends, HostGetsAck, HostGetsNack,
     HostReadsParams, boardVars, JobPlaces
<1>5. CASE PowerLoss
  BY <1>5, ResetPlaces DEF PowerLoss
<1>6. CASE FlashError
  <2>1. /\ mark' = Unmarked /\ job' = [pc |-> "err", todo |-> <<>>] /\ Busy
        /\ UNCHANGED <<pc, resume>>
    BY <1>0, <1>6, PartialType DEF FlashError, FlashFails, Failed, BoardTypeOK
  <2>2. DOMAIN job'.todo = {}
    BY <2>1
  <2>3. ~Idle
    BY <2>1 DEF JobPlaces
  <2> QED
    BY <2>1, <2>2, <2>3 DEF JobPlaces, Idle, Busy
<1>7. CASE Operator
  <2>1. CASE WindowEmergency
    <3>1. ~Busy /\ pc = "window" /\ PvfWrite(VAR_BOOT_OPTI, BOOT_PARAM_BL, "loop")
      BY <2>1 DEF WindowEmergency, JobPlaces, Idle
    <3> QED
      BY <1>0, <3>1, PvfWritePlaces, BootWords
  <2>2. ASSUME NEW w \in Setting, UidUnlockHandlerFunc(FirstSetting, w)
        PROVE  JobPlaces'
    <3>1. ~Busy /\ ~mark[FieldSector] /\ PvfWrite(FirstSetting, w, "app") /\ w \in Word
      BY <2>2, SettingAssumption DEF UidUnlockHandlerFunc, JobPlaces, Idle
    <3> QED
      BY <1>0, <3>1, PvfWritePlaces
  <2>3. CASE chipResetHandlerFunc
    <3>1. ~Busy /\ ~mark[FieldSector]
      BY <2>3 DEF chipResetHandlerFunc, JobPlaces, Idle
    <3> QED
      BY <2>3, <3>1, MovePlaces DEF chipResetHandlerFunc
  <2> QED
    BY <1>7, <2>1, <2>2, <2>3 DEF Operator
<1>8. CASE UNCHANGED vars
  BY <1>8, MovePlaces DEF vars, boardVars, JobPlaces
<1> QED
  BY <1>1, <1>2, <1>3, <1>4, <1>5, <1>6, <1>7, <1>8 DEF UpdateNext, HostStep

LEMMA PlacesInit == UpdateInit => JobPlaces
<1> SUFFICES ASSUME UpdateInit PROVE JobPlaces
  OBVIOUS
<1>1. mark = Unmarked /\ job = NoJob /\ pc = "boot"
  BY DEF UpdateInit, BoardInit, FlashInit
<1>2. mark[FieldSector] = FALSE
  BY <1>1, FieldSectorType DEF Unmarked
<1>3. DOMAIN job.todo = {}
  BY <1>1 DEF NoJob
<1> QED
  BY <1>1, <1>2, <1>3 DEF JobPlaces, NoJob, Busy, Idle

-----------------------------------------------------------------------------
(* The one message between host and board.                                 *)

Sent == IF hpc = "blocks" THEN BlockWrite(next) ELSE params[next + 1]

(* The call to the bootloader, until the application has reset.            *)
CallPlaces ==
  link.st \in {"call", "taken"} =>
    /\ hpc = "called"
    /\ pc \in {"app", "reset", "pvf"}
    /\ link.st = "taken" => pc # "app"
    /\ pc = "pvf" => resume = IF link.st = "call" THEN "app" ELSE "reset"

LinkPlaces ==
  /\ CallPlaces
  /\ link.st \notin {"none", "call", "taken"} => hpc \in {"blocks", "params", "go"}
  /\ link.st \in {"write", "busy"} =>
       hpc # "go" /\ link.addr = Sent.addr /\ link.val = Sent.val
  /\ link.st = "go" => hpc = "go"
  /\ link.st = "busy" => pc = "write"
  /\ pc = "write" => link.st \in {"busy", "none"}
  /\ pc = "write" /\ hpc \in {"blocks", "read", "params", "go"} => link.st = "busy"
  /\ pc = "write" /\ Busy => Len(job.todo) = 1
  /\ link.st = "busy" /\ Busy => Current = Sent
  /\ link.st # "none" /\ hpc \in {"blocks", "params"} => pc \in {"loop", "write"}

(* A link without a message, or with the host's own, carries no call.      *)
LEMMA NoCall ==
  ASSUME CallPlaces, hpc # "called" \/ pc \notin {"app", "reset", "pvf"}
  PROVE  link.st \notin {"call", "taken"}
BY DEF CallPlaces

(* What is sent is a word, and its place is a block's or the field's. *)
LEMMA SentType ==
  ASSUME UpdateInv, hpc \in {"blocks", "params"}
  PROVE  /\ Sent \in Write
         /\ hpc = "blocks" => /\ next \in Block
                              /\ Sent = [addr |-> BlockAddr[next], val |-> ImgWord[ver]]
<1>1. CASE hpc = "blocks"
  <2>1. /\ next \in Block /\ ver \in Version
        /\ Sent = [addr |-> BlockAddr[next], val |-> ImgWord[ver]]
    BY <1>1 DEF Sent, BlockWrite, UpdateInv, NextFits, UpdateTypeOK
  <2> QED
    BY <2>1, ImageAssumption DEF Write
<1>2. CASE hpc = "params"
  <2>1. next + 1 \in 1 .. Len(params) /\ params \in Seq(Write)
    BY <1>2 DEF UpdateInv, UpdateTypeOK, NextFits
  <2> QED
    BY <1>2, <2>1 DEF Sent
<1> QED
  BY <1>1, <1>2

LEMMA NoMsgPlaces ==
  ASSUME link' = NoMsg, pc' # "write"
  PROVE  LinkPlaces'
BY DEF LinkPlaces, CallPlaces, NoMsg

(* Outside of write, the board moves without a message, or behind go. *)
LEMMA LinkMoves ==
  ASSUME LinkPlaces, UNCHANGED <<link, hpc, next, params, ver>>, pc \notin {"write", "loop"},
         pc' # "write", CallPlaces'
  PROVE  LinkPlaces'
BY DEF LinkPlaces, Sent, BlockWrite, Busy, Current

LEMMA PvfWriteMoves ==
  ASSUME NEW idx, NEW val, NEW nxt, PvfWrite(idx, val, nxt)
  PROVE  pc' \in {"pvf", nxt}
BY DEF PvfWrite

LEMMA LoadAppMoves == ASSUME iap_load_app PROVE pc' \in {"init", "crashed", "hung", "pvf"}
BY PvfWriteMoves DEF iap_load_app

LEMMA BoardLink ==
  ASSUME UpdateInv, JobPlaces, LinkPlaces, BoardRuns
  PROVE  LinkPlaces'
<1>0. UNCHANGED <<hpc, next, params, ver>> /\ link \in Msg
  BY DEF BoardRuns, hostVars, UpdateInv, UpdateTypeOK, BoardTypeOK
<1> USE <1>0
<1>1. CASE FlashStep /\ UNCHANGED <<powerupVarShadow, pc, resume, link>>
  <2>1. CASE pc = "write"
    <3>1. FlashTypeOK /\ Busy
      BY <1>1 DEF FlashStep, EraseOk, ProgramOk, Busy, UpdateInv, UpdateTypeOK, BoardTypeOK
    <3>2. CASE EraseOk
      <4>1. job'.todo = job.todo /\ Current' = Current
        BY <3>1, <3>2 DEF EraseOk, FlashTypeOK, Current
      <4> QED
        BY <1>1, <3>1, <4>1 DEF LinkPlaces, CallPlaces, Sent, BlockWrite
    <3>3. CASE ProgramOk
      <4>1. job'.pc = "ok"
        BY <2>1, <3>1, <3>3 DEF ProgramOk, AfterWord, LinkPlaces
      <4> QED
        BY <1>1, <4>1 DEF LinkPlaces, CallPlaces, Sent, BlockWrite, Busy
    <3> QED
      BY <1>1, <3>2, <3>3 DEF FlashStep
  <2>2. CASE pc # "write"
    BY <1>1, <2>2 DEF LinkPlaces, CallPlaces, Sent, BlockWrite
  <2> QED
    BY <2>1, <2>2
<1>2. CASE SystemReset
  BY <1>2, NoMsgPlaces DEF SystemReset, Reset
<1>3. CASE PvfReturn
  <2>1. /\ pc = "pvf" /\ pc' \in {"window", "loop", "hung", "app", "reset"} /\ link' = link
        /\ pc' = resume
    BY <1>3 DEF PvfReturn, JobPlaces
  <2>2. CallPlaces'
    BY <2>1 DEF LinkPlaces, CallPlaces
  <2> QED
    BY <2>1, <2>2, LinkMoves
<1>4. CASE BootCheck
  <2>1. pc = "boot" /\ pc' \in {"window", "pvf"} /\ link' = link
    BY <1>4, PvfWriteMoves DEF BootCheck
  <2>2. CallPlaces'
    BY <2>1 DEF LinkPlaces, CallPlaces
  <2> QED
    BY <2>1, <2>2, LinkMoves
<1>5. CASE WindowCloses
  <2>1. pc = "window" /\ pc' \in {"loop", "init", "crashed", "hung", "pvf"} /\ link' = link
    BY <1>5, LoadAppMoves DEF WindowCloses
  <2>2. CallPlaces'
    BY <2>1 DEF LinkPlaces, CallPlaces
  <2> QED
    BY <2>1, <2>2, LinkMoves
<1>6. CASE bl_write_memory
  <2>1. /\ link.st = "write" /\ pc' = "write" /\ link' = [link EXCEPT !.st = "busy"]
        /\ STMFLASH_write_bytes(<<[addr |-> link.addr, val |-> link.val]>>)
    BY <1>6 DEF bl_write_memory
  <2>2. link \in WriteMsg
    BY <2>1 DEF Msg
  <2>3. link'.st = "busy" /\ link'.addr = link.addr /\ link'.val = link.val
    BY <2>1, <2>2 DEF WriteMsg
  <2>4. hpc \in {"blocks", "params"} /\ link.addr = Sent.addr /\ link.val = Sent.val
    BY <2>1 DEF LinkPlaces
  <2>5. Sent \in Write
    BY <2>4, SentType
  <2>6. [addr |-> link.addr, val |-> link.val] = Sent
    BY <2>4, <2>5 DEF Write
  <2>7. job'.todo = <<Sent>> /\ Len(<<Sent>>) = 1 /\ Head(<<Sent>>) = Sent
    BY <2>1, <2>5, <2>6, WordJob
  <2>8. Sent' = Sent
    BY DEF Sent, BlockWrite
  <2>9. Len(job'.todo) = 1 /\ Current' = Sent'
    BY <2>7, <2>8 DEF Current
  <2> QED
    BY <2>1, <2>3, <2>4, <2>8, <2>9 DEF LinkPlaces, CallPlaces
<1>7. CASE bl_write_memory_end
  BY <1>7 DEF bl_write_memory_end, LinkPlaces, CallPlaces, NoMsg
<1>8. CASE bl_go
  <2>1. link.st = "go" /\ link' = [st |-> "ack"] /\ pc' # "write"
    BY <1>8, LoadAppMoves DEF bl_go
  <2> QED
    BY <2>1 DEF LinkPlaces, CallPlaces
<1>9. CASE InitInApp \/ InitInAppCheck \/ InitInAppReturn
  <2>1. /\ pc \in {"init", "init1", "init2"} /\ pc' \in {"init1", "init2", "app"}
        /\ link' = link
    BY <1>9 DEF InitInApp, InitInAppCheck, InitInAppReturn
  <2>2. CallPlaces'
    BY <2>1 DEF LinkPlaces, CallPlaces
  <2> QED
    BY <2>1, <2>2, LinkMoves
<1>10. CASE iapHandlerFunc
  <2>1. /\ pc = "app" /\ link.st = "call" /\ link' = [st |-> "taken"] /\ hpc = "called"
        /\ pc' = "reset" \/ (pc' = "pvf" /\ resume' = "reset")
    BY <1>10 DEF iapHandlerFunc, PvfWrite, LinkPlaces, CallPlaces
  <2> QED
    BY <2>1 DEF LinkPlaces, CallPlaces
<1> QED
  BY <1>1, <1>2, <1>3, <1>4, <1>5, <1>6, <1>7, <1>8, <1>9, <1>10 DEF BoardRuns, BoardStep

LEMMA LinkStep ==
  ASSUME UpdateInv, JobPlaces, LinkPlaces, [UpdateNext]_vars
  PROVE  LinkPlaces'
<1>1. CASE BoardRuns
  BY <1>1, BoardLink
<1>2. CASE HostCallsApp
  <2>1. link' = [st |-> "call"] /\ pc = "app" /\ pc' = "app" /\ hpc' = "called"
    BY <1>2 DEF HostCallsApp, Queries
  <2> QED
    BY <2>1 DEF LinkPlaces, CallPlaces
<1>3. CASE HostStart \/ HostExits
  <2>1. link' = NoMsg /\ UNCHANGED <<job, pc>> /\ hpc' \in {"off", "sync"}
    BY <1>3 DEF HostStart, HostExits, flashVars
  <2> QED
    BY <2>1 DEF LinkPlaces, CallPlaces, NoMsg, Busy, Current
<1>4. CASE HostInBootloader
  <2>1. UNCHANGED <<link, job, pc>> /\ pc = "loop" /\ link.st = "none"
    BY <1>4, NoCall DEF HostInBootloader, Expects, boardVars, flashVars, LinkPlaces
  <2> QED
    BY <2>1 DEF LinkPlaces, CallPlaces
<1>5. CASE HostSends
  <2>1. /\ pc = "loop" /\ hpc \in {"blocks", "params", "go"} /\ link' = Request
        /\ UNCHANGED <<pc, hpc, next, params, ver>>
    BY <1>5 DEF HostSends, hostVars
  <2>2. CASE hpc = "go"
    BY <2>1, <2>2 DEF LinkPlaces, CallPlaces, Request
  <2>3. CASE hpc # "go"
    <3>1. Request = [st |-> "write", addr |-> Sent.addr, val |-> Sent.val]
      BY <2>3 DEF Request, Sent
    <3>2. Sent' = Sent
      BY <2>1 DEF Sent, BlockWrite
    <3> QED
      BY <2>1, <2>3, <3>1, <3>2 DEF LinkPlaces, CallPlaces
  <2> QED
    BY <2>2, <2>3
<1>6. CASE HostGetsAck \/ HostGetsNack
  <2>1. link.st \in {"ack", "nack"} /\ link' = NoMsg /\ UNCHANGED <<pc, job>>
    BY <1>6 DEF HostGetsAck, HostGetsNack, flashVars
  <2> QED
    BY <2>1 DEF LinkPlaces, CallPlaces, NoMsg
<1>7. CASE HostReadsParams
  <2>1. hpc = "read" /\ pc = "loop" /\ UNCHANGED <<link, pc, job>> /\ link.st = "none"
    BY <1>7, NoCall DEF HostReadsParams, boardVars, flashVars, LinkPlaces
  <2> QED
    BY <2>1 DEF LinkPlaces, CallPlaces
<1>8. CASE LoseMessage
  <2>1. link.st # "busy" /\ link.st # "none" /\ link' = NoMsg /\ pc' = pc
    BY <1>8 DEF LoseMessage
  <2> QED
    BY <2>1 DEF LinkPlaces, CallPlaces, NoMsg
<1>9. CASE PowerLoss
  BY <1>9, NoMsgPlaces DEF PowerLoss, Reset
<1>10. CASE FlashError
  <2>1. /\ job' = [pc |-> "err", todo |-> <<>>]
        /\ UNCHANGED <<pc, resume, link, hpc, next, params, ver>>
    BY <1>10 DEF FlashError, FlashFails, Failed, hostVars
  <2> QED
    BY <2>1 DEF LinkPlaces, CallPlaces, Busy, Sent, BlockWrite
<1>11. CASE Operator
  <2>1. /\ pc \in {"window", "app"} /\ pc' \in {"pvf", "loop", "app", "reset"}
        /\ link' = link /\ UNCHANGED <<hpc, next, params, ver>>
    BY <1>11, PvfWriteMoves DEF Operator, WindowEmergency, UidUnlockHandlerFunc,
       chipResetHandlerFunc, hostVars
  <2>2. pc = "app" => pc' \in {"app", "reset"} \/ (pc' = "pvf" /\ resume' = "app")
    BY <1>11 DEF Operator, WindowEmergency, UidUnlockHandlerFunc, chipResetHandlerFunc,
       PvfWrite
  <2>3. CallPlaces'
    BY <2>1, <2>2 DEF LinkPlaces, CallPlaces
  <2> QED
    BY <2>1, <2>3, LinkMoves
<1>12. CASE UNCHANGED vars
  BY <1>12 DEF vars, boardVars, hostVars, flashVars, LinkPlaces, CallPlaces, Busy, Current,
     Sent, BlockWrite
<1>13. CASE HostRefusesApp \/ HostUnanswered
  <2>1. hpc = "sync" /\ hpc' \in {"off", "called"} /\ UNCHANGED <<job, pc, link>>
    BY <1>13 DEF HostRefusesApp, Queries, HostUnanswered, boardVars, flashVars
  <2>2. link.st = "none"
    BY <2>1, NoCall DEF LinkPlaces
  <2> QED
    BY <2>1, <2>2 DEF LinkPlaces, CallPlaces, Busy
<1> QED
  BY <1>1, <1>2, <1>3, <1>4, <1>5, <1>6, <1>7, <1>8, <1>9, <1>10, <1>11, <1>12, <1>13
  DEF UpdateNext, HostStep

LEMMA LinkInit == UpdateInit => LinkPlaces
<1> SUFFICES ASSUME UpdateInit PROVE LinkPlaces
  OBVIOUS
<1>1. link = NoMsg /\ pc = "boot" /\ hpc = "off"
  BY DEF UpdateInit, BoardInit
<1> QED
  BY <1>1 DEF LinkPlaces, CallPlaces, NoMsg

-----------------------------------------------------------------------------
(* The count of the field, whatever interrupts a write of it.              *)

CommonCount == NumWord \cap DefaultCount

KeepsCount(w) == w.addr = VarAddr[VAR_NUM_OF_VAR] => CommonCount \subseteq w.val

BoardCount ==
  /\ CommonCount \subseteq read(VAR_NUM_OF_VAR)
  /\ \A k \in DOMAIN job.todo : KeepsCount(job.todo[k])

CountInv == BoardCount /\ \A k \in DOMAIN params : KeepsCount(params[k])

LEMMA Indices ==
  /\ MAX_VAR_NUM_FUTURE \in Nat /\ VarNum \in 2 .. MAX_VAR_NUM_FUTURE
  /\ VAR_BOOT_OPTI = 0 /\ VAR_NUM_OF_VAR = 1 /\ FirstSetting = 2 /\ DefaultSuit = 2
  /\ {0, 1, 2} \subseteq 0 .. MAX_VAR_NUM_FUTURE /\ 2 < VarNum
  /\ MaxLen \in Nat /\ MaxLen >= 1 /\ VarNum < MaxLen
BY VarNumAssumption, MaxLenAssumption, FirstSettingAssumption
DEF VAR_BOOT_OPTI, VAR_NUM_OF_VAR, FirstSetting, DefaultSuit

LEMMA FieldApart ==
  ASSUME NEW i \in 0 .. MAX_VAR_NUM_FUTURE, NEW j \in 0 .. MAX_VAR_NUM_FUTURE,
         VarAddr[i] = VarAddr[j]
  PROVE  i = j
BY FieldAssumption

LEMMA CommonWord ==
  CommonCount \subseteq NumWord /\ CommonCount \subseteq DefaultCount /\ CommonCount \subseteq Bit
BY WordAssumption DEF CommonCount, Word

(* Bits a word has, and is not asked to lose, survive a step of the flash. *)
LEMMA StepKeeps ==
  ASSUME FlashTypeOK, EraseOk \/ ProgramOk \/ LeavesPartial,
         NEW a \in Addr, NEW C \in Word, C \subseteq flash[a],
         Current.addr = a => C \subseteq Current.val
  PROVE  C \subseteq flash'[a]
<1>1. Busy
  BY DEF EraseOk, ProgramOk, LeavesPartial, Busy
<1>2. Current.addr \in Addr /\ flash \in [Addr -> Word]
  BY <1>1, CurrentType DEF FlashTypeOK, Write
<1>3. CASE EraseOk
  BY <1>3 DEF EraseOk, Erased, Word
<1>4. CASE ProgramOk
  BY <1>2, <1>4 DEF ProgramOk, Programmed
<1>5. CASE LeavesPartial
  BY <1>2, <1>5 DEF LeavesPartial, PartlyErased, PartlyProgrammed, Programmed, Erased, Word
<1> QED
  BY <1>3, <1>4, <1>5

LEMMA CurrentAt ==
  ASSUME FlashTypeOK, Busy
  PROVE  1 \in DOMAIN job.todo /\ Current = job.todo[1]
<1>1. job.todo \in Seq(Write) /\ job.todo # <<>>
  BY DEF FlashTypeOK
<1> QED
  BY <1>1, EmptySeq DEF Current

LEMMA CountFlash ==
  ASSUME FlashTypeOK, BoardCount, EraseOk \/ ProgramOk \/ LeavesPartial
  PROVE  (CommonCount \subseteq read(VAR_NUM_OF_VAR))'
<1>1. Busy
  BY DEF EraseOk, ProgramOk, LeavesPartial, Busy
<1>2. KeepsCount(Current)
  BY <1>1, CurrentAt DEF BoardCount
<1>3. VarAddr[VAR_NUM_OF_VAR] \in Addr
  BY Indices, FieldPlace
<1>4. CommonCount \in Word /\ CommonCount \subseteq flash[VarAddr[VAR_NUM_OF_VAR]]
  BY CommonWord DEF Word, BoardCount, read
<1>5. CommonCount \subseteq flash'[VarAddr[VAR_NUM_OF_VAR]]
  BY <1>2, <1>3, <1>4, StepKeeps DEF KeepsCount
<1> QED
  BY <1>5 DEF read, CommonCount, DefaultCount

LEMMA CountStep == ASSUME FlashTypeOK, BoardCount, FlashStep PROVE BoardCount'
<1>1. (CommonCount \subseteq read(VAR_NUM_OF_VAR))'
  BY CountFlash DEF FlashStep
<1>2. \A k \in DOMAIN job'.todo : KeepsCount(job'.todo[k])
  <2>1. Busy /\ job.todo \in Seq(Write) /\ job.todo # <<>>
    BY DEF FlashStep, EraseOk, ProgramOk, Busy, FlashTypeOK
  <2>2. CASE EraseOk
    BY <2>2 DEF EraseOk, BoardCount, FlashTypeOK
  <2>3. CASE ProgramOk
    <3>1. /\ job'.todo = Tail(job.todo) /\ Tail(job.todo) \in Seq(Write)
          /\ \A n \in 1 .. Len(Tail(job.todo)) :
               n + 1 \in 1 .. Len(job.todo) /\ Tail(job.todo)[n] = job.todo[n + 1]
      BY <2>1, <2>3, HeadTailProperties DEF ProgramOk
    <3> QED
      BY <2>1, <3>1 DEF BoardCount
  <2> QED
    BY <2>2, <2>3 DEF FlashStep
<1> QED
  BY <1>1, <1>2 DEF BoardCount, KeepsCount, CommonCount, DefaultCount

(* What a cut step leaves, with no job left. *)
LEMMA CountCut ==
  ASSUME FlashTypeOK, BoardCount, LeavesPartial \/ UNCHANGED flash, job'.todo = <<>>
  PROVE  BoardCount'
<1>1. (CommonCount \subseteq read(VAR_NUM_OF_VAR))'
  BY CountFlash DEF BoardCount, read
<1> QED
  BY <1>1 DEF BoardCount

LEMMA CountField ==
  ASSUME NEW f, NEW last \in 1 .. MAX_VAR_NUM_FUTURE, last < MaxLen,
         CommonCount \subseteq f[1],
         BoardCount, STMFLASH_write_bytes(FieldWrites(f, 0, last))
  PROVE  BoardCount'
<1>1. last \in 0 .. MAX_VAR_NUM_FUTURE /\ 0 \in 0 .. last + 1 /\ MAX_VAR_NUM_FUTURE \in Nat
  BY Indices
<1>2. UNCHANGED flash /\ job'.todo = FieldWrites(f, 0, last)
  BY <1>1, FieldJob
<1>3. ASSUME NEW n \in 1 .. last + 1 PROVE KeepsCount(FieldWrites(f, 0, last)[n])
  <2>1. n \in 1 .. last - 0 + 1 /\ 0 + n - 1 = n - 1 /\ n - 1 \in 0 .. MAX_VAR_NUM_FUTURE
    BY <1>1
  <2>2. FieldWrites(f, 0, last)[n] = [addr |-> VarAddr[n - 1], val |-> f[n - 1]]
    BY <1>1, <2>1, FieldWritesAt
  <2> QED
    BY <2>1, <2>2, FieldApart, Indices DEF KeepsCount
<1>4. DOMAIN FieldWrites(f, 0, last) = 1 .. last + 1
  BY <1>1, FieldWritesLen
<1> QED
  BY <1>2, <1>3, <1>4 DEF BoardCount, read

LEMMA CountWord ==
  ASSUME NEW w, KeepsCount(w), BoardCount, STMFLASH_write_bytes(<<w>>)
  PROVE  BoardCount'
<1>1. UNCHANGED flash /\ job'.todo = <<w>>
  <2>1. ~(Len(<<w>>) > MaxLen)
    BY Indices
  <2> QED
    BY <2>1 DEF STMFLASH_write_bytes
<1> QED
  BY <1>1 DEF BoardCount, read

LEMMA CountSame == ASSUME BoardCount, UNCHANGED <<flash, job>> PROVE BoardCount'
BY DEF BoardCount, read

(* So a field never claims less than two variables. *)
LEMMA CountSuits ==
  ASSUME FlashTypeOK, BoardCount
  PROVE  /\ actualVarNum \in Nat /\ actualVarNum >= 2
         /\ getSuitVarNum \in 2 .. MAX_VAR_NUM_FUTURE
         /\ RestoreCount \in 2 .. MAX_VAR_NUM_FUTURE
<1>1. actualVarNum \in Nat /\ actualVarNum >= 2
  <2>1. read(VAR_NUM_OF_VAR) \in Word
    BY Indices, ReadType
  <2> QED
    BY <2>1, CountAssumption, SuitType, Indices DEF actualVarNum, BoardCount, CommonCount
<1> QED
  BY <1>1, SuitType, Indices DEF getSuitVarNum, RestoreCount

(* What pvf::write makes of the field when it changes variable idx. *)
LEMMA ChangedFacts ==
  ASSUME FlashTypeOK, BoardCount, NEW idx, NEW val
  PROVE  /\ DOMAIN Changed(idx, val) = 0 .. getSuitVarNum
         /\ \A i \in 0 .. getSuitVarNum - 1 :
              Changed(idx, val)[i] = IF i = idx THEN val ELSE read(i)
<1>1. getSuitVarNum \in 2 .. MAX_VAR_NUM_FUTURE /\ MAX_VAR_NUM_FUTURE \in Nat
  BY CountSuits, Indices
<1> QED
  BY <1>1 DEF Changed

LEMMA CountPvf ==
  ASSUME FlashTypeOK, BoardCount, NEW idx, idx # 1, NEW val, NEW nxt, PvfWrite(idx, val, nxt)
  PROVE  BoardCount'
<1>1. CASE write_skipped(idx, val)
  BY <1>1, CountSame DEF PvfWrite, write_start, flashVars
<1>2. CASE ~write_skipped(idx, val)
  <2>1. STMFLASH_write_bytes(FieldWrites(Changed(idx, val), 0, getSuitVarNum))
    BY <1>2 DEF PvfWrite, write_start
  <2>2. getSuitVarNum \in 1 .. MAX_VAR_NUM_FUTURE /\ 1 \in 0 .. getSuitVarNum - 1
    BY CountSuits, Indices
  <2>3. Changed(idx, val)[1] = read(1)
    BY <2>2, ChangedFacts
  <2>4. CASE TooLong
    BY <2>1, <2>4, RefusedJob, CountCut DEF Failed
  <2>5. CASE ~TooLong
    BY <2>1, <2>2, <2>3, <2>5, FieldShort, CountField, Indices DEF BoardCount
  <2> QED
    BY <2>4, <2>5
<1> QED
  BY <1>1, <1>2

LEMMA CountLoad == ASSUME FlashTypeOK, BoardCount, iap_load_app PROVE BoardCount'
<1>1. CASE StackTopLegal
  BY <1>1, CountCut DEF iap_load_app, NoJob
<1>2. CASE ~StackTopLegal
  BY <1>2, CountPvf, Indices DEF iap_load_app
<1> QED
  BY <1>1, <1>2

LEMMA CountReset == ASSUME FlashTypeOK, BoardCount, Reset PROVE BoardCount'
BY CountCut DEF Reset, FlashReset, NoJob

(* The words of the restored field, in their places. *)
LEMMA RestoredFacts ==
  ASSUME FlashTypeOK, BoardCount, HostReadsParams
  PROVE  /\ RestoreCount \in 2 .. MAX_VAR_NUM_FUTURE
         /\ Len(params') = RestoreCount + 1
         /\ \A i \in 0 .. RestoreCount - 1 :
              params'[i + 1] = [addr |-> VarAddr[i], val |-> RestoredVar(i)]
         /\ params'[RestoreCount + 1] =
              [addr |-> VarAddr[RestoreCount],
               val |-> check_func([i \in 0 .. RestoreCount - 1 |-> RestoredVar(i)],
                                  RestoreCount)]
<1> DEFINE n == RestoreCount
           f == [i \in 0 .. n - 1 |-> RestoredVar(i)]
           check == [addr |-> VarAddr[n], val |-> check_func(f, n)]
           words == FieldWrites(f, 0, n - 1)
<1>1. /\ n \in 2 .. MAX_VAR_NUM_FUTURE /\ n - 1 \in 0 .. MAX_VAR_NUM_FUTURE
      /\ MAX_VAR_NUM_FUTURE \in Nat /\ 0 \in 0 .. (n - 1) + 1
  BY CountSuits, Indices
<1>2. params' = Append(words, check)
  BY DEF HostReadsParams
<1>3. \A i \in 0 .. n - 1 : f[i] = RestoredVar(i)
  OBVIOUS
<1>4. words \in Seq(Write)
  <2>1. n - 1 \in -1 .. MAX_VAR_NUM_FUTURE
    BY <1>1
  <2>2. \A i \in 0 .. n - 1 : f[i] \in Word
    <3>1. \A i \in 0 .. n - 1 : i \in 0 .. MAX_VAR_NUM_FUTURE
      BY <1>1
    <3> QED
      BY <1>3, <3>1, RestoredType
  <2> HIDE DEF f, n
  <2> QED
    BY <2>1, <2>2, FieldWritesType
<1>5. DOMAIN words = 1 .. n
  <2> HIDE DEF f
  <2>1. DOMAIN words = 1 .. (n - 1) - 0 + 1
    BY <1>1, FieldWritesLen
  <2> QED
    BY <1>1, <2>1
<1>6. \A i \in 0 .. n - 1 : words[i + 1] = [addr |-> VarAddr[i], val |-> f[i]]
  <2> HIDE DEF f, n
  <2> SUFFICES ASSUME NEW i \in 0 .. n - 1
               PROVE  words[i + 1] = [addr |-> VarAddr[i], val |-> f[i]]
    OBVIOUS
  <2>1. i + 1 \in 1 .. (n - 1) - 0 + 1 /\ 0 + (i + 1) - 1 = i
    BY <1>1
  <2> QED
    BY <1>1, <2>1, FieldWritesAt
<1> HIDE DEF words, check, f, n
<1>7. Len(words) = n
  BY <1>1, <1>4, <1>5
<1>8. /\ Len(params') = n + 1
      /\ params'[n + 1] = check
      /\ \A k \in 1 .. n : params'[k] = words[k]
  BY <1>1, <1>2, <1>4, <1>7
<1>9. ASSUME NEW i \in 0 .. n - 1
      PROVE  params'[i + 1] = [addr |-> VarAddr[i], val |-> RestoredVar(i)]
  <2>1. i + 1 \in 1 .. n
    BY <1>1
  <2> QED
    BY <1>3, <1>6, <1>8, <2>1
<1> QED
  BY <1>1, <1>8, <1>9 DEF n, check, f

LEMMA CheckSame ==
  ASSUME NEW f, NEW g, NEW n \in Nat, \A i \in 0 .. n - 1 : f[i] = g[i]
  PROVE  check_func(f, n) = check_func(g, n)
<1>1. \A b \in Bit : {i \in 0 .. n - 1 : b \in f[i]} = {i \in 0 .. n - 1 : b \in g[i]}
  OBVIOUS
<1> QED
  BY <1>1 DEF check_func

(* A field of last variables whose count and check word fit. *)
Fits(f, last) ==
  /\ NumOf[f[VAR_NUM_OF_VAR]] = last
  /\ f[last] = check_func(f, last)

(* What the host restores: the words it sends, as a field. *)
ParamsField == [i \in 0 .. Len(params) - 1 |-> params[i + 1].val]

ParamsInv ==
  hpc = "params" =>
    /\ Len(params) \in 3 .. MAX_VAR_NUM_FUTURE + 1
    /\ \A i \in 0 .. Len(params) - 1 : params[i + 1].addr = VarAddr[i]
    /\ ParamsField[VAR_BOOT_OPTI] = BOOT_PARAM_APP
    /\ Fits(ParamsField, Len(params) - 1)

LEMMA DefaultCountFits == DefaultCount \in Word /\ NumOf[DefaultCount] = 2
BY DefaultCountAssumption DEF DefaultCount, DefaultSuit

LEMMA RestoredFits ==
  ASSUME FlashTypeOK, BoardCount, HostReadsParams
  PROVE  ParamsInv'
<1> DEFINE n == RestoreCount
           f == [i \in 0 .. n - 1 |-> RestoredVar(i)]
<1>1. /\ n \in 2 .. MAX_VAR_NUM_FUTURE /\ Len(params') = n + 1
      /\ \A i \in 0 .. n - 1 : params'[i + 1] = [addr |-> VarAddr[i], val |-> RestoredVar(i)]
      /\ params'[n + 1] = [addr |-> VarAddr[n], val |-> check_func(f, n)]
  BY RestoredFacts
<1>2. NumOf[RestoredVar(1)] = n
  <2>1. RestoredVar(1) = IF n # 2 THEN read(1) ELSE DefaultCount
    BY Indices DEF RestoredVar
  <2>2. n # 2 => n = NumOf[read(1)]
    BY Indices DEF RestoreCount, actualVarNum
  <2> QED
    BY <2>1, <2>2, DefaultCountFits
<1>3. RestoredVar(0) = BOOT_PARAM_APP
  BY Indices DEF RestoredVar
<1>4. \A i \in 0 .. n - 1 : f[i] = RestoredVar(i)
  OBVIOUS
<1> HIDE DEF f, n
<1>5. n \in Nat /\ n - 1 \in Nat /\ MAX_VAR_NUM_FUTURE \in Nat /\ {0, 1} \subseteq 0 .. n - 1
  BY <1>1, Indices
<1> DEFINE g == [i \in 0 .. Len(params') - 1 |-> params'[i + 1].val]
<1>6. /\ \A i \in 0 .. n - 1 : g[i] = RestoredVar(i)
      /\ g[n] = check_func(f, n)
  <2>1. g = [i \in 0 .. n |-> params'[i + 1].val]
    BY <1>1, <1>5
  <2> HIDE DEF g
  <2>2. ASSUME NEW i \in 0 .. n - 1 PROVE g[i] = RestoredVar(i)
    <3>1. params'[i + 1] = [addr |-> VarAddr[i], val |-> RestoredVar(i)]
      BY <1>1
    <3>2. params'[i + 1].val = RestoredVar(i)
      BY <3>1
    <3>3. i \in 0 .. n
      BY <1>5
    <3> QED
      BY <2>1, <3>2, <3>3
  <2>3. params'[n + 1].val = check_func(f, n) /\ n \in 0 .. n
    BY <1>1, <1>5
  <2> QED
    BY <2>1, <2>2, <2>3
<1>7. \A i \in 0 .. Len(params') - 1 : params'[i + 1].addr = VarAddr[i]
  <2> SUFFICES ASSUME NEW i \in 0 .. n PROVE params'[i + 1].addr = VarAddr[i]
    BY <1>1, <1>5
  <2>1. CASE i \in 0 .. n - 1
    <3>1. params'[i + 1] = [addr |-> VarAddr[i], val |-> RestoredVar(i)]
      BY <1>1, <2>1
    <3> QED
      BY <3>1
  <2>2. CASE i = n
    <3>1. params'[n + 1].addr = VarAddr[n]
      BY <1>1
    <3> QED
      BY <2>2, <3>1
  <2> QED
    BY <1>5, <2>1, <2>2
<1> HIDE DEF g
<1>8. check_func(g, n) = check_func(f, n)
  BY <1>4, <1>5, <1>6, CheckSame
<1>9. /\ g[0] = BOOT_PARAM_APP /\ NumOf[g[1]] = n /\ g[n] = check_func(g, n)
      /\ Len(params') - 1 = n /\ Len(params') \in 3 .. MAX_VAR_NUM_FUTURE + 1
  BY <1>1, <1>2, <1>3, <1>5, <1>6, <1>8
<1>10. ParamsField' = g
  BY DEF ParamsField, g
<1> QED
  BY <1>7, <1>9, <1>10, Indices DEF ParamsInv, Fits

LEMMA ParamsSame ==
  ASSUME ParamsInv, params' = params, hpc' = "params" => hpc = "params"
  PROVE  ParamsInv'
BY DEF ParamsInv, ParamsField, Fits

LEMMA ParamsStep ==
  ASSUME FlashTypeOK, BoardCount, ParamsInv, [UpdateNext]_vars
  PROVE  ParamsInv'
<1>1. CASE HostReadsParams
  BY <1>1, RestoredFits
<1>2. CASE HostStart \/ HostExits \/ HostCallsApp \/ HostRefusesApp \/ HostUnanswered
           \/ HostInBootloader
  <2>1. hpc' # "params"
    BY <1>2 DEF HostStart, HostExits, HostCallsApp, HostRefusesApp, HostUnanswered,
       HostInBootloader
  <2> QED
    BY <2>1 DEF ParamsInv
<1>3. CASE HostGetsAck
  <2>1. params' = params /\ hpc' \in {hpc, "read", "go", "done"}
    BY <1>3 DEF HostGetsAck, After
  <2> QED
    BY <2>1, ParamsSame
<1>4. CASE \/ BoardRuns \/ HostSends \/ HostGetsNack \/ LoseMessage
           \/ PowerLoss \/ FlashError \/ Operator \/ UNCHANGED vars
  <2>1. params' = params /\ hpc' = hpc
    BY <1>4 DEF BoardRuns, HostSends, HostGetsNack, LoseMessage, PowerLoss, FlashError,
       Operator, vars, hostVars
  <2> QED
    BY <2>1, ParamsSame
<1> QED
  BY <1>1, <1>2, <1>3, <1>4 DEF UpdateNext, HostStep

LEMMA CountInvStep ==
  ASSUME UpdateInv, UpdateInv', LinkPlaces, CountInv, [UpdateNext]_vars
  PROVE  CountInv'
<1>0. /\ FlashTypeOK /\ BoardCount /\ BoardTypeOK
      /\ \A k \in DOMAIN params : KeepsCount(params[k])
      /\ params' \in Seq(Write)
  BY DEF UpdateInv, UpdateTypeOK, BoardTypeOK, CountInv
<1>1. \A k \in DOMAIN params' : KeepsCount(params'[k])
  <2>1. CASE HostReadsParams
    <3> DEFINE n == RestoreCount
    <3>1. /\ n \in 2 .. MAX_VAR_NUM_FUTURE /\ Len(params') = n + 1
          /\ \A i \in 0 .. n - 1 :
               params'[i + 1] = [addr |-> VarAddr[i], val |-> RestoredVar(i)]
          /\ params'[n + 1].addr = VarAddr[n]
      BY <1>0, <2>1, RestoredFacts
    <3>2. CommonCount \subseteq RestoredVar(1)
      BY <1>0, Indices, CommonWord DEF RestoredVar, BoardCount
    <3> HIDE DEF n
    <3>3. DOMAIN params' = 1 .. n + 1 /\ MAX_VAR_NUM_FUTURE \in Nat
      BY <1>0, <3>1, Indices
    <3>4. ASSUME NEW k \in 1 .. n, params'[k].addr = VarAddr[1]
          PROVE  CommonCount \subseteq params'[k].val
      <4>1. k - 1 \in 0 .. n - 1 /\ k - 1 \in 0 .. MAX_VAR_NUM_FUTURE /\ (k - 1) + 1 = k
        BY <3>1, <3>3
      <4>2. params'[k] = [addr |-> VarAddr[k - 1], val |-> RestoredVar(k - 1)]
        BY <3>1, <4>1
      <4>3. k - 1 = 1
        BY <3>4, <4>1, <4>2, FieldApart, Indices
      <4> QED
        BY <3>2, <4>2, <4>3
    <3>5. VarAddr[n] # VarAddr[1]
      BY <3>1, <3>3, FieldApart, Indices
    <3> QED
      BY <3>1, <3>3, <3>4, <3>5, Indices DEF KeepsCount
  <2>2. CASE HostStart \/ HostExits
    BY <2>2 DEF HostStart, HostExits
  <2>3. CASE ~HostReadsParams /\ ~HostStart /\ ~HostExits
    <3>1. params' = params
      BY <2>3 DEF UpdateNext, HostStep, BoardRuns, HostSends, HostGetsNack, LoseMessage,
         PowerLoss, FlashError, Operator, vars, hostVars, HostCallsApp, HostRefusesApp,
         HostUnanswered, HostInBootloader, HostGetsAck
    <3> QED
      BY <1>0, <3>1
  <2> QED
    BY <2>1, <2>2, <2>3
<1>2. BoardCount'
  <2>1. CASE FlashStep
    BY <1>0, <2>1, CountStep
  <2>2. CASE Reset
    BY <1>0, <2>2, CountReset
  <2>3. CASE iap_load_app
    BY <1>0, <2>3, CountLoad
  <2>4. CASE UNCHANGED <<flash, job>>
    BY <1>0, <2>4, CountSame
  <2>5. ASSUME NEW idx, idx # 1, NEW val, NEW nxt, PvfWrite(idx, val, nxt)
        PROVE  BoardCount'
    BY <1>0, <2>5, CountPvf
  <2>6. CASE bl_write_memory
    <3>1. link.st = "write" /\ link \in WriteMsg
      BY <1>0, <2>6 DEF bl_write_memory, BoardTypeOK, Msg
    <3>2. hpc \in {"blocks", "params"} /\ link.addr = Sent.addr /\ link.val = Sent.val
      BY <3>1 DEF LinkPlaces
    <3>3. KeepsCount(Sent)
      <4>1. CASE hpc = "blocks"
        <5>1. next \in Block /\ Sent.addr = BlockAddr[next]
          BY <3>2, <4>1, SentType
        <5>2. Sent.addr # VarAddr[1]
          BY <5>1, BlockPlace, FieldPlace, Indices
        <5> QED
          BY <5>2, Indices DEF KeepsCount
      <4>2. CASE hpc = "params"
        BY <1>0, <4>2 DEF UpdateInv, UpdateTypeOK, NextFits, Sent
      <4> QED
        BY <3>2, <4>1, <4>2
    <3> DEFINE w == [addr |-> link.addr, val |-> link.val]
    <3>4. KeepsCount(w) /\ STMFLASH_write_bytes(<<w>>)
      BY <2>6, <3>2, <3>3 DEF bl_write_memory, KeepsCount
    <3> HIDE DEF w
    <3> QED
      BY <1>0, <3>4, CountWord
  <2>7. CASE initInApp_start
    <3>1. /\ VarNum - 1 \in 1 .. MAX_VAR_NUM_FUTURE
          /\ STMFLASH_write_bytes(FieldWrites(Initialised, 0, VarNum - 1))
      BY <2>7, Indices DEF initInApp_start
    <3>2. Initialised[1] = NumWord
      BY Indices DEF Initialised
    <3> QED
      BY <1>0, <3>1, <3>2, CountField, CommonWord, Indices
  <2>8. CASE initInApp_check
    <3> DEFINE w == [addr |-> VarAddr[VarNum], val |-> check_func(powerupVarShadow, VarNum)]
    <3>1. KeepsCount(w)
      BY FieldApart, Indices DEF KeepsCount
    <3>2. STMFLASH_write_bytes(<<w>>)
      BY <2>8 DEF initInApp_check
    <3> HIDE DEF w
    <3> QED
      BY <1>0, <3>1, <3>2, CountWord
  <2>9. CASE FlashFails
    BY <1>0, <2>9, CountCut DEF FlashFails, Failed
  <2>10. CASE BoardRuns
    <3>1. CASE PvfReturn \/ bl_write_memory_end \/ InitInAppReturn
      BY <2>4, <3>1 DEF PvfReturn, bl_write_memory_end, InitInAppReturn, write_end, flashVars
    <3>2. CASE BootCheck
      BY <2>4, <2>5, <3>2, Indices DEF BootCheck, flashVars
    <3>3. CASE WindowCloses \/ bl_go
      BY <2>3, <2>4, <3>3 DEF WindowCloses, bl_go, flashVars
    <3>4. CASE InitInApp
      BY <2>4, <2>7, <3>4 DEF InitInApp, flashVars
    <3>5. CASE InitInAppCheck
      BY <2>8, <3>5 DEF InitInAppCheck
    <3>6. CASE iapHandlerFunc
      BY <2>5, <3>6, Indices DEF iapHandlerFunc
    <3> QED
      BY <2>1, <2>2, <2>6, <2>10, <3>1, <3>2, <3>3, <3>4, <3>5, <3>6
      DEF BoardRuns, BoardStep, SystemReset
  <2>11. CASE HostStep \/ HostUnanswered
    BY <2>4, <2>11 DEF HostStep, HostCallsApp, HostRefusesApp, HostUnanswered,
       HostInBootloader, HostSends, HostGetsAck, HostGetsNack, HostReadsParams,
       boardVars, flashVars
  <2>12. CASE Operator
    BY <2>4, <2>5, <2>12, Indices DEF Operator, WindowEmergency, UidUnlockHandlerFunc,
       chipResetHandlerFunc, flashVars
  <2>13. CASE HostStart \/ HostExits \/ LoseMessage \/ UNCHANGED vars
    BY <2>4, <2>13 DEF HostStart, HostExits, LoseMessage, vars, boardVars, flashVars
  <2>14. CASE PowerLoss \/ FlashError
    BY <2>2, <2>9, <2>14 DEF PowerLoss, FlashError
  <2> QED
    BY <2>10, <2>11, <2>12, <2>13, <2>14 DEF UpdateNext
<1> QED
  BY <1>1, <1>2 DEF CountInv

-----------------------------------------------------------------------------
(* A session that nothing was cut into: blocks, and the image they make.   *)

SessionPlaces ==
  clean =>
    /\ hpc = "blocks" => pc \in {"loop", "write"} /\ ~mark[FieldSector]
    /\ hpc = "read" => pc = "loop" /\ ~mark[FieldSector]

(* What the flash driver works on while blocks are written. *)
LEMMA BlockAtWork ==
  ASSUME UpdateInv, LinkPlaces, Busy, pc = "write", hpc = "blocks"
  PROVE  /\ next \in Block /\ ver \in Version /\ ImgWord[ver] \in Word
         /\ Current = [addr |-> BlockAddr[next], val |-> ImgWord[ver]]
         /\ CurrentSector = SectorOf[BlockAddr[next]]
         /\ CurrentSector # FieldSector
         /\ link.st = "busy"
<1>1. Current = Sent /\ link.st = "busy"
  BY DEF LinkPlaces
<1>2. next \in Block /\ Sent = [addr |-> BlockAddr[next], val |-> ImgWord[ver]]
  BY SentType
<1>3. ver \in Version
  BY DEF UpdateInv, UpdateTypeOK
<1> QED
  BY <1>1, <1>2, <1>3, BlockPlace, ImageAssumption DEF CurrentSector

(* What steps a board in the loop or writing can make for such a session.  *)
LEMMA LoopMoves ==
  ASSUME JobPlaces, LinkPlaces, BoardStep, pc \in {"loop", "write"}, hpc # "go"
  PROVE  \/ pc = "write" /\ Busy /\ FlashStep /\ UNCHANGED <<powerupVarShadow, pc, resume, link>>
         \/ pc = "loop" /\ hpc \in {"blocks", "params"} /\ bl_write_memory
         \/ pc = "write" /\ ~Busy /\ bl_write_memory_end
<1>1. FlashStep => Busy
  BY DEF FlashStep, EraseOk, ProgramOk, Busy
<1>2. Busy => pc = "write"
  BY DEF JobPlaces, Idle
<1>3. ~bl_go
  BY DEF bl_go, LinkPlaces
<1>4. bl_write_memory => pc = "loop" /\ hpc \in {"blocks", "params"}
  BY DEF bl_write_memory, LinkPlaces, CallPlaces
<1>5. bl_write_memory_end => pc = "write" /\ ~Busy
  BY DEF bl_write_memory_end
<1> QED
  BY <1>1, <1>2, <1>3, <1>4, <1>5
  DEF BoardStep, SystemReset, PvfReturn, BootCheck, WindowCloses, InitInApp,
      InitInAppCheck, InitInAppReturn, iapHandlerFunc

LEMMA SessionStep ==
  ASSUME UpdateInv, JobPlaces, LinkPlaces, SessionPlaces, [UpdateNext]_vars
  PROVE  SessionPlaces'
<1>1. CASE BoardRuns
  <2> SUFFICES ASSUME clean, hpc \in {"blocks", "read"}
               PROVE  SessionPlaces'
    BY <1>1 DEF SessionPlaces, BoardRuns, hostVars
  <2>1. BoardStep /\ hpc' = hpc /\ clean' = clean
    BY <1>1 DEF BoardRuns, hostVars
  <2>2. pc \in {"loop", "write"} /\ ~mark[FieldSector] /\ hpc # "go"
        /\ (hpc = "read" => pc = "loop")
    BY DEF SessionPlaces
  <2>3. CASE pc = "write" /\ Busy /\ FlashStep /\ UNCHANGED <<powerupVarShadow, pc, resume, link>>
    <3>1. hpc = "blocks" /\ CurrentSector # FieldSector
      BY <2>2, <2>3, BlockAtWork
    <3>2. mark'[FieldSector] = mark[FieldSector]
      BY <2>3, <3>1, FieldSectorType DEF FlashStep, EraseOk, ProgramOk, UpdateInv,
         UpdateTypeOK, BoardTypeOK, FlashTypeOK
    <3> QED
      BY <2>1, <2>2, <2>3, <3>1, <3>2 DEF SessionPlaces
  <2>4. CASE pc = "loop" /\ hpc \in {"blocks", "params"} /\ bl_write_memory
    BY <2>1, <2>2, <2>4 DEF SessionPlaces, bl_write_memory, STMFLASH_write_bytes
  <2>5. CASE pc = "write" /\ ~Busy /\ bl_write_memory_end
    BY <2>1, <2>2, <2>5 DEF SessionPlaces, bl_write_memory_end, flashVars
  <2> QED
    BY <2>1, <2>2, <2>3, <2>4, <2>5, LoopMoves
<1>2. CASE HostInBootloader
  BY <1>2 DEF HostInBootloader, Fresh, SessionPlaces, boardVars, flashVars
<1>3. CASE HostGetsAck
  <2>1. /\ link.st = "ack" /\ UNCHANGED <<pc, mark, clean>>
        /\ hpc' \in {hpc, "read", "go", "done"}
        /\ hpc' = "read" => hpc \in {"read", "blocks"}
    BY <1>3 DEF HostGetsAck, After, flashVars
  <2>2. hpc = "blocks" => pc # "write"
    BY <2>1 DEF LinkPlaces
  <2> QED
    BY <2>1, <2>2 DEF SessionPlaces
<1>4. CASE \/ HostStart \/ HostExits \/ HostReadsParams
           \/ HostCallsApp \/ HostRefusesApp \/ HostUnanswered
  <2>1. hpc' \notin {"blocks", "read"}
    BY <1>4 DEF HostStart, HostExits, HostCallsApp, HostRefusesApp, HostUnanswered,
       HostReadsParams
  <2> QED
    BY <2>1 DEF SessionPlaces
<1>5. CASE PowerLoss \/ FlashError
  BY <1>5 DEF PowerLoss, FlashError, SessionPlaces
<1>6. CASE Operator
  <2>1. pc \in {"window", "app"} /\ hpc' = hpc /\ (clean' => clean)
    BY <1>6 DEF Operator, WindowEmergency, UidUnlockHandlerFunc, chipResetHandlerFunc, hostVars
  <2> QED
    BY <2>1 DEF SessionPlaces
<1>7. CASE HostSends \/ HostGetsNack \/ LoseMessage \/ UNCHANGED vars
  BY <1>7 DEF HostSends, HostGetsNack, LoseMessage, vars, boardVars, hostVars, history,
     flashVars, SessionPlaces
<1> QED
  BY <1>1, <1>2, <1>3, <1>4, <1>5, <1>6, <1>7 DEF UpdateNext, HostStep

-----------------------------------------------------------------------------
(* The blocks that are in flash, and a complete image. *)

BlockDone(b) ==
  mark[SectorOf[BlockAddr[b]]] /\ flash[BlockAddr[b]] = ImgWord[ver]

SoundInv ==
  image = "sound" =>
    /\ \E v \in Version : Complete(v)
    /\ hpc \in {"read", "params", "go", "done"} /\ clean => Complete(ver)
    /\ Busy => CurrentSector = FieldSector

BlocksInv ==
  clean /\ hpc = "blocks" =>
    /\ \A b \in Block : mark[SectorOf[BlockAddr[b]]] =>
                          flash[BlockAddr[b]] \in {Erased, ImgWord[ver]}
    /\ \A b \in 0 .. next - 1 : BlockDone(b)
    /\ link.st = "ack" \/ (pc = "write" /\ job.pc = "ok") => BlockDone(next)

(* Steps that leave the blocks as they are. *)
LEMMA BlocksSame ==
  ASSUME FlashTypeOK, \/ UNCHANGED flash
                      \/ /\ EraseOk \/ ProgramOk \/ LeavesPartial
                         /\ CurrentSector = FieldSector
  PROVE  \A b \in Block : flash'[BlockAddr[b]] = flash[BlockAddr[b]]
<1> SUFFICES ASSUME NEW b \in Block
             PROVE  flash'[BlockAddr[b]] = flash[BlockAddr[b]]
  OBVIOUS
<1> QED
  BY BlockPlace, Elsewhere

LEMMA SoundSame ==
  ASSUME SoundInv, \A b \in Block : flash'[BlockAddr[b]] = flash[BlockAddr[b]],
         image' = "sound" => image = "sound" /\ (Busy => CurrentSector = FieldSector)',
         clean' /\ hpc' \in {"read", "params", "go", "done"} =>
           clean /\ hpc \in {"read", "params", "go", "done"} /\ ver' = ver
  PROVE  SoundInv'
BY DEF SoundInv, Complete

(* A step of the flash driver stays in the sector of its job. *)
LEMMA SameSector ==
  ASSUME FlashTypeOK, JobPlaces, FlashStep, Busy'
  PROVE  CurrentSector' = CurrentSector
<1>1. Busy /\ job.todo # <<>> /\ job.todo \in Seq(Write)
  BY DEF FlashStep, EraseOk, ProgramOk, Busy, FlashTypeOK
<1>2. CASE EraseOk
  BY <1>2 DEF EraseOk, FlashTypeOK, CurrentSector, Current
<1>3. CASE ProgramOk
  <2>1. /\ job'.todo = Tail(job.todo) /\ Tail(job.todo) \in Seq(Write)
        /\ \A n \in 1 .. Len(Tail(job.todo)) :
             n + 1 \in 1 .. Len(job.todo) /\ Tail(job.todo)[n] = job.todo[n + 1]
    BY <1>1, <1>3, HeadTailProperties DEF ProgramOk
  <2>2. job'.todo # <<>>
    BY <1>3, ProgramOkType DEF FlashTypeOK
  <2>3. 1 \in 1 .. Len(Tail(job.todo)) /\ Head(job'.todo) = job.todo[2]
        /\ 2 \in DOMAIN job.todo
    BY <1>1, <2>1, <2>2, EmptySeq
  <2> QED
    BY <2>3 DEF JobPlaces, CurrentSector, Current
<1> QED
  BY <1>2, <1>3 DEF FlashStep

LEMMA PvfSector ==
  ASSUME FlashTypeOK, ~Busy, NEW idx, NEW val, NEW nxt, PvfWrite(idx, val, nxt)
  PROVE  UNCHANGED <<flash, mark>> /\ (Busy => CurrentSector = FieldSector)'
<1>1. CASE write_skipped(idx, val)
  BY <1>1 DEF PvfWrite, write_start, flashVars, Busy
<1>2. CASE ~write_skipped(idx, val)
  <2>1. STMFLASH_write_bytes(FieldWrites(Changed(idx, val), 0, getSuitVarNum))
    BY <1>2 DEF PvfWrite, write_start
  <2>2. CASE TooLong
    BY <2>1, <2>2, RefusedJob DEF Failed, Busy
  <2>3. CASE ~TooLong
    BY <2>1, <2>3, FieldShort, FieldJob
  <2> QED
    BY <2>2, <2>3
<1> QED
  BY <1>1, <1>2

(* The parameter being sent is a word of the field. *)
LEMMA SentParam ==
  ASSUME UpdateInv, ParamsInv, hpc = "params"
  PROVE  /\ Len(params) - 1 \in 2 .. MAX_VAR_NUM_FUTURE
         /\ next \in 0 .. Len(params) - 1
         /\ Sent = [addr |-> VarAddr[next], val |-> ParamsField[next]]
         /\ SectorOf[Sent.addr] = FieldSector
<1>1. next \in 0 .. Len(params) - 1 /\ Len(params) - 1 \in 2 .. MAX_VAR_NUM_FUTURE
      /\ next \in 0 .. MAX_VAR_NUM_FUTURE
  BY Indices DEF UpdateInv, UpdateTypeOK, NextFits, ParamsInv
<1>2. Sent = params[next + 1] /\ Sent \in Write
  BY SentType DEF Sent
<1>3. Sent.addr = VarAddr[next] /\ Sent.val = ParamsField[next]
  BY <1>1, <1>2 DEF ParamsInv, ParamsField
<1>4. SectorOf[Sent.addr] = FieldSector
  BY <1>1, <1>3, FieldPlace
<1> QED
  BY <1>1, <1>2, <1>3, <1>4 DEF Write

LEMMA WriteMemory ==
  ASSUME UpdateInv, LinkPlaces, bl_write_memory
  PROVE  /\ STMFLASH_write_bytes(<<Sent>>) /\ Sent \in Write
         /\ hpc \in {"blocks", "params"}
         /\ link'.st = "busy" /\ pc' = "write" /\ pc = "loop"
         /\ job'.pc \in {"erase", "program"}
<1>1. link.st = "write" /\ link \in WriteMsg
  BY DEF bl_write_memory, UpdateInv, UpdateTypeOK, BoardTypeOK, Msg
<1>2. hpc \in {"blocks", "params"} /\ link.addr = Sent.addr /\ link.val = Sent.val
  BY <1>1 DEF LinkPlaces
<1>3. Sent \in Write
  BY <1>2, SentType
<1>4. [addr |-> link.addr, val |-> link.val] = Sent
  BY <1>2, <1>3 DEF Write
<1>5. job'.pc \in {"erase", "program"}
  BY <1>3, <1>4, WordJob DEF bl_write_memory
<1> QED
  BY <1>1, <1>2, <1>3, <1>4, <1>5 DEF bl_write_memory, WriteMsg

LEMMA SoundStep ==
  ASSUME UpdateInv, JobPlaces, LinkPlaces, ParamsInv, SessionPlaces, BlocksInv, SoundInv,
         [UpdateNext]_vars
  PROVE  SoundInv'
<1> DEFINE Kept == \A b \in Block : flash'[BlockAddr[b]] = flash[BlockAddr[b]]
           Near == (Busy => CurrentSector = FieldSector)'
<1>0. FlashTypeOK /\ BoardTypeOK /\ ver \in Version
  BY DEF UpdateInv, UpdateTypeOK, BoardTypeOK
<1>a. UNCHANGED flash => Kept
  OBVIOUS
<1>b. image = "sound" /\ UNCHANGED job => Near
  BY DEF SoundInv, Busy, CurrentSector, Current
<1>c. ~Busy' => Near
  OBVIOUS
<1>d. image = "sound" /\ (EraseOk \/ ProgramOk \/ LeavesPartial) => Kept
  <2>1. EraseOk \/ ProgramOk \/ LeavesPartial => Busy
    BY DEF EraseOk, ProgramOk, LeavesPartial, Busy
  <2> QED
    BY <1>0, <2>1, BlocksSame DEF SoundInv
<1> HIDE DEF Kept, Near
<1>1. CASE BoardRuns
  <2>0. /\ UNCHANGED <<hpc, clean, ver, params, next>>
        /\ image' = "sound" => image = "sound" /\ ~(pc' = "write" /\ hpc = "blocks")
    BY <1>1 DEF BoardRuns, hostVars
  <2> SUFFICES ASSUME image = "sound", ~(pc' = "write" /\ hpc = "blocks")
               PROVE  Kept /\ Near
    BY <2>0, SoundSame DEF Kept, Near, SoundInv
  <2>1. CASE FlashStep /\ UNCHANGED <<powerupVarShadow, pc, resume, link>>
    <3>1. Near
      <4>1. Busy
        BY <2>1 DEF FlashStep, EraseOk, ProgramOk, Busy
      <4> QED
        BY <1>0, <2>1, <4>1, SameSector DEF Near, SoundInv
    <3> QED
      BY <1>d, <2>1, <3>1 DEF FlashStep
  <2>2. CASE SystemReset
    <3>1. ~Busy
      BY <2>2 DEF SystemReset, JobPlaces, Idle
    <3> QED
      BY <1>a, <1>c, <2>2, <3>1 DEF SystemReset, Reset, FlashReset, NoJob, Busy
  <2>3. CASE PvfReturn \/ bl_write_memory_end \/ InitInAppReturn
    BY <1>a, <1>b, <2>3 DEF PvfReturn, bl_write_memory_end, InitInAppReturn, write_end,
       flashVars
  <2>4. CASE BootCheck
    <3>1. ~Busy
      BY <2>4 DEF BootCheck, JobPlaces, Idle
    <3>2. CASE KnownBootOption
      BY <1>a, <1>b, <2>4, <3>2 DEF BootCheck, flashVars
    <3>3. CASE ~KnownBootOption
      BY <1>0, <1>a, <2>4, <3>1, <3>3, PvfSector DEF BootCheck, Near
    <3> QED
      BY <3>2, <3>3
  <2>5. CASE iap_load_app /\ ~Busy
    <3>1. CASE StackTopLegal
      BY <1>a, <1>c, <2>5, <3>1 DEF iap_load_app, NoJob, Busy
    <3>2. CASE ~StackTopLegal
      BY <1>0, <1>a, <2>5, <3>2, PvfSector DEF iap_load_app, Near
    <3> QED
      BY <3>1, <3>2
  <2>6. CASE WindowCloses \/ bl_go
    <3>1. ~Busy
      BY <2>6 DEF WindowCloses, bl_go, JobPlaces, Idle
    <3> QED
      BY <1>a, <1>b, <2>5, <2>6, <3>1 DEF WindowCloses, bl_go, flashVars
  <2>7. CASE bl_write_memory
    <3>1. /\ STMFLASH_write_bytes(<<Sent>>) /\ Sent \in Write /\ hpc = "params"
          /\ pc' = "write"
      BY <2>7, WriteMemory
    <3>2. CurrentSector' = FieldSector /\ UNCHANGED flash
      BY <3>1, SentParam, WordJob
    <3> QED
      BY <1>a, <3>2 DEF Near
  <2>8. CASE InitInApp
    <3>1. CASE initInApp_needed
      <4>1. STMFLASH_write_bytes(FieldWrites(Initialised, 0, VarNum - 1))
        BY <2>8, <3>1 DEF InitInApp, initInApp_start
      <4>2. VarNum - 1 \in 0 .. MAX_VAR_NUM_FUTURE /\ VarNum - 1 < MaxLen
        BY Indices
      <4> QED
        BY <1>a, <4>1, <4>2, FieldJob DEF Near
    <3>2. CASE ~initInApp_needed
      BY <1>a, <1>b, <2>8, <3>2 DEF InitInApp, flashVars
    <3> QED
      BY <3>1, <3>2
  <2>9. CASE InitInAppCheck
    <3> DEFINE w == [addr |-> VarAddr[VarNum], val |-> check_func(powerupVarShadow, VarNum)]
    <3>1. VarNum \in 0 .. MAX_VAR_NUM_FUTURE
      BY VarNumAssumption
    <3>2. w \in Write /\ SectorOf[w.addr] = FieldSector
      BY <3>1, FieldPlace, CheckType DEF Write
    <3>3. STMFLASH_write_bytes(<<w>>)
      BY <2>9 DEF InitInAppCheck, initInApp_check
    <3> HIDE DEF w
    <3> QED
      BY <1>a, <3>2, <3>3, WordJob DEF Near
  <2>10. CASE iapHandlerFunc
    <3>1. ~Busy
      BY <2>10 DEF iapHandlerFunc, JobPlaces, Idle
    <3> QED
      BY <1>0, <1>a, <2>10, <3>1, PvfSector DEF iapHandlerFunc, Near
  <2> QED
    BY <1>1, <2>1, <2>2, <2>3, <2>4, <2>6, <2>7, <2>8, <2>9, <2>10 DEF BoardRuns, BoardStep
<1>2. CASE HostCallsApp \/ HostRefusesApp \/ HostUnanswered
  <2>1. UNCHANGED <<flash, job, image>> /\ hpc' \in {"called", "off"}
    BY <1>2 DEF HostCallsApp, HostRefusesApp, HostUnanswered, history, boardVars, flashVars
  <2> QED
    BY <1>a, <1>b, <2>1, SoundSame DEF Kept, Near
<1>3. CASE HostGetsAck
  <2>1. link.st = "ack" /\ UNCHANGED <<flash, job, ver, clean, pc>>
    BY <1>3 DEF HostGetsAck, flashVars
  <2>2. CASE hpc = "blocks" /\ hpc' = "read" /\ clean
    <3>1. ~Busy
      BY <2>1, <2>2 DEF LinkPlaces, JobPlaces, Idle
    <3>2. ~(next + 1 < Cardinality(Block)) /\ next \in Block
      BY <1>3, <2>2 DEF HostGetsAck, Length, UpdateInv, NextFits
    <3>3. \A b \in Block : b \in 0 .. next
      BY <3>2, ImageAssumption
    <3>4. \A b \in 0 .. next : b \in 0 .. next - 1 \/ b = next
      BY <3>2, BlockCount
    <3>5. Complete(ver)
      BY <2>1, <2>2, <3>3, <3>4 DEF BlocksInv, BlockDone, Complete
    <3> QED
      BY <1>0, <2>1, <3>1, <3>5 DEF SoundInv, Complete, Busy
  <2>3. CASE ~(hpc = "blocks" /\ hpc' = "read" /\ clean)
    <3>1. /\ hpc' \in {hpc, "read", "go", "done"}
          /\ hpc' = "read" => hpc \in {"blocks", "read"}
      BY <1>3 DEF HostGetsAck, After
    <3>2. hpc \in {"blocks", "params", "go"}
      BY <2>1 DEF LinkPlaces
    <3>3. image' = image
      BY <1>3, <2>3 DEF HostGetsAck
    <3>4. hpc' \in {"read", "params", "go", "done"} /\ clean
            => hpc \in {"read", "params", "go", "done"}
      <4> SUFFICES ASSUME hpc = "blocks", clean, hpc' \in {"read", "params", "go", "done"}
                   PROVE  FALSE
        BY <3>2
      <4>1. hpc' = "blocks" \/ hpc' = "read"
        BY <1>3 DEF HostGetsAck, After
      <4> QED
        BY <2>3, <4>1
    <3> QED
      BY <1>a, <1>b, <2>1, <3>3, <3>4, SoundSame DEF Kept, Near
  <2> QED
    BY <2>2, <2>3
<1>4. CASE HostStart \/ HostExits \/ HostInBootloader
  <2>1. UNCHANGED <<flash, job, image>> /\ hpc' \in {"sync", "off", "blocks"}
    BY <1>4 DEF HostStart, HostExits, HostInBootloader, history, flashVars, boardVars
  <2> QED
    BY <1>a, <1>b, <2>1, SoundSame DEF Kept, Near
<1>5. CASE HostSends \/ HostGetsNack \/ LoseMessage \/ HostReadsParams \/ UNCHANGED vars
  <2>1. /\ UNCHANGED <<flash, job, image, clean, ver>>
        /\ hpc' = hpc \/ (hpc' = "params" /\ hpc = "read")
    <3>1. CASE HostSends \/ HostGetsNack \/ LoseMessage \/ UNCHANGED vars
      BY <3>1 DEF HostSends, HostGetsNack, LoseMessage, vars, history, hostVars, flashVars,
         boardVars
    <3>2. CASE HostReadsParams
      BY <3>2 DEF HostReadsParams, history, flashVars, boardVars
    <3> QED
      BY <1>5, <3>1, <3>2
  <2> QED
    BY <1>a, <1>b, <2>1, SoundSame DEF Kept, Near
<1>6. CASE PowerLoss
  <2>1. /\ clean' = FALSE /\ UNCHANGED image /\ job' = NoJob
        /\ LeavesPartial \/ UNCHANGED flash
    BY <1>6 DEF PowerLoss, Reset, FlashReset
  <2> QED
    BY <1>a, <1>c, <1>d, <2>1, SoundSame DEF Kept, Near, NoJob, Busy, SoundInv
<1>7. CASE FlashError
  <2>1. /\ clean' = FALSE /\ UNCHANGED image /\ job' = [pc |-> "err", todo |-> <<>>]
        /\ LeavesPartial
    BY <1>7 DEF FlashError, FlashFails, Failed
  <2> QED
    BY <1>c, <1>d, <2>1, SoundSame DEF Kept, Near, Busy, SoundInv
<1>8. CASE Operator
  <2>1. /\ UNCHANGED <<hpc, ver, image>> /\ (clean' => clean) /\ ~Busy
    BY <1>8 DEF Operator, hostVars, WindowEmergency, UidUnlockHandlerFunc,
       chipResetHandlerFunc, JobPlaces, Idle
  <2>2. Kept /\ (image = "sound" => Near)
    <3>1. CASE WindowEmergency
      BY <1>0, <1>a, <2>1, <3>1, PvfSector DEF WindowEmergency, Near
    <3>2. ASSUME NEW w \in Setting, UidUnlockHandlerFunc(FirstSetting, w)
          PROVE  Kept /\ Near
      BY <1>0, <1>a, <2>1, <3>2, PvfSector DEF UidUnlockHandlerFunc, Near
    <3>3. CASE chipResetHandlerFunc
      BY <1>a, <1>b, <3>3 DEF chipResetHandlerFunc, flashVars
    <3> QED
      BY <1>8, <3>1, <3>2, <3>3 DEF Operator
  <2> QED
    BY <2>1, <2>2, SoundSame DEF Kept, Near
<1> QED
  BY <1>1, <1>2, <1>3, <1>4, <1>5, <1>6, <1>7, <1>8 DEF UpdateNext, HostStep

LEMMA BlocksSameInv ==
  ASSUME BlocksInv, UNCHANGED <<flash, mark, ver, next>>, clean' => clean,
         hpc' = "blocks" => hpc = "blocks",
         link'.st = "ack" \/ (pc' = "write" /\ job'.pc = "ok") =>
           link.st = "ack" \/ (pc = "write" /\ job.pc = "ok")
  PROVE  BlocksInv'
BY DEF BlocksInv, BlockDone

(* The flash driver goes on with a block. *)
LEMMA BlockEraseInv ==
  ASSUME UpdateInv, JobPlaces, LinkPlaces, BlocksInv, clean, hpc = "blocks",
         pc = "write", EraseOk, UNCHANGED <<pc, link, hpc, clean, ver, next>>
  PROVE  BlocksInv'
<1>0. FlashTypeOK /\ Busy /\ ~mark[CurrentSector]
  BY DEF UpdateInv, UpdateTypeOK, BoardTypeOK, EraseOk, Busy, JobPlaces
<1>1. next \in Block /\ CurrentSector \in Sector /\ link.st = "busy"
  BY <1>0, BlockAtWork, CurrentType
<1>2. /\ \A s \in Sector : mark'[s] = IF s = CurrentSector THEN TRUE ELSE mark[s]
      /\ \A a \in Addr : flash'[a] = IF SectorOf[a] = CurrentSector THEN Erased ELSE flash[a]
      /\ job'.pc # "ok"
  BY <1>0, <1>1 DEF EraseOk, FlashTypeOK
<1>3. ASSUME NEW b \in Block
      PROVE  BlockAddr[b] \in Addr /\ SectorOf[BlockAddr[b]] \in Sector
  BY BlockPlace, SectorOfAssumption
<1>4. ASSUME NEW b \in Block, mark'[SectorOf[BlockAddr[b]]]
      PROVE  flash'[BlockAddr[b]] \in {Erased, ImgWord[ver]}
  BY <1>2, <1>3, <1>4 DEF BlocksInv
<1>5. ASSUME NEW b \in 0 .. next - 1
      PROVE  mark'[SectorOf[BlockAddr[b]]] /\ flash'[BlockAddr[b]] = ImgWord[ver]
  <2>1. b \in Block
    BY <1>1, ImageAssumption
  <2>2. mark[SectorOf[BlockAddr[b]]] /\ flash[BlockAddr[b]] = ImgWord[ver]
    BY DEF BlocksInv, BlockDone
  <2> QED
    BY <1>0, <1>2, <1>3, <2>1, <2>2
<1> QED
  BY <1>1, <1>2, <1>4, <1>5 DEF BlocksInv, BlockDone

LEMMA BlockProgramInv ==
  ASSUME UpdateInv, JobPlaces, LinkPlaces, BlocksInv, clean, hpc = "blocks",
         pc = "write", ProgramOk, UNCHANGED <<pc, link, hpc, clean, ver, next>>
  PROVE  BlocksInv'
<1>0. FlashTypeOK /\ Busy /\ mark[CurrentSector]
  BY DEF UpdateInv, UpdateTypeOK, BoardTypeOK, ProgramOk, Busy, JobPlaces
<1>1. /\ next \in Block /\ CurrentSector = SectorOf[BlockAddr[next]] /\ ImgWord[ver] \in Word
      /\ Current = [addr |-> BlockAddr[next], val |-> ImgWord[ver]]
  BY <1>0, BlockAtWork
<1>2. BlockAddr[next] \in Addr /\ flash \in [Addr -> Word]
  BY <1>0, <1>1, BlockPlace DEF FlashTypeOK
<1>3. flash[BlockAddr[next]] \in {Erased, ImgWord[ver]}
  BY <1>0, <1>1 DEF BlocksInv
<1>4. flash[BlockAddr[next]] \cap ImgWord[ver] = ImgWord[ver]
  BY <1>1, <1>3 DEF Erased, Word
<1>5. flash' = [flash EXCEPT ![BlockAddr[next]] = ImgWord[ver]]
  BY <1>1, <1>2, <1>4 DEF ProgramOk, Programmed
<1>6. \A a \in Addr : flash'[a] = IF a = BlockAddr[next] THEN ImgWord[ver] ELSE flash[a]
  BY <1>2, <1>5
<1>7. mark' = mark
  BY DEF ProgramOk
<1>8. ASSUME NEW b \in Block, mark'[SectorOf[BlockAddr[b]]]
      PROVE  flash'[BlockAddr[b]] \in {Erased, ImgWord[ver]}
  BY <1>6, <1>7, <1>8, BlockPlace DEF BlocksInv
<1>9. ASSUME NEW b \in 0 .. next
      PROVE  mark'[SectorOf[BlockAddr[b]]] /\ flash'[BlockAddr[b]] = ImgWord[ver]
  <2>1. b \in Block /\ (b \in 0 .. next - 1 \/ b = next)
    BY <1>1, ImageAssumption
  <2>2. CASE b \in 0 .. next - 1
    BY <1>6, <1>7, <2>1, <2>2, BlockPlace DEF BlocksInv, BlockDone
  <2>3. CASE b = next
    BY <1>0, <1>1, <1>2, <1>6, <1>7, <2>3
  <2> QED
    BY <2>1, <2>2, <2>3
<1>10. next \in 0 .. next /\ \A b \in 0 .. next - 1 : b \in 0 .. next
  BY <1>1, BlockCount
<1> QED
  BY <1>8, <1>9, <1>10 DEF BlocksInv, BlockDone

LEMMA BlocksStep ==
  ASSUME UpdateInv, JobPlaces, LinkPlaces, SessionPlaces, BlocksInv, [UpdateNext]_vars
  PROVE  BlocksInv'
<1>1. CASE BoardRuns
  <2>0. UNCHANGED <<hpc, clean, ver, params, next>> /\ BoardStep
    BY <1>1 DEF BoardRuns, hostVars
  <2> SUFFICES ASSUME clean, hpc = "blocks"
               PROVE  BlocksInv'
    BY <2>0 DEF BlocksInv
  <2>1. pc \in {"loop", "write"}
    BY DEF SessionPlaces
  <2>2. CASE pc = "write" /\ Busy /\ FlashStep /\ UNCHANGED <<powerupVarShadow, pc, resume, link>>
    BY <2>0, <2>2, BlockEraseInv, BlockProgramInv DEF FlashStep
  <2>3. CASE bl_write_memory
    <3>1. link'.st = "busy" /\ job'.pc # "ok" /\ UNCHANGED <<flash, mark>>
      BY <2>3, WriteMemory DEF STMFLASH_write_bytes
    <3> QED
      BY <2>0, <3>1, BlocksSameInv
  <2>4. CASE pc = "write" /\ ~Busy /\ bl_write_memory_end
    <3>1. UNCHANGED <<flash, mark, job>> /\ pc' = "loop"
      BY <2>4 DEF bl_write_memory_end, flashVars
    <3>2. link'.st = "ack" => job.pc = "ok"
      BY <2>4 DEF bl_write_memory_end, NoMsg
    <3> QED
      BY <2>0, <2>4, <3>1, <3>2, BlocksSameInv
  <2> QED
    BY <2>0, <2>1, <2>2, <2>3, <2>4, LoopMoves
<1>2. CASE HostInBootloader
  <2>1. /\ pc = "loop" /\ UNCHANGED <<flash, mark, pc, ver, next, link>>
        /\ clean' = Fresh(ver) /\ hpc \in {"sync", "called"}
    BY <1>2 DEF HostInBootloader, Expects, boardVars, flashVars
  <2>2. next = 0 /\ link.st = "none"
    BY <2>1, NoCall DEF UpdateInv, NextFits, LinkPlaces
  <2>3. \A b \in 0 .. next - 1 : FALSE
    BY <2>2
  <2> QED
    BY <2>1, <2>2, <2>3 DEF BlocksInv, BlockDone, Fresh
<1>3. CASE HostGetsAck
  <2>1. link.st = "ack" /\ link' = NoMsg /\ UNCHANGED <<flash, mark, job, ver, clean, pc>>
    BY <1>3 DEF HostGetsAck, flashVars
  <2> SUFFICES ASSUME clean, hpc' = "blocks" PROVE BlocksInv'
    BY <2>1 DEF BlocksInv
  <2>2. hpc = "blocks" /\ next' = next + 1
    BY <1>3 DEF HostGetsAck, After
  <2>3. pc # "write"
    BY <2>1 DEF LinkPlaces
  <2>4. \A b \in 0 .. next : BlockDone(b)
    <3>1. next \in Nat
      BY DEF UpdateInv, UpdateTypeOK
    <3>2. \A b \in 0 .. next : b \in 0 .. next - 1 \/ b = next
      BY <3>1
    <3> QED
      BY <2>1, <2>2, <3>2 DEF BlocksInv
  <2>5. next' - 1 = next
    BY <2>2 DEF UpdateInv, UpdateTypeOK
  <2> QED
    BY <2>1, <2>2, <2>3, <2>4, <2>5 DEF BlocksInv, BlockDone, NoMsg
<1>4. CASE \/ HostStart \/ HostExits \/ HostReadsParams
           \/ HostCallsApp \/ HostRefusesApp \/ HostUnanswered
  <2>1. hpc' # "blocks"
    BY <1>4 DEF HostStart, HostExits, HostCallsApp, HostRefusesApp, HostUnanswered,
       HostReadsParams
  <2> QED
    BY <2>1 DEF BlocksInv
<1>5. CASE PowerLoss \/ FlashError
  BY <1>5 DEF PowerLoss, FlashError, BlocksInv
<1>6. CASE Operator
  <2>1. pc \in {"window", "app"} /\ hpc' = hpc /\ (clean' => clean)
    BY <1>6 DEF Operator, WindowEmergency, UidUnlockHandlerFunc, chipResetHandlerFunc, hostVars
  <2> QED
    BY <2>1 DEF SessionPlaces, BlocksInv
<1>7. CASE HostSends
  <2>1. UNCHANGED <<flash, mark, job, pc, ver, next, hpc, clean>> /\ link' = Request
    BY <1>7 DEF HostSends, hostVars, history, flashVars
  <2>2. link'.st # "ack"
    BY <2>1 DEF Request
  <2> QED
    BY <2>1, <2>2, BlocksSameInv
<1>8. CASE HostGetsNack \/ LoseMessage
  <2>1. UNCHANGED <<flash, mark, job, pc, ver, next, hpc, clean>> /\ link' = NoMsg
    BY <1>8 DEF HostGetsNack, LoseMessage, hostVars, history, flashVars
  <2> QED
    BY <2>1, BlocksSameInv DEF NoMsg
<1>9. CASE UNCHANGED vars
  BY <1>9, BlocksSameInv DEF vars, boardVars, hostVars, history, flashVars
<1> QED
  BY <1>1, <1>2, <1>3, <1>4, <1>5, <1>6, <1>7, <1>8, <1>9 DEF UpdateNext, HostStep

(* The board as delivered: its blocks, and a field that fits. *)
LEMMA DeliveredFacts ==
  ASSUME NEW v \in Version, NEW s \in Setting, BoardInit(Delivered(v, s))
  PROVE  /\ Complete(v)
         /\ read(0) = BOOT_PARAM_APP /\ read(1) = NumWord /\ read(FirstSetting) = s
         /\ read(VarNum) = check_func(Field, VarNum)
<1> DEFINE f == [i \in 0 .. VarNum - 1 |->
                   IF i = VAR_BOOT_OPTI THEN BOOT_PARAM_APP
                   ELSE IF i = VAR_NUM_OF_VAR THEN NumWord ELSE s]
           at(a) == CHOOSE i \in 0 .. VarNum - 1 : a = VarAddr[i]
<1>1. flash = [a \in Addr |->
         IF \E b \in Block : a = BlockAddr[b] THEN ImgWord[v]
         ELSE IF a = VarAddr[VarNum] THEN check_func(f, VarNum)
         ELSE IF \E i \in 0 .. VarNum - 1 : a = VarAddr[i]
                THEN f[at(a)]
         ELSE Erased]
  BY DEF BoardInit, FlashInit, Delivered
<1>2. \A i \in 0 .. VarNum - 1 : i \in 0 .. MAX_VAR_NUM_FUTURE /\ i # VarNum
  BY Indices
<1>3. VarNum \in 0 .. MAX_VAR_NUM_FUTURE /\ VarNum \in Nat
  BY Indices
<1>4. ASSUME NEW i \in 0 .. VarNum - 1 PROVE at(VarAddr[i]) = i
  <2>1. at(VarAddr[i]) \in 0 .. VarNum - 1 /\ VarAddr[i] = VarAddr[at(VarAddr[i])]
    OBVIOUS
  <2> HIDE DEF at
  <2> QED
    BY <1>2, <2>1, FieldApart
<1> HIDE DEF at, f
<1>5. ASSUME NEW i \in 0 .. MAX_VAR_NUM_FUTURE
      PROVE  VarAddr[i] \in Addr /\ ~\E b \in Block : VarAddr[i] = BlockAddr[b]
  BY FieldPlace, BlockPlace
<1>6. ASSUME NEW i \in 0 .. VarNum - 1 PROVE read(i) = f[i]
  <2>1. /\ VarAddr[i] \in Addr /\ ~\E b \in Block : VarAddr[i] = BlockAddr[b]
        /\ VarAddr[i] # VarAddr[VarNum]
    BY <1>2, <1>3, <1>5, FieldApart
  <2>2. flash[VarAddr[i]] = f[at(VarAddr[i])]
    BY <1>1, <2>1
  <2> QED
    BY <1>4, <2>2 DEF read
<1>7. read(VarNum) = check_func(f, VarNum)
  BY <1>1, <1>3, <1>5 DEF read
<1>8. check_func(f, VarNum) = check_func(Field, VarNum)
  <2>1. \A i \in 0 .. VarNum - 1 : Field[i] = f[i]
    BY <1>2, <1>6 DEF Field
  <2> QED
    BY <1>3, <2>1, CheckSame
<1>9. read(0) = BOOT_PARAM_APP /\ read(1) = NumWord /\ read(FirstSetting) = s
  <2>1. {0, 1, 2} \subseteq 0 .. VarNum - 1
    BY Indices
  <2>2. f[0] = BOOT_PARAM_APP /\ f[1] = NumWord /\ f[2] = s
    BY <2>1, Indices DEF f
  <2> QED
    BY <1>6, <2>1, <2>2, Indices
<1>10. Complete(v)
  BY <1>1, BlockPlace DEF Complete
<1> QED
  BY <1>7, <1>8, <1>9, <1>10

LEMMA ErasedFacts ==
  ASSUME flash = [a \in Addr |-> Erased], NEW i \in 0 .. MAX_VAR_NUM_FUTURE
  PROVE  read(i) = Erased
BY FieldPlace DEF read

LEMMA SessionInit ==
  UpdateInit => ParamsInv /\ CountInv /\ SessionPlaces /\ BlocksInv /\ SoundInv
<1> SUFFICES ASSUME UpdateInit
             PROVE  ParamsInv /\ CountInv /\ SessionPlaces /\ BlocksInv /\ SoundInv
  OBVIOUS
<1>1. hpc = "off" /\ params = <<>> /\ job = NoJob /\ clean = FALSE
  BY DEF UpdateInit, BoardInit, FlashInit
<1>2. CommonCount \subseteq read(1) /\ (image = "sound" => \E v \in Version : Complete(v))
  <2>1. ASSUME NEW v \in Version, NEW s \in Setting, BoardInit(Delivered(v, s))
        PROVE  CommonCount \subseteq read(1) /\ \E w \in Version : Complete(w)
    BY <2>1, DeliveredFacts, CommonWord
  <2>2. CASE BoardInit([a \in Addr |-> Erased]) /\ image = "suspect"
    <3>1. read(1) = Erased
      BY <2>2, ErasedFacts, Indices DEF BoardInit, FlashInit
    <3> QED
      BY <2>2, <3>1, CommonWord DEF Erased
  <2> QED
    BY <2>1, <2>2 DEF UpdateInit
<1>3. \A k \in DOMAIN job.todo : KeepsCount(job.todo[k])
  BY <1>1 DEF NoJob
<1>4. \A k \in DOMAIN params : KeepsCount(params[k])
  BY <1>1
<1> QED
  BY <1>1, <1>2, <1>3, <1>4, Indices DEF ParamsInv, CountInv, BoardCount, SessionPlaces,
     BlocksInv, SoundInv, NoJob, Busy

-----------------------------------------------------------------------------
(* The field while it is rewritten, and between two writes of it.          *)

(* The words of f, last + 1 of them, are on their way into the field: the  *)
(* first k are there, the others can still be programmed.                  *)
Writing(j, fl, f, last) ==
  \E k \in 0 .. last + 1 :
    /\ j.todo = FieldWrites(f, k, last)
    /\ j.pc = "erase" => k = 0
    /\ j.pc # "erase" =>
         \A i \in 0 .. last :
           IF i < k THEN fl[VarAddr[i]] = f[i] ELSE f[i] \subseteq fl[VarAddr[i]]

(* As Writing, but over a field that is not erased, whose boot option is   *)
(* that of the application.                                                *)
Overwriting(j, fl, f, last) ==
  \E k \in 0 .. last + 1 :
    /\ j.todo = FieldWrites(f, k, last)
    /\ j.pc # "erase"
    /\ \A i \in 1 .. last - 1 : fl[VarAddr[i]] = f[i]
    /\ fl[VarAddr[0]] = IF k = 0 THEN BOOT_PARAM_APP ELSE BOOT_PARAM_APP \cap BOOT_PARAM_BL

LEMMA WritingStart ==
  ASSUME NEW f, NEW last \in 0 .. MAX_VAR_NUM_FUTURE, last < MaxLen, ~mark[FieldSector],
         STMFLASH_write_bytes(FieldWrites(f, 0, last))
  PROVE  Writing(job', flash', f, last) /\ job'.pc = "erase"
<1>1. 0 \in 0 .. last + 1
  BY Indices
<1>2. job'.todo = FieldWrites(f, 0, last) /\ job'.pc = "erase"
  BY FieldJob
<1> QED
  BY <1>1, <1>2 DEF Writing

LEMMA OverwritingStart ==
  ASSUME NEW f, NEW last \in 0 .. MAX_VAR_NUM_FUTURE, last < MaxLen, mark[FieldSector],
         STMFLASH_write_bytes(FieldWrites(f, 0, last)),
         \A i \in 1 .. last - 1 : read(i) = f[i], read(0) = BOOT_PARAM_APP
  PROVE  Overwriting(job', flash', f, last) /\ job'.pc = "program"
<1>1. 0 \in 0 .. last + 1
  BY Indices
<1>2. job'.todo = FieldWrites(f, 0, last) /\ job'.pc = "program" /\ UNCHANGED flash
  BY FieldJob
<1> QED
  BY <1>1, <1>2 DEF Overwriting, read

LEMMA WritingErase ==
  ASSUME FlashTypeOK, EraseOk, CurrentSector = FieldSector,
         NEW f, NEW last \in 0 .. MAX_VAR_NUM_FUTURE, \A i \in 0 .. last : f[i] \in Word,
         Writing(job, flash, f, last)
  PROVE  Writing(job', flash', f, last)
<1>1. job.todo = FieldWrites(f, 0, last) /\ 0 \in 0 .. last + 1
  BY Indices DEF Writing, EraseOk
<1>2. /\ job'.todo = job.todo /\ job'.pc = "program"
      /\ \A a \in Addr : SectorOf[a] = FieldSector => flash'[a] = Erased
  BY DEF EraseOk, FlashTypeOK
<1>3. ASSUME NEW i \in 0 .. last PROVE f[i] \subseteq flash'[VarAddr[i]] /\ ~(i < 0)
  <2>1. i \in 0 .. MAX_VAR_NUM_FUTURE
    BY Indices
  <2> QED
    BY <1>2, <2>1, FieldPlace DEF Erased, Word
<1> QED
  BY <1>1, <1>2, <1>3 DEF Writing

(* One word of the field is programmed, and no other changes. *)
LEMMA FieldProgram ==
  ASSUME FlashTypeOK, ProgramOk, NEW f, NEW last \in 0 .. MAX_VAR_NUM_FUTURE,
         NEW k \in 0 .. last + 1, job.todo = FieldWrites(f, k, last)
  PROVE  /\ k \in 0 .. last /\ job'.todo = FieldWrites(f, k + 1, last)
         /\ flash'[VarAddr[k]] = flash[VarAddr[k]] \cap f[k]
         /\ \A i \in 0 .. MAX_VAR_NUM_FUTURE :
              i # k => flash'[VarAddr[i]] = flash[VarAddr[i]]
<1>1. Busy /\ job.todo # <<>>
  BY DEF ProgramOk, Busy, FlashTypeOK
<1>2. k \in 0 .. last /\ k \in 0 .. MAX_VAR_NUM_FUTURE
  BY <1>1, Indices, FieldWritesNone
<1>3. /\ Head(job.todo) = [addr |-> VarAddr[k], val |-> f[k]]
      /\ Tail(job.todo) = FieldWrites(f, k + 1, last)
  BY <1>2, FieldWritesNext
<1>4. flash' = [flash EXCEPT ![VarAddr[k]] = @ \cap f[k]] /\ job'.todo = Tail(job.todo)
  <2>1. Current.addr = VarAddr[k] /\ Current.val = f[k]
    BY <1>3 DEF Current
  <2> QED
    BY <2>1 DEF ProgramOk, Programmed
<1>5. VarAddr[k] \in Addr /\ flash \in [Addr -> Word]
  BY <1>2, FieldPlace DEF FlashTypeOK
<1>6. ASSUME NEW i \in 0 .. MAX_VAR_NUM_FUTURE, i # k
      PROVE  flash'[VarAddr[i]] = flash[VarAddr[i]]
  <2>1. VarAddr[i] \in Addr /\ VarAddr[i] # VarAddr[k]
    BY <1>2, <1>6, FieldPlace, FieldApart
  <2> QED
    BY <1>4, <1>5, <2>1
<1> QED
  BY <1>2, <1>3, <1>4, <1>5, <1>6

LEMMA WritingProgram ==
  ASSUME FlashTypeOK, ProgramOk, NEW f, NEW last \in 0 .. MAX_VAR_NUM_FUTURE,
         Writing(job, flash, f, last)
  PROVE  Writing(job', flash', f, last)
<1>1. PICK k \in 0 .. last + 1 :
        /\ job.todo = FieldWrites(f, k, last)
        /\ \A i \in 0 .. last :
             IF i < k THEN flash[VarAddr[i]] = f[i] ELSE f[i] \subseteq flash[VarAddr[i]]
  BY DEF Writing, ProgramOk
<1>2. /\ k \in 0 .. last /\ job'.todo = FieldWrites(f, k + 1, last)
      /\ flash'[VarAddr[k]] = flash[VarAddr[k]] \cap f[k]
      /\ \A i \in 0 .. MAX_VAR_NUM_FUTURE :
           i # k => flash'[VarAddr[i]] = flash[VarAddr[i]]
  BY <1>1, FieldProgram
<1>3. job'.pc # "erase"
  BY DEF ProgramOk, AfterWord
<1>4. k \in Nat /\ k + 1 \in 0 .. last + 1 /\ MAX_VAR_NUM_FUTURE \in Nat
  BY <1>2, Indices
<1>5. ASSUME NEW i \in 0 .. last
      PROVE  IF i < k + 1 THEN flash'[VarAddr[i]] = f[i] ELSE f[i] \subseteq flash'[VarAddr[i]]
  <2>1. CASE i = k
    <3>1. ~(i < k) /\ i < k + 1
      BY <1>4, <2>1
    <3>2. f[k] \subseteq flash[VarAddr[k]]
      BY <1>1, <2>1, <3>1
    <3> QED
      BY <1>2, <2>1, <3>1, <3>2
  <2>2. CASE i # k
    <3>1. i \in 0 .. MAX_VAR_NUM_FUTURE /\ (i < k <=> i < k + 1)
      BY <1>4, <2>2
    <3> QED
      BY <1>1, <1>2, <2>2, <3>1
  <2> QED
    BY <2>1, <2>2
<1> QED
  BY <1>2, <1>3, <1>4, <1>5 DEF Writing

LEMMA OverwritingProgram ==
  ASSUME FlashTypeOK, ProgramOk, NEW f, NEW last \in 2 .. MAX_VAR_NUM_FUTURE,
         f[0] = BOOT_PARAM_BL, Overwriting(job, flash, f, last)
  PROVE  Overwriting(job', flash', f, last)
<1>1. PICK k \in 0 .. last + 1 :
        /\ job.todo = FieldWrites(f, k, last)
        /\ \A i \in 1 .. last - 1 : flash[VarAddr[i]] = f[i]
        /\ flash[VarAddr[0]] = IF k = 0 THEN BOOT_PARAM_APP
                               ELSE BOOT_PARAM_APP \cap BOOT_PARAM_BL
  BY DEF Overwriting
<1>2. /\ k \in 0 .. last /\ job'.todo = FieldWrites(f, k + 1, last)
      /\ flash'[VarAddr[k]] = flash[VarAddr[k]] \cap f[k]
      /\ \A i \in 0 .. MAX_VAR_NUM_FUTURE :
           i # k => flash'[VarAddr[i]] = flash[VarAddr[i]]
  <2>1. last \in 0 .. MAX_VAR_NUM_FUTURE
    BY Indices
  <2> QED
    BY <1>1, <2>1, FieldProgram
<1>3. job'.pc # "erase"
  BY DEF ProgramOk, AfterWord
<1>4. k \in Nat /\ k + 1 \in 0 .. last + 1 /\ k + 1 # 0 /\ 0 \in 0 .. MAX_VAR_NUM_FUTURE
  BY <1>2, Indices
<1>5. ASSUME NEW i \in 1 .. last - 1 PROVE flash'[VarAddr[i]] = f[i]
  <2>1. i \in 0 .. MAX_VAR_NUM_FUTURE
    BY Indices
  <2> QED
    BY <1>1, <1>2, <2>1
<1>6. flash'[VarAddr[0]] = BOOT_PARAM_APP \cap BOOT_PARAM_BL
  <2>1. CASE k = 0
    BY <1>1, <1>2, <2>1
  <2>2. CASE k # 0
    BY <1>1, <1>2, <1>4, <2>2
  <2> QED
    BY <2>1, <2>2
<1> QED
  BY <1>2, <1>3, <1>4, <1>5, <1>6 DEF Overwriting

LEMMA WritingDone ==
  ASSUME FlashTypeOK, ~Busy, NEW f, NEW last \in 0 .. MAX_VAR_NUM_FUTURE,
         Writing(job, flash, f, last)
  PROVE  \A i \in 0 .. last : read(i) = f[i]
<1>1. job.todo = <<>> /\ job.pc # "erase"
  BY DEF FlashTypeOK, Busy
<1>2. PICK k \in 0 .. last + 1 :
        /\ job.todo = FieldWrites(f, k, last)
        /\ \A i \in 0 .. last :
             IF i < k THEN flash[VarAddr[i]] = f[i] ELSE f[i] \subseteq flash[VarAddr[i]]
  BY <1>1 DEF Writing
<1>3. k = last + 1
  BY <1>1, <1>2, FieldWritesNone
<1>4. \A i \in 0 .. last : i < k
  BY <1>3, Indices
<1> QED
  BY <1>2, <1>4 DEF read

LEMMA OverwritingDone ==
  ASSUME FlashTypeOK, ~Busy, NEW f, NEW last \in 2 .. MAX_VAR_NUM_FUTURE,
         Overwriting(job, flash, f, last)
  PROVE  /\ \A i \in 1 .. last - 1 : read(i) = f[i]
         /\ read(0) = BOOT_PARAM_APP \cap BOOT_PARAM_BL
<1>1. job.todo = <<>>
  BY DEF FlashTypeOK, Busy
<1>2. last \in 0 .. MAX_VAR_NUM_FUTURE
  BY Indices
<1>3. PICK k \in 0 .. last + 1 :
        /\ job.todo = FieldWrites(f, k, last)
        /\ \A i \in 1 .. last - 1 : flash[VarAddr[i]] = f[i]
        /\ flash[VarAddr[0]] = IF k = 0 THEN BOOT_PARAM_APP
                               ELSE BOOT_PARAM_APP \cap BOOT_PARAM_BL
  BY DEF Overwriting
<1>4. k # 0
  BY <1>1, <1>2, <1>3, FieldWritesNone
<1> QED
  BY <1>3, <1>4 DEF read

(* A field whose words are those of f, which fits, verifies. *)
LEMMA FitsVerify ==
  ASSUME NEW f, NEW last \in 2 .. MAX_VAR_NUM_FUTURE, Fits(f, last),
         \A i \in 0 .. last : read(i) = f[i]
  PROVE  verifyPowerupField /\ actualVarNum = last
<1>1. 1 \in 0 .. last /\ last \in 0 .. last /\ last \in Nat /\ MAX_VAR_NUM_FUTURE \in Nat
  BY Indices
<1>2. actualVarNum = last
  BY <1>1, Indices DEF actualVarNum, Fits
<1>3. check_func(Field, last) = check_func(f, last)
  <2>1. ASSUME NEW i \in 0 .. last - 1 PROVE Field[i] = f[i]
    <3>1. i \in 0 .. last /\ i \in 0 .. MAX_VAR_NUM_FUTURE
      BY <1>1
    <3> QED
      BY <3>1 DEF Field
  <2> QED
    BY <1>1, <2>1, CheckSame
<1>4. check_func(Field, actualVarNum) = read(actualVarNum)
  BY <1>1, <1>2, <1>3 DEF Fits
<1> QED
  BY <1>1, <1>2, <1>4 DEF verifyPowerupField

(* The field as pvf::write prepares it. *)
LEMMA ChangedFits ==
  ASSUME FlashTypeOK, BoardCount, NEW idx, idx # 1, NEW val \in Word
  PROVE  /\ getSuitVarNum \in 2 .. MAX_VAR_NUM_FUTURE
         /\ Changed(idx, val)[getSuitVarNum] = check_func(Changed(idx, val), getSuitVarNum)
         /\ \A i \in 0 .. getSuitVarNum - 1 :
              Changed(idx, val)[i] = IF i = idx THEN val ELSE read(i)
         /\ NumOf[Changed(idx, val)[VAR_NUM_OF_VAR]] = actualVarNum
         /\ \A i \in 0 .. getSuitVarNum : Changed(idx, val)[i] \in Word
<1> DEFINE n == getSuitVarNum
           new == [i \in 0 .. n - 1 |-> IF i = idx THEN val ELSE read(i)]
           f == Changed(idx, val)
<1>1. n \in 2 .. MAX_VAR_NUM_FUTURE /\ n \in Nat /\ n \in 0 .. n /\ 1 \in 0 .. n - 1
  BY CountSuits, Indices
<1>2. f = [i \in 0 .. n |-> IF i = n THEN check_func(new, i) ELSE new[i]]
  BY DEF Changed
<1>3. \A i \in 0 .. n - 1 : f[i] = IF i = idx THEN val ELSE read(i)
  BY ChangedFacts
<1>4. \A i \in 0 .. n - 1 : new[i] = IF i = idx THEN val ELSE read(i)
  OBVIOUS
<1>5. \A i \in 0 .. n : f[i] \in Word
  BY ChangedType
<1> HIDE DEF n, new, f
<1>6. check_func(new, n) = check_func(f, n)
  BY <1>1, <1>3, <1>4, CheckSame
<1>7. f[n] = check_func(f, n)
  BY <1>1, <1>2, <1>6
<1>8. NumOf[f[1]] = actualVarNum
  BY <1>1, <1>3, Indices DEF actualVarNum
<1> QED
  BY <1>1, <1>3, <1>5, <1>7, <1>8, Indices DEF n, f

-----------------------------------------------------------------------------
(* What is known of the field, its setting and its boot option.            *)

Bootable == verifyPowerupField /\ read(VAR_BOOT_OPTI) = BOOT_PARAM_APP

Kept ==
  /\ actualVarNum \in FirstSetting + 1 .. MAX_VAR_NUM_FUTURE
  /\ read(FirstSetting) \in setting

(* A flash error hit the field: nothing is promised of it until a restart. *)
Spoilt == faulty /\ setting = {} /\ ~clean

(* The host sends the field back, word by word, into an erased sector or   *)
(* over the very same words.                                               *)
Restoring ==
  hpc = "params" /\ (clean \/ setting # {}) =>
    /\ pc \in {"loop", "write"}
    /\ setting # {} => /\ FirstSetting \in 0 .. Len(params) - 2
                       /\ ParamsField[FirstSetting] \in setting
    /\ \A i \in 0 .. next - 1 : read(i) = ParamsField[i]
    /\ mark[FieldSector] =>
         \A i \in next .. Len(params) - 1 : ParamsField[i] \subseteq read(i)
    /\ next > 0 => mark[FieldSector]
    /\ link.st = "ack" \/ (pc = "write" /\ job.pc = "ok") =>
         mark[FieldSector] /\ read(next) = ParamsField[next]

(* Before the jump, and until the host has its answer, the field of a      *)
(* session nothing was cut into boots the application.                     *)
GoInv ==
  clean /\ hpc = "go" =>
    /\ pc = "pvf" => resume \in {"app", "hung"}
    /\ pc \in {"loop", "init", "app", "reset", "boot", "window"} => Bootable

(* The setting, while no write of the field runs.                          *)
SettingInv ==
  setting # {} /\ hpc # "params" /\ pc \notin {"pvf", "init1", "init2"} =>
    /\ Kept
    /\ \/ verifyPowerupField
       \/ pc \in {"boot", "hung"} /\ ~KnownBootOption /\ ~TooLong
    /\ pc \in {"loop", "write"} /\ mark[FieldSector] =>
         read(VAR_BOOT_OPTI) = BOOT_PARAM_APP
    /\ pc = "write" /\ Busy => CurrentSector # FieldSector

FaultyInv ==
  ~faulty =>
    /\ pc = "window" => KnownBootOption \/ TooLong
    /\ pc = "app" => verifyPowerupField /\ actualVarNum = VarNum

(* What a write of the field is for, by where it returns to. *)
PvfPromise(last) ==
  /\ resume \in {"window", "loop", "hung"} => powerupVarShadow[0] = BOOT_PARAM_BL
  /\ resume = "app" /\ ~faulty =>
       last = VarNum /\ NumOf[powerupVarShadow[VAR_NUM_OF_VAR]] = VarNum
  /\ setting # {} => /\ last > FirstSetting
                     /\ NumOf[powerupVarShadow[VAR_NUM_OF_VAR]] = last
                     /\ powerupVarShadow[FirstSetting] \in setting
  /\ clean /\ hpc = "go" /\ resume = "app" =>
       /\ powerupVarShadow[0] = BOOT_PARAM_APP
       /\ NumOf[powerupVarShadow[VAR_NUM_OF_VAR]] = last

(* The driver refused a field that claims too many variables, and left it  *)
(* as it was.                                                              *)
RefusedWrite ==
  /\ ~Busy /\ TooLong
  /\ resume = "app" => faulty
  /\ setting # {} => Kept /\ verifyPowerupField
  /\ clean /\ hpc = "go" /\ resume = "app" => Bootable

PvfInv ==
  pc = "pvf" =>
    \/ Spoilt
    \/ RefusedWrite
    \/ \E last \in 2 .. MAX_VAR_NUM_FUTURE :
         /\ last < MaxLen
         /\ \A i \in 0 .. last : powerupVarShadow[i] \in Word
         /\ powerupVarShadow[last] = check_func(powerupVarShadow, last)
         /\ PvfPromise(last)
         /\ resume # "hung" => Writing(job, flash, powerupVarShadow, last)
         /\ resume = "hung" /\ setting # {} =>
              \/ Writing(job, flash, powerupVarShadow, last)
              \/ Overwriting(job, flash, powerupVarShadow, last)

InitPromise ==
  /\ \A i \in 0 .. VarNum - 1 : powerupVarShadow[i] \in Word
  /\ powerupVarShadow[VAR_NUM_OF_VAR] = NumWord
  /\ setting # {} => powerupVarShadow[FirstSetting] \in setting
  /\ clean /\ hpc = "go" => powerupVarShadow[0] = BOOT_PARAM_APP

CheckVal == check_func(powerupVarShadow, VarNum)

(* initInApp's two writes: the variables, and then the check word, which   *)
(* is still erased.                                                        *)
Init1Inv ==
  pc = "init1" =>
    \/ Spoilt
    \/ /\ InitPromise
       /\ Writing(job, flash, powerupVarShadow, VarNum - 1)
       /\ job.pc # "erase" => read(VarNum) = Erased /\ mark[FieldSector]

Init2Inv ==
  pc = "init2" =>
    \/ Spoilt
    \/ /\ InitPromise
       /\ \A i \in 0 .. VarNum - 1 : read(i) = powerupVarShadow[i]
       /\ IF Busy
            THEN /\ job = [pc |-> "program",
                           todo |-> <<[addr |-> VarAddr[VarNum], val |-> CheckVal]>>]
                 /\ read(VarNum) = Erased
            ELSE read(VarNum) = CheckVal

InitInv == Init1Inv /\ Init2Inv

(* All of these but Restoring hold through a step of host or link. *)
BoardInv == GoInv /\ SettingInv /\ FaultyInv /\ PvfInv /\ InitInv

FieldInv == Restoring /\ BoardInv

SameField == \A i \in 0 .. MAX_VAR_NUM_FUTURE : flash'[VarAddr[i]] = flash[VarAddr[i]]

LEMMA FieldSame ==
  ASSUME FlashTypeOK, SameField
  PROVE  /\ \A i \in 0 .. MAX_VAR_NUM_FUTURE : read(i)' = read(i)
         /\ verifyPowerupField' <=> verifyPowerupField
         /\ actualVarNum' = actualVarNum
         /\ KnownBootOption' <=> KnownBootOption
         /\ getSuitVarNum' = getSuitVarNum /\ (TooLong' <=> TooLong)
         /\ Bootable' <=> Bootable
         /\ read(VAR_BOOT_OPTI)' = read(VAR_BOOT_OPTI)
         /\ read(FirstSetting)' = read(FirstSetting)
<1>1. \A i \in 0 .. MAX_VAR_NUM_FUTURE : read(i)' = read(i)
  BY DEF SameField, read
<1>2. /\ actualVarNum' = actualVarNum /\ read(VAR_BOOT_OPTI)' = read(VAR_BOOT_OPTI)
      /\ read(FirstSetting)' = read(FirstSetting)
  BY <1>1, Indices DEF actualVarNum, read
<1>3. Field' = Field
  BY <1>1 DEF Field
<1>4. verifyPowerupField' <=> verifyPowerupField
  <2>1. actualVarNum >= 1 /\ actualVarNum <= MAX_VAR_NUM_FUTURE =>
          flash'[VarAddr[actualVarNum]] = flash[VarAddr[actualVarNum]]
    <3>1. actualVarNum \in Nat /\ MAX_VAR_NUM_FUTURE \in Nat
      BY SuitType, Indices
    <3> QED
      BY <3>1 DEF SameField
  <2> QED
    BY <1>2, <1>3, <2>1 DEF verifyPowerupField, read, check_func
<1>5. getSuitVarNum' = getSuitVarNum
  BY <1>2 DEF getSuitVarNum
<1>6. KnownBootOption' <=> KnownBootOption
  BY <1>2 DEF KnownBootOption
<1>7. (TooLong' <=> TooLong) /\ (Bootable' <=> Bootable)
  BY <1>2, <1>4, <1>5 DEF TooLong, Bootable
<1> QED
  BY <1>1, <1>2, <1>4, <1>5, <1>6, <1>7

(* A step of host or link. *)
LEMMA HostQuiet ==
  ASSUME BoardInv,
         UNCHANGED <<flash, mark, job, powerupVarShadow, pc, resume, faulty>>,
         setting' = setting \/ setting' = {},
         setting' # {} /\ hpc' # "params" => hpc # "params",
         clean' => clean \/ pc = "loop",
         clean' /\ hpc' = "go" => clean /\ hpc = "go"
  PROVE  BoardInv'
<1>1. UNCHANGED <<flashVars, verifyPowerupField, actualVarNum, KnownBootOption, TooLong>>
      /\ UNCHANGED <<read(VAR_BOOT_OPTI), read(FirstSetting), Busy, CurrentSector, CheckVal>>
  BY DEF flashVars, verifyPowerupField, actualVarNum, KnownBootOption, read, Field, Busy,
     CurrentSector, Current, CheckVal, TooLong, getSuitVarNum
<1>2. GoInv'
  BY <1>1 DEF BoardInv, GoInv, Bootable
<1>3. SettingInv'
  BY <1>1 DEF BoardInv, SettingInv, Kept
<1>4. FaultyInv'
  BY <1>1 DEF BoardInv, FaultyInv
<1>5. PvfInv'
  <2>0. RefusedWrite => RefusedWrite'
    BY <1>1 DEF RefusedWrite, Kept, Bootable
  <2> SUFFICES ASSUME pc = "pvf", ~Spoilt, ~RefusedWrite PROVE PvfInv'
    BY <2>0 DEF PvfInv, Spoilt
  <2>1. PICK last \in 2 .. MAX_VAR_NUM_FUTURE :
          /\ last < MaxLen
          /\ \A i \in 0 .. last : powerupVarShadow[i] \in Word
          /\ powerupVarShadow[last] = check_func(powerupVarShadow, last)
          /\ PvfPromise(last)
          /\ resume # "hung" => Writing(job, flash, powerupVarShadow, last)
          /\ resume = "hung" /\ setting # {} =>
               \/ Writing(job, flash, powerupVarShadow, last)
               \/ Overwriting(job, flash, powerupVarShadow, last)
    BY DEF BoardInv, PvfInv
  <2>2. PvfPromise(last)'
    BY <2>1 DEF PvfPromise
  <2> QED
    BY <2>1, <2>2 DEF PvfInv
<1>6. InitPromise => InitPromise'
  BY DEF InitPromise
<1>7. InitInv'
  BY <1>1, <1>6 DEF BoardInv, InitInv, Init1Inv, Init2Inv, Spoilt, read
<1> QED
  BY <1>2, <1>3, <1>4, <1>5, <1>7 DEF BoardInv

(* pvf::write prepares the field, and the flash driver begins with it. *)
LEMMA PvfEnters ==
  ASSUME FlashTypeOK, BoardCount, NEW idx, idx # 1, NEW val \in Word, NEW nxt,
         write_start(idx, val), resume' = nxt,
         nxt \in {"window", "loop", "hung"} => idx = 0 /\ val = BOOT_PARAM_BL,
         nxt = "app" /\ ~faulty' => actualVarNum = VarNum,
         setting' # {} =>
           /\ actualVarNum \in FirstSetting + 1 .. MAX_VAR_NUM_FUTURE
           /\ \/ TooLong
              \/ (IF idx = FirstSetting THEN val ELSE read(FirstSetting)) \in setting',
         TooLong /\ setting' # {} =>
           verifyPowerupField /\ read(FirstSetting) \in setting',
         clean' /\ hpc' = "go" /\ nxt = "app" => Bootable /\ idx # 0,
         mark[FieldSector] => nxt = "hung" /\ (setting' # {} => read(0) = BOOT_PARAM_APP)
  PROVE  PvfInv'
<1> SUFFICES ASSUME ~TooLong PROVE PvfInv'
  <2> SUFFICES ASSUME TooLong PROVE RefusedWrite'
    BY DEF PvfInv
  <2>1. UNCHANGED flash /\ job' = Failed
    BY RefusedJob DEF write_start
  <2>2. ~Busy'
    BY <2>1 DEF Failed, Busy
  <2>3. SameField
    BY <2>1 DEF SameField
  <2>4. actualVarNum # VarNum
    <3>1. actualVarNum = VarNum => getSuitVarNum = VarNum
      BY Indices DEF getSuitVarNum
    <3> QED
      BY <3>1, Indices DEF TooLong
  <2> QED
    BY <2>2, <2>3, <2>4, FieldSame DEF RefusedWrite, Kept
<1>1. PICK m : m = getSuitVarNum
  OBVIOUS
<1>0. m < MaxLen
  BY <1>1, FieldShort
<1>2. m \in 2 .. MAX_VAR_NUM_FUTURE /\ MAX_VAR_NUM_FUTURE \in Nat
      /\ m \in 0 .. MAX_VAR_NUM_FUTURE /\ {0, 1} \subseteq 0 .. m - 1
  BY <1>1, CountSuits, Indices
<1> DEFINE f == powerupVarShadow'
<1>3. /\ f = Changed(idx, val)
      /\ STMFLASH_write_bytes(FieldWrites(Changed(idx, val), 0, m))
  BY <1>1 DEF write_start
<1>4. /\ f[m] = check_func(f, m)
      /\ \A i \in 0 .. m - 1 : f[i] = IF i = idx THEN val ELSE read(i)
      /\ NumOf[f[1]] = actualVarNum
      /\ \A i \in 0 .. m : f[i] \in Word
  <2> DEFINE c == Changed(idx, val)
  <2>1. /\ c[m] = check_func(c, m)
        /\ \A i \in 0 .. m - 1 : c[i] = IF i = idx THEN val ELSE read(i)
        /\ NumOf[c[VAR_NUM_OF_VAR]] = actualVarNum
        /\ \A i \in 0 .. m : c[i] \in Word
    <3> DEFINE n == getSuitVarNum
    <3>1. /\ c[n] = check_func(c, n)
          /\ \A i \in 0 .. n - 1 : c[i] = IF i = idx THEN val ELSE read(i)
          /\ NumOf[c[VAR_NUM_OF_VAR]] = actualVarNum
          /\ \A i \in 0 .. n : c[i] \in Word
      <4>1. c[n] = check_func(c, n) /\ NumOf[c[VAR_NUM_OF_VAR]] = actualVarNum
        BY ChangedFits, Zenon
      <4>2. \A i \in 0 .. n - 1 : c[i] = IF i = idx THEN val ELSE read(i)
        BY ChangedFacts
      <4>3. \A i \in 0 .. n : c[i] \in Word
        BY ChangedFits, Zenon
      <4> QED
        BY <4>1, <4>2, <4>3, Zenon
    <3>2. n = m
      BY <1>1
    <3> HIDE DEF c, n
    <3> QED
      BY <3>1, <3>2
  <2> HIDE DEF c, f
  <2>2. f = c
    BY <1>3 DEF c
  <2> QED
    BY <2>1, <2>2, Indices
<1>5. actualVarNum <= MAX_VAR_NUM_FUTURE => m = actualVarNum
  BY <1>1, <1>2, SuitType DEF getSuitVarNum
<1>6. PvfPromise(m)'
  <2>1. nxt \in {"window", "loop", "hung"} => f[0] = BOOT_PARAM_BL
    BY <1>2, <1>4
  <2>2. nxt = "app" /\ ~faulty' => m = VarNum /\ NumOf[f[1]] = VarNum
    BY <1>4, <1>5, Indices
  <2>3. setting' # {} => m > FirstSetting /\ NumOf[f[1]] = m /\ f[FirstSetting] \in setting'
    <3> SUFFICES ASSUME setting' # {}
                 PROVE  m > FirstSetting /\ NumOf[f[1]] = m /\ f[FirstSetting] \in setting'
      OBVIOUS
    <3>1. actualVarNum \in FirstSetting + 1 .. MAX_VAR_NUM_FUTURE
      OBVIOUS
    <3>2. m = actualVarNum /\ m > FirstSetting /\ FirstSetting \in 0 .. m - 1
      BY <1>2, <1>5, <3>1, Indices
    <3> QED
      BY <1>4, <3>2
  <2>4. clean' /\ hpc' = "go" /\ nxt = "app" => f[0] = BOOT_PARAM_APP /\ NumOf[f[1]] = m
    BY <1>2, <1>4, <1>5, Indices DEF Bootable, verifyPowerupField
  <2> QED
    BY <2>1, <2>2, <2>3, <2>4, Indices DEF PvfPromise
<1>7. ~mark[FieldSector] => Writing(job', flash', f, m)
  BY <1>0, <1>2, <1>3, WritingStart
<1>8. mark[FieldSector] /\ setting' # {} => Overwriting(job', flash', f, m)
  <2> SUFFICES ASSUME mark[FieldSector], setting' # {}
               PROVE  Overwriting(job', flash', f, m)
    OBVIOUS
  <2>1. \A i \in 1 .. m - 1 : read(i) = f[i]
    <3> SUFFICES ASSUME NEW i \in 1 .. m - 1 PROVE read(i) = f[i]
      OBVIOUS
    <3>1. i \in 0 .. m - 1 /\ i # 0
      BY <1>2
    <3> QED
      BY <1>4, <3>1
  <2> QED
    BY <1>0, <1>2, <1>3, <2>1, OverwritingStart
<1> HIDE DEF f
<1>9. \E last \in 2 .. MAX_VAR_NUM_FUTURE :
         /\ last < MaxLen
         /\ \A i \in 0 .. last : f[i] \in Word
         /\ f[last] = check_func(f, last)
         /\ PvfPromise(last)'
         /\ nxt # "hung" => Writing(job', flash', f, last)
         /\ nxt = "hung" /\ setting' # {} =>
              \/ Writing(job', flash', f, last)
              \/ Overwriting(job', flash', f, last)
  BY <1>0, <1>2, <1>4, <1>6, <1>7, <1>8
<1> QED
  BY <1>9 DEF PvfInv, f

(* The write of the field is over. *)
LEMMA PvfDone ==
  ASSUME FlashTypeOK, PvfInv, pc = "pvf", ~Busy, ~Spoilt
  PROVE  /\ resume = "window" => KnownBootOption \/ TooLong
         /\ resume = "app" /\ ~faulty => verifyPowerupField /\ actualVarNum = VarNum
         /\ setting # {} =>
              /\ Kept
              /\ verifyPowerupField \/ (resume = "hung" /\ ~KnownBootOption /\ ~TooLong)
         /\ clean /\ hpc = "go" /\ resume = "app" => Bootable
<1> DEFINE f == powerupVarShadow
<1>0. CASE RefusedWrite
  BY <1>0 DEF RefusedWrite
<1> SUFFICES ASSUME ~RefusedWrite
             PROVE  /\ resume = "window" => KnownBootOption \/ TooLong
                    /\ resume = "app" /\ ~faulty => verifyPowerupField /\ actualVarNum = VarNum
                    /\ setting # {} =>
                         /\ Kept
                         /\ \/ verifyPowerupField
                            \/ resume = "hung" /\ ~KnownBootOption /\ ~TooLong
                    /\ clean /\ hpc = "go" /\ resume = "app" => Bootable
  BY <1>0
<1>1. PICK last \in 2 .. MAX_VAR_NUM_FUTURE :
         /\ last < MaxLen
         /\ \A i \in 0 .. last : f[i] \in Word
         /\ f[last] = check_func(f, last)
         /\ PvfPromise(last)
         /\ resume # "hung" => Writing(job, flash, f, last)
         /\ resume = "hung" /\ setting # {} =>
              \/ Writing(job, flash, f, last)
              \/ Overwriting(job, flash, f, last)
  BY DEF PvfInv
<1>2. /\ last \in 0 .. MAX_VAR_NUM_FUTURE /\ {0, 1, 2} \subseteq 0 .. last
      /\ last \in Nat /\ MAX_VAR_NUM_FUTURE \in Nat
  BY <1>1, Indices
<1>3. NumOf[f[1]] = last => Fits(f, last)
  BY <1>1, Indices DEF Fits
<1> HIDE DEF f
<1>4. CASE Writing(job, flash, f, last)
  <2>1. \A i \in 0 .. last : read(i) = f[i]
    BY <1>2, <1>4, WritingDone
  <2>2. NumOf[f[1]] = last => verifyPowerupField /\ actualVarNum = last
    BY <1>1, <1>3, <2>1, FitsVerify
  <2>3. resume = "window" => KnownBootOption
    BY <1>1, <1>2, <2>1, Indices DEF PvfPromise, KnownBootOption, f
  <2>4. resume = "app" /\ ~faulty => verifyPowerupField /\ actualVarNum = VarNum
    BY <1>1, <2>2, Indices DEF PvfPromise, f
  <2>5. setting # {} => verifyPowerupField /\ Kept
    <3>1. setting # {} => last > FirstSetting /\ NumOf[f[1]] = last /\ f[FirstSetting] \in setting
      BY <1>1, Indices DEF PvfPromise, f
    <3>2. read(FirstSetting) = f[FirstSetting]
      BY <1>2, <2>1, Indices
    <3> QED
      BY <1>1, <1>2, <2>2, <3>1, <3>2, Indices DEF Kept
  <2>6. clean /\ hpc = "go" /\ resume = "app" => Bootable
    <3>1. clean /\ hpc = "go" /\ resume = "app" => f[0] = BOOT_PARAM_APP /\ NumOf[f[1]] = last
      BY <1>1, Indices DEF PvfPromise, f
    <3>2. read(0) = f[0]
      BY <1>2, <2>1
    <3> QED
      BY <2>2, <3>1, <3>2, Indices DEF Bootable
  <2> QED
    BY <2>3, <2>4, <2>5, <2>6
<1>5. CASE resume = "hung" /\ setting # {} /\ Overwriting(job, flash, f, last)
  <2>1. /\ \A i \in 1 .. last - 1 : read(i) = f[i]
        /\ read(0) = BOOT_PARAM_APP \cap BOOT_PARAM_BL
    BY <1>1, <1>5, OverwritingDone
  <2>2. ~KnownBootOption
    BY <2>1, OptionAssumption, Indices DEF KnownBootOption
  <2>3. last > 2 /\ NumOf[f[1]] = last /\ f[2] \in setting
    BY <1>1, <1>5, Indices DEF PvfPromise, f
  <2>4. {1, 2} \subseteq 1 .. last - 1
    BY <1>2, <2>3
  <2>5. read(1) = f[1] /\ read(2) = f[2]
    BY <2>1, <2>4
  <2>6. Kept /\ actualVarNum = last
    BY <1>1, <1>2, <2>3, <2>5, Indices DEF Kept, actualVarNum
  <2>7. ~TooLong
    BY <1>1, <1>2, <2>6, Indices DEF TooLong, getSuitVarNum
  <2> QED
    BY <1>5, <2>2, <2>6, <2>7
<1>6. CASE resume = "hung" /\ setting = {}
  BY <1>6
<1> QED
  BY <1>1, <1>4, <1>5, <1>6

(* initInApp's first call is over. *)
LEMMA Init1Done ==
  ASSUME FlashTypeOK, Init1Inv, pc = "init1", ~Busy, ~Spoilt
  PROVE  /\ InitPromise
         /\ \A i \in 0 .. VarNum - 1 : read(i) = powerupVarShadow[i]
         /\ read(VarNum) = Erased /\ mark[FieldSector]
<1> DEFINE f == powerupVarShadow
<1>1. InitPromise /\ Writing(job, flash, f, VarNum - 1)
      /\ (job.pc # "erase" => read(VarNum) = Erased /\ mark[FieldSector])
  BY DEF Init1Inv
<1>2. VarNum - 1 \in 0 .. MAX_VAR_NUM_FUTURE /\ job.pc # "erase"
  BY Indices DEF Busy
<1> HIDE DEF f
<1>3. \A i \in 0 .. VarNum - 1 : read(i) = f[i]
  BY <1>1, <1>2, WritingDone
<1> QED
  BY <1>1, <1>2, <1>3 DEF f

(* initInApp is over. *)
LEMMA Init2Done ==
  ASSUME FlashTypeOK, Init2Inv, pc = "init2", ~Busy, ~Spoilt
  PROVE  /\ verifyPowerupField /\ actualVarNum = VarNum
         /\ setting # {} => Kept
         /\ clean /\ hpc = "go" => Bootable
<1> DEFINE f == [i \in 0 .. VarNum |-> IF i = VarNum THEN CheckVal ELSE powerupVarShadow[i]]
<1>1. InitPromise /\ read(VarNum) = CheckVal
      /\ \A i \in 0 .. VarNum - 1 : read(i) = powerupVarShadow[i]
  BY DEF Init2Inv
<1>2. /\ VarNum \in 2 .. MAX_VAR_NUM_FUTURE /\ VarNum \in Nat
      /\ {0, 1, 2} \subseteq 0 .. VarNum - 1 /\ VarNum \in 0 .. VarNum
      /\ \A i \in 0 .. VarNum - 1 : i \in 0 .. VarNum /\ i # VarNum
      /\ \A i \in 0 .. VarNum : i = VarNum \/ i \in 0 .. VarNum - 1
  BY Indices
<1>3. /\ \A i \in 0 .. VarNum - 1 : f[i] = powerupVarShadow[i]
      /\ f[VarNum] = CheckVal
  BY <1>2
<1> HIDE DEF f
<1>4. \A i \in 0 .. VarNum : read(i) = f[i]
  BY <1>1, <1>2, <1>3
<1>5. check_func(f, VarNum) = CheckVal
  BY <1>2, <1>3, CheckSame DEF CheckVal
<1>6. NumOf[f[1]] = VarNum
  BY <1>1, <1>2, <1>3, WordAssumption, Indices DEF InitPromise
<1>7. Fits(f, VarNum)
  BY <1>3, <1>5, <1>6, Indices DEF Fits
<1>8. verifyPowerupField /\ actualVarNum = VarNum
  BY <1>2, <1>4, <1>7, FitsVerify
<1>9. setting # {} => Kept
  BY <1>1, <1>2, <1>8, Indices DEF Kept, InitPromise
<1>10. clean /\ hpc = "go" => Bootable
  BY <1>1, <1>2, <1>8, Indices DEF Bootable, InitPromise
<1> QED
  BY <1>8, <1>9, <1>10

(* The flash driver's steps, by what they are part of. *)

LEMMA PvfFlash ==
  ASSUME FlashTypeOK, JobPlaces, PvfInv, pc = "pvf", FlashStep,
         UNCHANGED <<powerupVarShadow, pc, resume, setting, clean, hpc, faulty>>
  PROVE  PvfInv'
<1> SUFFICES ASSUME ~Spoilt PROVE PvfInv'
  BY DEF PvfInv, Spoilt
<1>0. ~RefusedWrite
  BY DEF FlashStep, EraseOk, ProgramOk, Busy, RefusedWrite
<1> DEFINE f == powerupVarShadow
<1>1. PICK last \in 2 .. MAX_VAR_NUM_FUTURE :
         /\ last < MaxLen
         /\ \A i \in 0 .. last : f[i] \in Word
         /\ f[last] = check_func(f, last)
         /\ PvfPromise(last)
         /\ resume # "hung" => Writing(job, flash, f, last)
         /\ resume = "hung" /\ setting # {} =>
              \/ Writing(job, flash, f, last)
              \/ Overwriting(job, flash, f, last)
  BY <1>0 DEF PvfInv
<1>2. last \in 0 .. MAX_VAR_NUM_FUTURE
  BY <1>1, Indices
<1>3. Busy /\ CurrentSector = FieldSector
  BY DEF FlashStep, EraseOk, ProgramOk, Busy, JobPlaces
<1>4. PvfPromise(last)'
  BY <1>1 DEF PvfPromise
<1> HIDE DEF f
<1>5. Writing(job, flash, f, last) => Writing(job', flash', f, last)
  BY <1>1, <1>2, <1>3, WritingErase, WritingProgram DEF FlashStep
<1>6. resume = "hung" => f[0] = BOOT_PARAM_BL
  BY <1>1 DEF PvfPromise, f
<1>7. resume = "hung" /\ Overwriting(job, flash, f, last) => Overwriting(job', flash', f, last)
  <2>1. EraseOk => ~Overwriting(job, flash, f, last)
    BY DEF EraseOk, Overwriting
  <2> QED
    BY <1>1, <1>6, <2>1, OverwritingProgram DEF FlashStep
<1>8. f' = f
  BY DEF f
<1> QED
  BY <1>1, <1>4, <1>5, <1>7, <1>8 DEF PvfInv, f

LEMMA Init1Flash ==
  ASSUME FlashTypeOK, JobPlaces, Init1Inv, pc = "init1", FlashStep,
         UNCHANGED <<powerupVarShadow, pc, resume, setting, clean, hpc, faulty>>
  PROVE  Init1Inv'
<1> SUFFICES ASSUME ~Spoilt PROVE Init1Inv'
  BY DEF Init1Inv, Spoilt
<1> DEFINE f == powerupVarShadow
           last == VarNum - 1
<1>1. /\ InitPromise /\ Writing(job, flash, f, last)
      /\ job.pc # "erase" => read(VarNum) = Erased /\ mark[FieldSector]
  BY DEF Init1Inv
<1>2. /\ last \in 0 .. MAX_VAR_NUM_FUTURE /\ VarNum \in 0 .. MAX_VAR_NUM_FUTURE
      /\ VarNum \notin 0 .. last + 1 - 1
  BY Indices
<1>3. Busy /\ CurrentSector = FieldSector
  BY DEF FlashStep, EraseOk, ProgramOk, Busy, JobPlaces
<1>4. InitPromise' /\ \A i \in 0 .. last : f[i] \in Word
  BY <1>1 DEF InitPromise
<1> HIDE DEF f, last
<1>5. Writing(job', flash', f, last)
  BY <1>1, <1>2, <1>3, <1>4, WritingErase, WritingProgram DEF FlashStep
<1>6. flash'[VarAddr[VarNum]] = Erased /\ mark'[FieldSector]
  <2>1. CASE EraseOk
    BY <1>2, <1>3, <2>1, FieldPlace, FieldSectorType DEF EraseOk, FlashTypeOK
  <2>2. CASE ProgramOk
    <3>1. flash[VarAddr[VarNum]] = Erased /\ mark' = mark /\ mark[FieldSector]
      BY <1>1, <2>2 DEF ProgramOk, read
    <3>2. PICK k \in 0 .. last + 1 : job.todo = FieldWrites(f, k, last)
      BY <1>1 DEF Writing
    <3>3. /\ k \in 0 .. last
          /\ \A i \in 0 .. MAX_VAR_NUM_FUTURE :
               i # k => flash'[VarAddr[i]] = flash[VarAddr[i]]
      <4>1. last \in 0 .. MAX_VAR_NUM_FUTURE
        BY <1>2
      <4> QED
        BY <2>2, <3>2, <4>1, FieldProgram
    <3>4. k # VarNum
      BY <3>3, Indices DEF last
    <3> QED
      BY <1>2, <3>1, <3>3, <3>4
  <2> QED
    BY <2>1, <2>2 DEF FlashStep
<1> QED
  BY <1>4, <1>5, <1>6 DEF Init1Inv, read, f, last

LEMMA Init2Flash ==
  ASSUME FlashTypeOK, JobPlaces, Init2Inv, pc = "init2", FlashStep,
         UNCHANGED <<powerupVarShadow, pc, resume, setting, clean, hpc, faulty>>
  PROVE  Init2Inv'
<1> SUFFICES ASSUME ~Spoilt PROVE Init2Inv'
  BY DEF Init2Inv, Spoilt
<1>1. Busy
  BY DEF FlashStep, EraseOk, ProgramOk, Busy
<1> DEFINE w == [addr |-> VarAddr[VarNum], val |-> CheckVal]
<1>2. /\ InitPromise
      /\ \A i \in 0 .. VarNum - 1 : read(i) = powerupVarShadow[i]
      /\ job = [pc |-> "program", todo |-> <<w>>]
      /\ read(VarNum) = Erased
  BY <1>1 DEF Init2Inv
<1>3. ProgramOk
  BY <1>2 DEF FlashStep, EraseOk
<1>4. Current.addr = VarAddr[VarNum] /\ Current.val = CheckVal /\ Len(job.todo) = 1
  BY <1>2 DEF Current
<1>5. /\ flash' = [flash EXCEPT ![VarAddr[VarNum]] = @ \cap CheckVal]
      /\ job'.pc = "ok"
  BY <1>3, <1>4 DEF ProgramOk, Programmed, AfterWord
<1>6. CheckVal \in Word /\ flash \in [Addr -> Word]
  BY CheckType DEF CheckVal, FlashTypeOK
<1>7. VarAddr[VarNum] \in Addr /\ VarNum \in 0 .. MAX_VAR_NUM_FUTURE
  BY FieldPlace, Indices
<1>8. flash'[VarAddr[VarNum]] = CheckVal
  BY <1>2, <1>5, <1>6, <1>7 DEF read, Erased, Word
<1>9. ASSUME NEW i \in 0 .. VarNum - 1
      PROVE  flash'[VarAddr[i]] = powerupVarShadow[i]
  <2>1. i \in 0 .. MAX_VAR_NUM_FUTURE /\ i # VarNum
    BY Indices
  <2>2. VarAddr[i] \in Addr /\ VarAddr[i] # VarAddr[VarNum]
    BY <1>7, <2>1, FieldPlace, FieldApart
  <2> QED
    BY <1>2, <1>5, <1>6, <1>7, <2>2 DEF read
<1>10. InitPromise'
  BY <1>2 DEF InitPromise
<1>11. CheckVal' = CheckVal /\ ~Busy'
  BY <1>5 DEF CheckVal, check_func, Busy
<1> QED
  BY <1>8, <1>9, <1>10, <1>11 DEF Init2Inv, read

(* A parameter on its way into the field. *)
LEMMA ParamFlash ==
  ASSUME UpdateInv, JobPlaces, LinkPlaces, ParamsInv, Restoring, hpc = "params",
         pc = "write", FlashStep,
         UNCHANGED <<pc, link, hpc, next, params, setting, clean>>
  PROVE  Restoring'
<1> SUFFICES ASSUME clean \/ setting # {} PROVE Restoring'
  BY DEF Restoring
<1> DEFINE p == ParamsField
           last == Len(params) - 1
<1>1. FlashTypeOK /\ Busy /\ link.st = "busy" /\ Current = Sent
  BY DEF UpdateInv, UpdateTypeOK, BoardTypeOK, FlashStep, EraseOk, ProgramOk, Busy, LinkPlaces
<1>2. /\ last \in 2 .. MAX_VAR_NUM_FUTURE /\ next \in 0 .. last
      /\ Sent = [addr |-> VarAddr[next], val |-> p[next]]
      /\ SectorOf[Sent.addr] = FieldSector
  BY SentParam
<1>3. p' = p /\ last' = last
  BY DEF ParamsField
<1>4. /\ setting # {} => FirstSetting \in 0 .. last - 1 /\ p[FirstSetting] \in setting
      /\ \A i \in 0 .. next - 1 : read(i) = p[i]
      /\ mark[FieldSector] => \A i \in next .. last : p[i] \subseteq read(i)
      /\ next > 0 => mark[FieldSector]
  BY Indices, <1>2 DEF Restoring
<1>5. Len(params) - 2 = last - 1
  BY <1>2 DEF UpdateInv, UpdateTypeOK
<1>6. \A i \in 0 .. last : i \in 0 .. MAX_VAR_NUM_FUTURE
  BY <1>2, Indices
<1>7. next \in Nat /\ last \in Nat
  BY <1>2, Indices
<1>8. CASE EraseOk
  <2>1. CurrentSector = FieldSector /\ ~mark[FieldSector]
    BY <1>1, <1>2, <1>8 DEF CurrentSector, JobPlaces, EraseOk
  <2>2. next = 0
    BY <1>4, <1>7, <2>1
  <2>3. /\ mark'[FieldSector] /\ job'.pc = "program"
        /\ \A a \in Addr : SectorOf[a] = FieldSector => flash'[a] = Erased
    BY <1>1, <1>8, <2>1, FieldSectorType DEF EraseOk, FlashTypeOK
  <2>4. ASSUME NEW i \in 0 .. last PROVE p[i] \subseteq flash'[VarAddr[i]]
    <3>1. params \in Seq(Write) /\ i + 1 \in 1 .. Len(params)
      BY <1>2 DEF UpdateInv, UpdateTypeOK
    <3>2. p[i] = params[i + 1].val /\ params[i + 1] \in Write
      BY <3>1, <1>7 DEF ParamsField
    <3>3. p[i] \in Word
      BY <3>2 DEF Write
    <3> QED
      BY <1>6, <2>3, <3>3, FieldPlace DEF Erased, Word
  <2>5. \A i \in 0 .. next - 1 : FALSE
    BY <2>2
  <2> HIDE DEF p, last
  <2>6. \A i \in next .. last : p[i] \subseteq flash'[VarAddr[i]]
    BY <2>2, <2>4
  <2>7. link'.st # "ack" /\ ~(pc' = "write" /\ job'.pc = "ok")
    BY <1>1, <2>3
  <2> QED
    BY <1>3, <1>4, <1>5, <2>2, <2>3, <2>5, <2>6, <2>7 DEF Restoring, read, p, last
<1>9. CASE ProgramOk
  <2>1. CurrentSector = FieldSector /\ mark[FieldSector] /\ mark' = mark
    BY <1>1, <1>2, <1>9 DEF CurrentSector, JobPlaces, ProgramOk
  <2>2. flash' = [flash EXCEPT ![VarAddr[next]] = @ \cap p[next]]
    <3>1. Current.addr = VarAddr[next] /\ Current.val = p[next]
      BY <1>1, <1>2
    <3> QED
      BY <1>9, <3>1 DEF ProgramOk, Programmed
  <2>3. next \in next .. last
    BY <1>2, <1>7
  <2>4. p[next] \subseteq flash[VarAddr[next]] /\ VarAddr[next] \in Addr
        /\ flash \in [Addr -> Word]
    BY <1>1, <1>2, <1>4, <1>6, <2>1, <2>3, FieldPlace DEF read, FlashTypeOK
  <2> HIDE DEF p, last
  <2>5. flash'[VarAddr[next]] = p[next]
    BY <2>2, <2>4
  <2>6. ASSUME NEW i \in 0 .. last, i # next
        PROVE  flash'[VarAddr[i]] = flash[VarAddr[i]]
    <3>1. VarAddr[i] \in Addr /\ VarAddr[i] # VarAddr[next]
      BY <1>2, <1>6, <2>6, FieldPlace, FieldApart
    <3> QED
      BY <2>2, <2>4, <3>1
  <2>7. \A i \in 0 .. next - 1 : flash'[VarAddr[i]] = p[i]
    <3> SUFFICES ASSUME NEW i \in 0 .. next - 1 PROVE flash'[VarAddr[i]] = p[i]
      OBVIOUS
    <3>1. i \in 0 .. last /\ i # next
      BY <1>2, <1>7
    <3> QED
      BY <1>4, <2>6, <3>1 DEF read
  <2>8. \A i \in next .. last : p[i] \subseteq flash'[VarAddr[i]]
    <3> SUFFICES ASSUME NEW i \in next .. last PROVE p[i] \subseteq flash'[VarAddr[i]]
      OBVIOUS
    <3>1. i \in 0 .. last
      BY <1>2, <1>7
    <3> QED
      BY <1>4, <2>1, <2>5, <2>6, <3>1 DEF read
  <2> QED
    BY <1>3, <1>4, <1>5, <2>1, <2>5, <2>7, <2>8 DEF Restoring, read, p, last
<1> QED
  BY <1>8, <1>9 DEF FlashStep

(* What the board's own steps leave of host and history. *)
HostWaits ==
  /\ UNCHANGED <<hpc, ver, next, params, clean, setting>>
  /\ faulty' = (faulty /\ pc' # "init" /\ pc' # "boot")

(* The places in which no invariant of the field says anything. *)
LEMMA AwayFromParams ==
  ASSUME Restoring, hpc = "params", clean \/ setting # {}
  PROVE  pc \in {"loop", "write"}
BY DEF Restoring

LEMMA FlashRuns ==
  ASSUME UpdateInv, JobPlaces, LinkPlaces, ParamsInv, FieldInv, HostWaits,
         FlashStep, UNCHANGED <<powerupVarShadow, pc, resume, link>>
  PROVE  FieldInv'
<1>0. FlashTypeOK /\ Busy /\ UNCHANGED <<hpc, next, params, clean, setting>>
  BY DEF UpdateInv, UpdateTypeOK, BoardTypeOK, FlashStep, EraseOk, ProgramOk, Busy, HostWaits
<1>1. pc \in {"write", "pvf", "init1", "init2"} /\ faulty' = faulty
  BY <1>0 DEF JobPlaces, Idle, HostWaits, UpdateInv, UpdateTypeOK
<1>2. GoInv' /\ FaultyInv'
  BY <1>0, <1>1 DEF GoInv, FaultyInv, FieldInv, BoardInv
<1>3. PvfInv' /\ InitInv'
  BY <1>0, <1>1, PvfFlash, Init1Flash, Init2Flash
  DEF FieldInv, BoardInv, PvfInv, InitInv, Init1Inv, Init2Inv
<1>4. Restoring'
  <2>1. CASE hpc = "params" /\ pc = "write"
    BY <1>0, <2>1, ParamFlash DEF FieldInv
  <2>2. CASE hpc = "params" /\ pc # "write"
    <3>1. ~clean /\ setting = {}
      BY <1>1, <2>2 DEF FieldInv, Restoring
    <3> QED
      BY <1>0, <3>1 DEF Restoring
  <2>3. CASE hpc # "params"
    BY <1>0, <2>3 DEF Restoring
  <2> QED
    BY <2>1, <2>2, <2>3
<1>5. SettingInv'
  <2> SUFFICES ASSUME setting # {}, hpc # "params", pc = "write" PROVE SettingInv'
    BY <1>0, <1>1 DEF SettingInv
  <2>1. /\ Kept /\ verifyPowerupField /\ CurrentSector # FieldSector
        /\ mark[FieldSector] => read(VAR_BOOT_OPTI) = BOOT_PARAM_APP
    BY <1>0 DEF FieldInv, BoardInv, SettingInv
  <2>2. SameField
    <3> SUFFICES ASSUME NEW i \in 0 .. MAX_VAR_NUM_FUTURE
                 PROVE  flash'[VarAddr[i]] = flash[VarAddr[i]]
      BY DEF SameField
    <3> QED
      BY <1>0, <2>1, FieldPlace, Elsewhere DEF FlashStep
  <2>3. mark'[FieldSector] = mark[FieldSector]
    BY <1>0, <2>1, FieldSectorType DEF FlashStep, EraseOk, ProgramOk, FlashTypeOK
  <2>4. Busy' => CurrentSector' = CurrentSector
    BY <1>0, SameSector
  <2> QED
    BY <1>0, <2>1, <2>2, <2>3, <2>4, FieldSame DEF SettingInv, Kept
<1> QED
  BY <1>2, <1>3, <1>4, <1>5 DEF FieldInv, BoardInv

(* A step to where no write runs, which leaves the field as it is. *)
LEMMA FlatMoves ==
  ASSUME FlashTypeOK, SameField, pc' \notin {"pvf", "init1", "init2", "write"},
         setting' # {} /\ hpc' # "params" =>
           /\ actualVarNum \in FirstSetting + 1 .. MAX_VAR_NUM_FUTURE
           /\ read(FirstSetting) \in setting'
           /\ \/ verifyPowerupField
              \/ pc' \in {"boot", "hung"} /\ ~KnownBootOption /\ ~TooLong
           /\ mark'[FieldSector] /\ pc' = "loop" => read(VAR_BOOT_OPTI) = BOOT_PARAM_APP,
         clean' /\ hpc' = "go" => pc' \in {"hung", "crashed"} \/ Bootable,
         ~faulty' =>
           /\ pc' = "window" => KnownBootOption \/ TooLong
           /\ pc' = "app" => verifyPowerupField /\ actualVarNum = VarNum,
         hpc' = "params" => ~clean' /\ setting' = {}
  PROVE  FieldInv'
<1>1. Restoring' /\ PvfInv' /\ InitInv'
  BY DEF Restoring, PvfInv, InitInv, Init1Inv, Init2Inv
<1>2. GoInv'
  BY FieldSame DEF GoInv
<1>3. SettingInv'
  BY FieldSame DEF SettingInv, Kept
<1>4. FaultyInv'
  BY FieldSame DEF FaultyInv
<1> QED
  BY <1>1, <1>2, <1>3, <1>4 DEF FieldInv, BoardInv

LEMMA SameFlash == ASSUME UNCHANGED flash PROVE SameField
BY DEF SameField

LEMMA PvfReturns ==
  ASSUME UpdateInv, JobPlaces, FieldInv, HostWaits, PvfReturn
  PROVE  FieldInv'
<1>0. FlashTypeOK /\ pc = "pvf" /\ pc' = resume /\ ~Busy /\ UNCHANGED <<flash, resume>>
      /\ resume \in {"window", "loop", "hung", "app", "reset"}
  BY DEF UpdateInv, UpdateTypeOK, BoardTypeOK, PvfReturn, write_end, JobPlaces
<1>1. mark'[FieldSector] = FALSE
  BY <1>0, FieldSectorType DEF PvfReturn, write_end, rst_addr_erase_mark, FieldSector, FlashTypeOK
<1>2. faulty' = faulty /\ UNCHANGED <<hpc, clean, setting>>
  BY <1>0 DEF HostWaits, UpdateInv, UpdateTypeOK
<1>3. hpc = "params" => ~clean /\ setting = {}
  BY <1>0, AwayFromParams DEF FieldInv
<1>4. clean /\ hpc = "go" => resume \in {"app", "hung"}
  BY <1>0 DEF FieldInv, BoardInv, GoInv
<1>5. CASE Spoilt
  BY <1>0, <1>2, <1>5, SameFlash, FlatMoves DEF Spoilt
<1>6. CASE ~Spoilt
  <2>1. /\ resume = "window" => KnownBootOption \/ TooLong
        /\ resume = "app" /\ ~faulty => verifyPowerupField /\ actualVarNum = VarNum
        /\ setting # {} =>
             /\ Kept
             /\ verifyPowerupField \/ (resume = "hung" /\ ~KnownBootOption /\ ~TooLong)
        /\ clean /\ hpc = "go" /\ resume = "app" => Bootable
    BY <1>0, <1>6, PvfDone DEF FieldInv, BoardInv
  <2> QED
    BY <1>0, <1>1, <1>2, <1>3, <1>4, <2>1, SameFlash, FlatMoves DEF Kept
<1> QED
  BY <1>5, <1>6

LEMMA ResetRuns ==
  ASSUME UpdateInv, JobPlaces, FieldInv, HostWaits, SystemReset
  PROVE  FieldInv'
<1>0. FlashTypeOK /\ pc = "reset" /\ pc' = "boot" /\ ~Busy /\ UNCHANGED flash
  BY DEF UpdateInv, UpdateTypeOK, BoardTypeOK, SystemReset, Reset, FlashReset, JobPlaces, Idle
<1>1. hpc = "params" => ~clean /\ setting = {}
  BY <1>0, AwayFromParams DEF FieldInv
<1>2. /\ setting # {} /\ hpc # "params" => Kept /\ verifyPowerupField
      /\ clean /\ hpc = "go" => Bootable
  BY <1>0 DEF FieldInv, BoardInv, SettingInv, GoInv
<1> QED
  BY <1>0, <1>1, <1>2, SameFlash, FlatMoves DEF HostWaits, Kept

LEMMA PowerLossField ==
  ASSUME UpdateInv, JobPlaces, LinkPlaces, FieldInv, PowerLoss
  PROVE  FieldInv'
<1>0. FlashTypeOK /\ pc' = "boot" /\ clean' = FALSE /\ hpc' = hpc
      /\ setting' = (IF FieldOpen THEN {} ELSE setting)
  BY DEF UpdateInv, UpdateTypeOK, BoardTypeOK, PowerLoss, Reset, hostVars
<1>1. CASE setting' = {}
  <2>1. Restoring' /\ BoardInv'
    BY <1>0, <1>1 DEF Restoring, BoardInv, GoInv, SettingInv, FaultyInv, PvfInv, InitInv,
       Init1Inv, Init2Inv
  <2> QED
    BY <2>1 DEF FieldInv
<1>2. CASE setting' # {}
  <2>1. /\ setting' = setting /\ hpc # "params" /\ pc \notin {"init1", "init2"}
        /\ Busy => CurrentSector # FieldSector
    BY <1>0, <1>2 DEF FieldOpen, FieldAtWork
  <2>2. SameField
    <3>1. CASE Busy
      <4>1. LeavesPartial /\ CurrentSector # FieldSector
        BY <2>1, <3>1 DEF PowerLoss, Reset, FlashReset
      <4> SUFFICES ASSUME NEW i \in 0 .. MAX_VAR_NUM_FUTURE
                   PROVE  flash'[VarAddr[i]] = flash[VarAddr[i]]
        BY DEF SameField
      <4> QED
        BY <1>0, <4>1, FieldPlace, Elsewhere
    <3>2. CASE ~Busy
      BY <3>2, SameFlash DEF PowerLoss, Reset, FlashReset
    <3> QED
      BY <3>1, <3>2
  <2>3. Kept /\ (verifyPowerupField \/ (~KnownBootOption /\ ~TooLong))
    <3>1. CASE pc = "pvf"
      <4>1. ~Busy /\ ~Spoilt
        BY <1>2, <2>1, <3>1 DEF JobPlaces, Spoilt
      <4> QED
        BY <1>0, <1>2, <2>1, <3>1, <4>1, PvfDone DEF FieldInv, BoardInv
    <3>2. CASE pc # "pvf"
      BY <1>2, <2>1, <3>2 DEF FieldInv, BoardInv, SettingInv
    <3> QED
      BY <3>1, <3>2
  <2> QED
    BY <1>0, <2>1, <2>2, <2>3, FlatMoves DEF Kept
<1> QED
  BY <1>1, <1>2

LEMMA FlashErrorField ==
  ASSUME UpdateInv, JobPlaces, LinkPlaces, FieldInv, FlashError
  PROVE  FieldInv'
<1>0. /\ FlashTypeOK /\ clean' = FALSE /\ UNCHANGED <<hpc, pc, resume, powerupVarShadow>>
      /\ setting' = (IF FieldOpen THEN {} ELSE setting) /\ Busy /\ LeavesPartial
      /\ faulty' = (faulty \/ FieldAtWork) /\ mark' = Unmarked
      /\ job' = [pc |-> "err", todo |-> <<>>]
  BY PartialType DEF UpdateInv, UpdateTypeOK, BoardTypeOK, FlashError, FlashFails, Failed,
     hostVars
<1>1. pc \in {"write", "pvf", "init1", "init2"}
  BY <1>0 DEF JobPlaces, Idle
<1>2. GoInv' /\ FaultyInv'
  BY <1>0, <1>1 DEF GoInv, FaultyInv
<1>3. Restoring'
  BY <1>0 DEF Restoring, FieldOpen
<1>4. CASE CurrentSector = FieldSector
  <2>1. Spoilt'
    BY <1>0, <1>4 DEF Spoilt, FieldOpen, FieldAtWork
  <2> QED
    BY <1>2, <1>3, <2>1 DEF FieldInv, BoardInv, PvfInv, InitInv, Init1Inv, Init2Inv,
       SettingInv, Spoilt
<1>5. CASE CurrentSector # FieldSector
  <2>1. pc = "write"
    BY <1>0, <1>1, <1>5 DEF JobPlaces
  <2>2. SameField
    <3> SUFFICES ASSUME NEW i \in 0 .. MAX_VAR_NUM_FUTURE
                 PROVE  flash'[VarAddr[i]] = flash[VarAddr[i]]
      BY DEF SameField
    <3> QED
      BY <1>0, <1>5, FieldPlace, Elsewhere
  <2>3. SettingInv'
    <3> SUFFICES ASSUME setting' # {}, hpc # "params" PROVE SettingInv'
      BY <1>0 DEF SettingInv
    <3>1. setting' = setting /\ Kept /\ verifyPowerupField
      BY <1>0, <2>1 DEF FieldInv, BoardInv, SettingInv
    <3>2. mark'[FieldSector] = FALSE /\ ~Busy'
      BY <1>0, FieldSectorType DEF Unmarked, Busy
    <3> QED
      BY <1>0, <2>1, <2>2, <3>1, <3>2, FieldSame DEF SettingInv, Kept
  <2>4. PvfInv' /\ InitInv'
    BY <1>0, <2>1 DEF PvfInv, InitInv, Init1Inv, Init2Inv
  <2> QED
    BY <1>2, <1>3, <2>3, <2>4 DEF FieldInv, BoardInv
<1> QED
  BY <1>4, <1>5

(* pvf::write as it is called by boot check, jump, operator and host. *)
LEMMA PvfCall ==
  ASSUME FlashTypeOK, BoardCount, NEW idx \in {0, FirstSetting}, NEW val \in Word,
         NEW nxt \in {"window", "loop", "hung", "app", "reset"}, PvfWrite(idx, val, nxt),
         nxt \in {"window", "loop", "hung"} => idx = 0 /\ val = BOOT_PARAM_BL,
         nxt = "app" /\ ~faulty' => verifyPowerupField /\ actualVarNum = VarNum,
         setting' # {} =>
           /\ actualVarNum \in FirstSetting + 1 .. MAX_VAR_NUM_FUTURE
           /\ \/ TooLong
              \/ (IF idx = FirstSetting THEN val ELSE read(FirstSetting)) \in setting',
         TooLong /\ setting' # {} =>
           verifyPowerupField /\ read(FirstSetting) \in setting',
         clean' /\ hpc' = "go" => nxt = "hung" \/ (nxt = "app" /\ Bootable /\ idx # 0),
         mark[FieldSector] => nxt = "hung" /\ (setting' # {} => read(0) = BOOT_PARAM_APP),
         hpc' = "params" => ~clean' /\ setting' = {}
  PROVE  FieldInv'
<1>0. idx # 1 /\ idx \in {0, 2}
  BY Indices
<1>1. CASE write_skipped(idx, val)
  <2>1. UNCHANGED <<flash, mark>> /\ pc' = nxt
    BY <1>1 DEF PvfWrite, write_start, flashVars
  <2>2. getSuitVarNum \in 2 .. MAX_VAR_NUM_FUTURE
    BY CountSuits
  <2>3. idx = 0 \/ setting' # {} => read(idx) = val /\ verifyPowerupField
    <3>1. idx = 0 \/ setting' # {} => ~(idx >= getSuitVarNum)
      <4>1. idx = 0 => ~(idx >= getSuitVarNum)
        BY <2>2, Indices
      <4>2. ASSUME setting' # {} PROVE ~(idx >= getSuitVarNum)
        <5>1. actualVarNum \in 3 .. MAX_VAR_NUM_FUTURE
          BY <4>2, Indices
        <5>2. getSuitVarNum = actualVarNum
          BY <5>1, Indices DEF getSuitVarNum
        <5> QED
          BY <1>0, <5>1, <5>2, Indices
      <4> QED
        BY <4>1, <4>2
    <3> QED
      BY <1>1, <3>1 DEF write_skipped
  <2>4. setting' # {} => read(FirstSetting) \in setting' /\ verifyPowerupField
    BY <2>3
  <2>5. nxt = "window" => KnownBootOption
    BY <2>3, Indices DEF KnownBootOption
  <2> QED
    BY <2>1, <2>4, <2>5, SameFlash, FlatMoves
<1>2. CASE ~write_skipped(idx, val)
  <2>1. write_start(idx, val) /\ pc' = "pvf" /\ resume' = nxt
    BY <1>2 DEF PvfWrite
  <2>2. PvfInv'
    BY <1>0, <2>1, PvfEnters
  <2>3. Restoring' /\ GoInv' /\ SettingInv' /\ FaultyInv' /\ InitInv'
    BY <2>1 DEF Restoring, GoInv, SettingInv, FaultyInv, InitInv, Init1Inv, Init2Inv
  <2> QED
    BY <2>2, <2>3 DEF FieldInv, BoardInv
<1> QED
  BY <1>1, <1>2

LEMMA BootField ==
  ASSUME UpdateInv, JobPlaces, BoardCount, FieldInv, HostWaits, BootCheck
  PROVE  FieldInv'
<1>0. FlashTypeOK /\ pc = "boot" /\ ~mark[FieldSector] /\ UNCHANGED <<hpc, clean, setting>>
  BY DEF UpdateInv, UpdateTypeOK, BoardTypeOK, BootCheck, JobPlaces, HostWaits
<1>1. hpc = "params" => ~clean /\ setting = {}
  BY <1>0, AwayFromParams DEF FieldInv
<1>2. /\ setting # {} => Kept /\ (verifyPowerupField \/ (~KnownBootOption /\ ~TooLong))
      /\ clean /\ hpc = "go" => Bootable
  BY <1>0, <1>1 DEF FieldInv, BoardInv, SettingInv, GoInv
<1>3. CASE KnownBootOption
  <2>1. UNCHANGED <<flash, mark>> /\ pc' = "window"
    BY <1>3 DEF BootCheck, flashVars
  <2> QED
    BY <1>0, <1>1, <1>2, <1>3, <2>1, SameFlash, FlatMoves DEF Kept
<1>4. CASE ~KnownBootOption
  <2>1. PvfWrite(0, BOOT_PARAM_BL, "window")
    BY <1>4, Indices DEF BootCheck
  <2>2. ~Bootable
    BY <1>4 DEF Bootable, KnownBootOption
  <2> QED
    BY <1>0, <1>1, <1>2, <2>1, <2>2, BootWords, Indices, PvfCall DEF Kept
<1> QED
  BY <1>3, <1>4

(* The jump, from the window or on the host's word. *)
LEMMA LoadField ==
  ASSUME UpdateInv, JobPlaces, BoardCount, FieldInv, HostWaits, iap_load_app,
         pc \in {"window", "loop"}, hpc = "params" => ~clean /\ setting = {}
  PROVE  FieldInv'
<1>0. FlashTypeOK /\ UNCHANGED <<hpc, clean, setting>>
  BY DEF UpdateInv, UpdateTypeOK, BoardTypeOK, HostWaits
<1>1. /\ setting # {} => /\ Kept /\ verifyPowerupField
                         /\ mark[FieldSector] => read(0) = BOOT_PARAM_APP
      /\ clean /\ hpc = "go" => Bootable
  BY Indices DEF FieldInv, BoardInv, SettingInv, GoInv, JobPlaces
<1>2. CASE StackTopLegal
  <2>1. UNCHANGED flash /\ pc' \in {"init", "crashed"}
    BY <1>2 DEF iap_load_app
  <2> QED
    BY <1>0, <1>1, <2>1, SameFlash, FlatMoves DEF Kept
<1>3. CASE ~StackTopLegal
  <2>1. PvfWrite(0, BOOT_PARAM_BL, "hung")
    BY <1>3, Indices DEF iap_load_app
  <2> QED
    BY <1>0, <1>1, <2>1, BootWords, Indices, PvfCall DEF Kept
<1> QED
  BY <1>2, <1>3

LEMMA WindowField ==
  ASSUME UpdateInv, JobPlaces, BoardCount, FieldInv, HostWaits, WindowCloses
  PROVE  FieldInv'
<1>0. FlashTypeOK /\ pc = "window" /\ ~mark[FieldSector] /\ UNCHANGED <<hpc, clean, setting>>
  BY DEF UpdateInv, UpdateTypeOK, BoardTypeOK, WindowCloses, JobPlaces, HostWaits
<1>1. hpc = "params" => ~clean /\ setting = {}
  BY <1>0, AwayFromParams DEF FieldInv
<1>2. CASE read(VAR_BOOT_OPTI) = BOOT_PARAM_APP
  BY <1>0, <1>1, <1>2, LoadField DEF WindowCloses
<1>3. CASE read(VAR_BOOT_OPTI) # BOOT_PARAM_APP
  <2>1. UNCHANGED <<flash, mark>> /\ pc' = "loop"
    BY <1>3 DEF WindowCloses, flashVars
  <2>2. /\ setting # {} => Kept /\ verifyPowerupField
        /\ clean /\ hpc = "go" => Bootable
    BY <1>0, <1>1 DEF FieldInv, BoardInv, SettingInv, GoInv
  <2> QED
    BY <1>0, <1>1, <2>1, <2>2, SameFlash, FlatMoves DEF Kept
<1> QED
  BY <1>2, <1>3

LEMMA GoField ==
  ASSUME UpdateInv, JobPlaces, LinkPlaces, BoardCount, FieldInv, HostWaits, bl_go
  PROVE  FieldInv'
<1>1. pc = "loop" /\ hpc = "go" /\ iap_load_app
  BY DEF bl_go, LinkPlaces
<1> QED
  BY <1>1, LoadField

(* The host goes on restoring, or no longer does. *)
LEMMA RestoringSame ==
  ASSUME Restoring, UNCHANGED <<flash, mark, params>>,
         hpc' = "params" /\ (clean' \/ setting' # {}) =>
           /\ hpc = "params" /\ next' = next /\ (clean' => clean)
           /\ setting' # {} => setting' = setting
           /\ pc' \in {"loop", "write"}
           /\ link'.st = "ack" \/ (pc' = "write" /\ job'.pc = "ok") =>
                link.st = "ack" \/ (pc = "write" /\ job.pc = "ok")
  PROVE  Restoring'
<1> SUFFICES ASSUME hpc' = "params", clean' \/ setting' # {} PROVE Restoring'
  BY DEF Restoring
<1>1. /\ hpc = "params" /\ next' = next /\ (clean \/ setting # {})
      /\ setting' # {} => setting' = setting
      /\ pc' \in {"loop", "write"}
      /\ link'.st = "ack" \/ (pc' = "write" /\ job'.pc = "ok") =>
           link.st = "ack" \/ (pc = "write" /\ job.pc = "ok")
  OBVIOUS
<1>2. ParamsField' = ParamsField /\ read(next)' = read(next)
      /\ \A i : read(i)' = read(i)
  BY <1>1 DEF ParamsField, read
<1>3. mark'[FieldSector] = mark[FieldSector] /\ Len(params') = Len(params)
      /\ FieldSector' = FieldSector
  BY DEF FieldSector
<1> QED
  BY <1>1, <1>2, <1>3 DEF Restoring

LEMMA WriteField ==
  ASSUME UpdateInv, JobPlaces, LinkPlaces, FieldInv, HostWaits, bl_write_memory
  PROVE  FieldInv'
<1>0. /\ FlashTypeOK /\ pc = "loop" /\ pc' = "write"
      /\ UNCHANGED <<flash, mark, hpc, next, params, clean, setting>>
      /\ hpc \in {"blocks", "params"} /\ Sent \in Write /\ STMFLASH_write_bytes(<<Sent>>)
      /\ job'.pc # "ok" /\ link'.st = "busy"
  BY WriteMemory, WordJob DEF UpdateInv, UpdateTypeOK, BoardTypeOK, HostWaits
<1>1. SameField
  BY <1>0, SameFlash
<1>2. Restoring'
  BY <1>0, RestoringSame DEF FieldInv
<1>3. SettingInv'
  <2> SUFFICES ASSUME hpc = "blocks", setting # {} PROVE SettingInv'
    BY <1>0 DEF SettingInv
  <2>1. /\ Kept /\ verifyPowerupField
        /\ mark[FieldSector] => read(VAR_BOOT_OPTI) = BOOT_PARAM_APP
    BY <1>0 DEF FieldInv, BoardInv, SettingInv
  <2>2. CurrentSector' # FieldSector
    BY <1>0, SentType, BlockPlace, WordJob
  <2> QED
    BY <1>0, <1>1, <2>1, <2>2, FieldSame DEF SettingInv, Kept
<1>4. GoInv' /\ FaultyInv' /\ PvfInv' /\ InitInv'
  BY <1>0 DEF GoInv, FaultyInv, PvfInv, InitInv, Init1Inv, Init2Inv
<1> QED
  BY <1>2, <1>3, <1>4 DEF FieldInv, BoardInv

LEMMA WriteEndField ==
  ASSUME UpdateInv, JobPlaces, LinkPlaces, FieldInv, HostWaits, bl_write_memory_end
  PROVE  FieldInv'
<1>0. /\ FlashTypeOK /\ pc = "write" /\ pc' = "loop"
      /\ UNCHANGED <<flash, mark, job, hpc, next, params, clean, setting>>
      /\ hpc \in {"params", "go"} => link.st = "busy" /\ hpc # "go"
      /\ link'.st = "ack" => job.pc = "ok"
  BY DEF UpdateInv, UpdateTypeOK, BoardTypeOK, HostWaits, bl_write_memory_end, flashVars,
     LinkPlaces, NoMsg
<1>1. SameField
  BY <1>0, SameFlash
<1>2. Restoring'
  BY <1>0, RestoringSame DEF FieldInv
<1>3. SettingInv'
  <2> SUFFICES ASSUME hpc # "params", setting # {} PROVE SettingInv'
    BY <1>0 DEF SettingInv
  <2>1. /\ Kept /\ verifyPowerupField
        /\ mark[FieldSector] => read(VAR_BOOT_OPTI) = BOOT_PARAM_APP
    BY <1>0 DEF FieldInv, BoardInv, SettingInv
  <2> QED
    BY <1>0, <1>1, <2>1, FieldSame DEF SettingInv, Kept
<1>4. GoInv' /\ FaultyInv' /\ PvfInv' /\ InitInv'
  BY <1>0 DEF GoInv, FaultyInv, PvfInv, InitInv, Init1Inv, Init2Inv
<1> QED
  BY <1>2, <1>3, <1>4 DEF FieldInv, BoardInv

(* initInApp, at the start of the application. *)
LEMMA InitField ==
  ASSUME UpdateInv, JobPlaces, BoardCount, FieldInv, HostWaits, InitInApp
  PROVE  FieldInv'
<1>0. FlashTypeOK /\ pc = "init" /\ ~mark[FieldSector] /\ UNCHANGED <<hpc, clean, setting>>
  BY DEF UpdateInv, UpdateTypeOK, BoardTypeOK, InitInApp, JobPlaces, HostWaits
<1>1. hpc = "params" => ~clean /\ setting = {}
  BY <1>0, AwayFromParams DEF FieldInv
<1>2. /\ setting # {} => Kept /\ verifyPowerupField
      /\ clean /\ hpc = "go" => Bootable
  BY <1>0, <1>1 DEF FieldInv, BoardInv, SettingInv, GoInv
<1>3. CASE initInApp_needed
  <2>1. /\ powerupVarShadow' = Initialised /\ pc' = "init1"
        /\ STMFLASH_write_bytes(FieldWrites(Initialised, 0, VarNum - 1))
    BY <1>3 DEF InitInApp, initInApp_start
  <2>2. /\ VarNum - 1 \in 0 .. MAX_VAR_NUM_FUTURE /\ VarNum - 1 < MaxLen
        /\ {0, 1, 2} \subseteq 0 .. VarNum - 1
    BY Indices
  <2>3. Writing(job', flash', Initialised, VarNum - 1) /\ job'.pc = "erase"
    BY <1>0, <2>1, <2>2, WritingStart
  <2>4. \A i \in 0 .. VarNum - 1 : Initialised[i] \in Word
    <3> SUFFICES ASSUME NEW i \in 0 .. VarNum - 1 PROVE Initialised[i] \in Word
      OBVIOUS
    <3>1. i \in 0 .. MAX_VAR_NUM_FUTURE
      BY Indices
    <3> QED
      BY <1>0, <3>1, ReadType, WordAssumption DEF Initialised
  <2>5. /\ Initialised[1] = NumWord
        /\ \A i \in 0 .. VarNum - 1 :
             i # 1 /\ i < getSuitVarNum => Initialised[i] = read(i)
    BY <2>2, Indices DEF Initialised
  <2>6. setting # {} => Initialised[FirstSetting] \in setting
    <3> SUFFICES ASSUME setting # {} PROVE Initialised[FirstSetting] \in setting
      OBVIOUS
    <3>1. actualVarNum \in 3 .. MAX_VAR_NUM_FUTURE /\ read(2) \in setting
      BY <1>2, Indices DEF Kept
    <3>2. 2 < getSuitVarNum
      BY <3>1, Indices DEF getSuitVarNum
    <3> QED
      BY <2>2, <2>5, <3>1, <3>2, Indices
  <2>7. clean /\ hpc = "go" => Initialised[0] = BOOT_PARAM_APP
    <3>1. 0 < getSuitVarNum
      BY <1>0, CountSuits, Indices
    <3> QED
      BY <1>2, <2>2, <2>5, <3>1, Indices DEF Bootable
  <2>8. InitPromise'
    BY <1>0, <2>1, <2>4, <2>5, <2>6, <2>7, Indices DEF InitPromise
  <2>9. Init1Inv'
    BY <2>1, <2>3, <2>8 DEF Init1Inv
  <2> QED
    BY <1>0, <1>1, <2>1, <2>9 DEF FieldInv, BoardInv, Restoring, GoInv, SettingInv,
       FaultyInv, PvfInv, InitInv, Init2Inv
<1>4. CASE ~initInApp_needed
  <2>1. UNCHANGED flash /\ pc' = "app"
    BY <1>4 DEF InitInApp, flashVars
  <2>2. verifyPowerupField /\ actualVarNum = VarNum
    <3>1. verifyPowerupField /\ getSuitVarNum = VarNum
      BY <1>4 DEF initInApp_needed
    <3>2. ~(actualVarNum > MAX_VAR_NUM_FUTURE)
      BY <1>0, <3>1, SuitType, Indices DEF verifyPowerupField
    <3> QED
      BY <3>1, <3>2 DEF getSuitVarNum
  <2> QED
    BY <1>0, <1>1, <1>2, <2>1, <2>2, SameFlash, FlatMoves DEF Kept
<1> QED
  BY <1>3, <1>4

LEMMA InitCheckField ==
  ASSUME UpdateInv, JobPlaces, FieldInv, HostWaits, InitInAppCheck
  PROVE  FieldInv'
<1> DEFINE w == [addr |-> VarAddr[VarNum], val |-> CheckVal]
<1>0. /\ FlashTypeOK /\ pc = "init1" /\ pc' = "init2" /\ ~Busy
      /\ UNCHANGED <<hpc, clean, setting, powerupVarShadow>> /\ faulty' = faulty
      /\ STMFLASH_write_bytes(<<w>>)
  BY DEF UpdateInv, UpdateTypeOK, BoardTypeOK, InitInAppCheck, initInApp_check, HostWaits,
     STMFLASH_write_bytes, CheckVal
<1>1. hpc = "params" => ~clean /\ setting = {}
  BY <1>0, AwayFromParams DEF FieldInv
<1>2. Init2Inv'
  <2> SUFFICES ASSUME ~Spoilt PROVE Init2Inv'
    BY <1>0 DEF Init2Inv, Spoilt
  <2>1. /\ InitPromise /\ read(VarNum) = Erased /\ mark[FieldSector]
        /\ \A i \in 0 .. VarNum - 1 : read(i) = powerupVarShadow[i]
    BY <1>0, Init1Done DEF FieldInv, BoardInv, InitInv
  <2>2. /\ UNCHANGED flash
        /\ job' = [pc |-> "program", todo |-> <<w>>]
    <3>1. SectorOf[w.addr] = FieldSector /\ Head(<<w>>) = w /\ ~(Len(<<w>>) > MaxLen)
      BY FieldPlace, Indices, MaxLenAssumption
    <3> QED
      BY <1>0, <2>1, <3>1 DEF STMFLASH_write_bytes, erase_sector_once
  <2>3. CheckVal' = CheckVal /\ InitPromise'
    BY <1>0, <2>1 DEF CheckVal, check_func, InitPromise
  <2> QED
    BY <2>1, <2>2, <2>3, <1>0 DEF Init2Inv, read, Busy
<1> QED
  BY <1>0, <1>1, <1>2 DEF FieldInv, BoardInv, Restoring, GoInv, SettingInv,
     FaultyInv, PvfInv, InitInv, Init1Inv

LEMMA InitReturnField ==
  ASSUME UpdateInv, JobPlaces, FieldInv, HostWaits, InitInAppReturn
  PROVE  FieldInv'
<1>0. /\ FlashTypeOK /\ pc = "init2" /\ pc' = "app" /\ ~Busy
      /\ UNCHANGED <<flash, hpc, clean, setting>> /\ faulty' = faulty
  BY DEF UpdateInv, UpdateTypeOK, BoardTypeOK, InitInAppReturn, write_end, HostWaits
<1>1. hpc = "params" => ~clean /\ setting = {}
  BY <1>0, AwayFromParams DEF FieldInv
<1>2. CASE Spoilt
  BY <1>0, <1>2, SameFlash, FlatMoves DEF Spoilt
<1>3. CASE ~Spoilt
  <2>1. /\ verifyPowerupField /\ actualVarNum = VarNum
        /\ setting # {} => Kept
        /\ clean /\ hpc = "go" => Bootable
    BY <1>0, <1>3, Init2Done DEF FieldInv, BoardInv, InitInv
  <2> QED
    BY <1>0, <1>1, <2>1, SameFlash, FlatMoves DEF Kept
<1> QED
  BY <1>2, <1>3

-----------------------------------------------------------------------------
(* The host's, the operator's and the other steps.                         *)

(* The call is taken. *)
LEMMA CallField ==
  ASSUME UpdateInv, JobPlaces, LinkPlaces, BoardCount, FieldInv, HostWaits, iapHandlerFunc
  PROVE  FieldInv'
<1>1. /\ FlashTypeOK /\ pc = "app" /\ ~mark[FieldSector] /\ hpc = "called" /\ hpc' = hpc
      /\ UNCHANGED <<clean, setting>> /\ PvfWrite(0, BOOT_PARAM_LOADING, "reset")
  BY Indices DEF UpdateInv, UpdateTypeOK, BoardTypeOK, JobPlaces, LinkPlaces, CallPlaces,
     HostWaits, iapHandlerFunc
<1>2. setting # {} => Kept /\ verifyPowerupField
  BY <1>1 DEF FieldInv, BoardInv, SettingInv
<1> QED
  BY <1>1, <1>2, BootWords, Indices, PvfCall DEF Kept

LEMMA OperatorField ==
  ASSUME UpdateInv, JobPlaces, BoardCount, FieldInv, Operator
  PROVE  FieldInv'
<1>0. FlashTypeOK /\ hpc' = hpc /\ faulty' = faulty
  BY DEF UpdateInv, UpdateTypeOK, BoardTypeOK, Operator, hostVars
<1>1. CASE WindowEmergency /\ clean' = FALSE /\ UNCHANGED setting
  <2>1. pc = "window" /\ ~mark[FieldSector] /\ PvfWrite(0, BOOT_PARAM_BL, "loop")
    BY <1>1, Indices DEF WindowEmergency, JobPlaces
  <2>2. hpc = "params" => setting = {}
    BY <2>1, AwayFromParams DEF FieldInv
  <2>3. setting # {} => Kept /\ verifyPowerupField
    BY <2>1, <2>2 DEF FieldInv, BoardInv, SettingInv
  <2> QED
    BY <1>0, <1>1, <2>1, <2>2, <2>3, BootWords, Indices, PvfCall DEF Kept
<1>2. ASSUME NEW w \in Setting, UidUnlockHandlerFunc(FirstSetting, w), UNCHANGED clean,
             setting' = IF FirstSetting >= getSuitVarNum \/ TooLong THEN setting
                        ELSE IF verifyPowerupField /\ hpc # "params" THEN {w} ELSE {}
      PROVE  FieldInv'
  <2>1. pc = "app" /\ ~mark[FieldSector] /\ PvfWrite(FirstSetting, w, "app")
    BY <1>2 DEF UidUnlockHandlerFunc, JobPlaces
  <2>2. hpc = "params" => ~clean /\ setting = {}
    BY <2>1, AwayFromParams DEF FieldInv
  <2>3. /\ setting # {} => Kept /\ verifyPowerupField
        /\ ~faulty => verifyPowerupField /\ actualVarNum = VarNum
        /\ clean /\ hpc = "go" => Bootable
    BY <2>1, <2>2 DEF FieldInv, BoardInv, SettingInv, FaultyInv, GoInv
  <2>4. ASSUME setting' # {}, TooLong
        PROVE  /\ actualVarNum \in FirstSetting + 1 .. MAX_VAR_NUM_FUTURE
               /\ verifyPowerupField /\ read(FirstSetting) \in setting'
    BY <1>2, <2>3, <2>4 DEF Kept
  <2>5. ASSUME setting' # {}, ~TooLong
        PROVE  /\ actualVarNum \in FirstSetting + 1 .. MAX_VAR_NUM_FUTURE
               /\ w \in setting'
    <3>1. ~(FirstSetting >= getSuitVarNum)
      <4>1. ASSUME setting # {} PROVE ~(FirstSetting >= getSuitVarNum)
        <5>1. actualVarNum \in 3 .. MAX_VAR_NUM_FUTURE
          BY <2>3, <4>1, Indices DEF Kept
        <5>2. getSuitVarNum = actualVarNum
          BY <5>1, Indices DEF getSuitVarNum
        <5> QED
          BY <5>1, <5>2, Indices
      <4> QED
        BY <1>2, <2>5, <4>1
    <3>2. setting' = {w} /\ verifyPowerupField
      BY <1>2, <2>5, <3>1
    <3>3. actualVarNum \in Nat /\ actualVarNum <= MAX_VAR_NUM_FUTURE
      BY <1>0, <3>2, SuitType DEF verifyPowerupField
    <3>4. getSuitVarNum = actualVarNum
      BY <3>3, Indices DEF getSuitVarNum
    <3> QED
      BY <3>1, <3>2, <3>3, <3>4, Indices
  <2>6. hpc = "params" => setting' = {}
    BY <1>2, <2>2
  <2>7. w \in Word /\ FirstSetting # 0
    BY SettingAssumption, Indices
  <2> QED
    BY <1>0, <1>2, <2>1, <2>2, <2>3, <2>4, <2>5, <2>6, <2>7, PvfCall
<1>3. CASE chipResetHandlerFunc /\ UNCHANGED <<clean, setting>>
  <2>1. pc = "app" /\ pc' = "reset" /\ UNCHANGED flash
    BY <1>3 DEF chipResetHandlerFunc, flashVars
  <2>2. hpc = "params" => ~clean /\ setting = {}
    BY <2>1, AwayFromParams DEF FieldInv
  <2>3. /\ setting # {} => Kept /\ verifyPowerupField
        /\ clean /\ hpc = "go" => Bootable
    BY <2>1, <2>2 DEF FieldInv, BoardInv, SettingInv, GoInv
  <2> QED
    BY <1>0, <1>3, <2>1, <2>2, <2>3, SameFlash, FlatMoves DEF Kept
<1> QED
  BY <1>1, <1>2, <1>3 DEF Operator

(* The last parameter is acknowledged. *)
LEMMA Restored ==
  ASSUME UpdateInv, LinkPlaces, ParamsInv, Restoring, hpc = "params",
         clean \/ setting # {}, link.st = "ack", ~(next + 1 < Len(params))
  PROVE  /\ pc = "loop" /\ Bootable
         /\ setting # {} => Kept
<1> DEFINE last == Len(params) - 1
<1>1. /\ pc \in {"loop", "write"}
      /\ setting # {} => /\ FirstSetting \in 0 .. Len(params) - 2
                         /\ ParamsField[FirstSetting] \in setting
      /\ \A i \in 0 .. next - 1 : read(i) = ParamsField[i]
      /\ read(next) = ParamsField[next]
  BY DEF Restoring
<1>2. pc = "loop"
  BY <1>1 DEF LinkPlaces
<1>3. /\ last \in 2 .. MAX_VAR_NUM_FUTURE /\ Fits(ParamsField, last)
      /\ ParamsField[0] = BOOT_PARAM_APP /\ Len(params) - 2 = last - 1
  <2>1. Len(params) \in 3 .. MAX_VAR_NUM_FUTURE + 1 /\ MAX_VAR_NUM_FUTURE \in Nat
    BY Indices DEF ParamsInv
  <2> QED
    BY <2>1, Indices DEF ParamsInv
<1>4. next = last /\ next \in Nat
  <2>1. next \in Nat /\ Len(params) \in Nat /\ next < Len(params)
    BY DEF UpdateInv, NextFits, UpdateTypeOK
  <2> QED
    BY <2>1
<1> HIDE DEF last
<1>5. \A i \in 0 .. last : read(i) = ParamsField[i]
  <2> SUFFICES ASSUME NEW i \in 0 .. last PROVE read(i) = ParamsField[i]
    OBVIOUS
  <2>1. i = next \/ i \in 0 .. next - 1
    BY <1>4
  <2> QED
    BY <1>1, <2>1
<1>6. verifyPowerupField /\ actualVarNum = last
  BY <1>3, <1>5, FitsVerify
<1>7. MAX_VAR_NUM_FUTURE \in Nat /\ 0 \in 0 .. last
  BY <1>3, Indices
<1>8. Bootable
  BY <1>3, <1>5, <1>6, <1>7, Indices DEF Bootable
<1>9. ASSUME setting # {} PROVE Kept
  <2>1. FirstSetting \in 0 .. last - 1 /\ FirstSetting \in 0 .. last /\ FirstSetting \in Nat
        /\ ParamsField[FirstSetting] \in setting
    BY <1>1, <1>3, <1>9, Indices
  <2> QED
    BY <1>3, <1>5, <1>6, <1>7, <2>1 DEF Kept
<1> QED
  BY <1>2, <1>8, <1>9

LEMMA AckField ==
  ASSUME UpdateInv, LinkPlaces, ParamsInv, FieldInv, HostGetsAck
  PROVE  FieldInv'
<1>0. /\ link.st = "ack" /\ link'.st = "none"
      /\ UNCHANGED <<flash, mark, job, powerupVarShadow, pc, resume, params, clean,
                     setting, faulty>>
      /\ hpc' \in {hpc, "read", "go", "done"}
      /\ hpc' = "params" => hpc = "params"
      /\ hpc' = "go" => hpc = "params"
  <2>1. link.st = "ack" /\ hpc \in {"blocks", "params", "go"}
    BY DEF HostGetsAck, LinkPlaces
  <2>2. hpc' = hpc \/ hpc' = After
    BY DEF HostGetsAck
  <2>3. /\ hpc' \in {hpc, "read", "go", "done"}
        /\ hpc' = "params" => hpc = "params"
        /\ hpc' = "go" => hpc \in {"params", "go"}
    BY <2>1, <2>2 DEF After
  <2>4. hpc = "go" => hpc' = "done"
    <3>1. next \in Nat
      BY DEF UpdateInv, UpdateTypeOK
    <3> QED
      BY <3>1 DEF HostGetsAck, Length, After
  <2> QED
    BY <2>1, <2>3, <2>4 DEF HostGetsAck, flashVars, NoMsg
<1>1. CASE hpc # "params" \/ (~clean /\ setting = {})
  <2>1. BoardInv'
    BY <1>0, <1>1, HostQuiet DEF FieldInv
  <2>2. Restoring'
    BY <1>0, <1>1 DEF Restoring
  <2> QED
    BY <2>1, <2>2 DEF FieldInv
<1>2. CASE hpc = "params" /\ (clean \/ setting # {}) /\ next + 1 < Len(params)
  <2>1. hpc' = "params" /\ next' = next + 1 /\ next \in Nat /\ Len(params) \in Nat
    BY <1>2 DEF HostGetsAck, Length, UpdateInv, UpdateTypeOK
  <2>2. BoardInv'
    BY <1>0, <1>2, <2>1, HostQuiet DEF FieldInv
  <2>3. /\ pc \in {"loop", "write"}
        /\ setting # {} => /\ FirstSetting \in 0 .. Len(params) - 2
                           /\ ParamsField[FirstSetting] \in setting
        /\ \A i \in 0 .. next - 1 : read(i) = ParamsField[i]
        /\ mark[FieldSector] /\ read(next) = ParamsField[next]
        /\ \A i \in next .. Len(params) - 1 : ParamsField[i] \subseteq read(i)
    BY <1>0, <1>2 DEF FieldInv, Restoring
  <2>4. pc = "loop"
    BY <1>0, <2>3 DEF LinkPlaces
  <2>5. ParamsField' = ParamsField /\ \A i : read(i)' = read(i)
    BY <1>0 DEF ParamsField, read
  <2>6. ASSUME NEW i \in 0 .. next' - 1 PROVE read(i) = ParamsField[i]
    <3>1. i = next \/ i \in 0 .. next - 1
      BY <2>1
    <3> QED
      BY <2>3, <3>1
  <2>7. ASSUME NEW i \in next' .. Len(params) - 1 PROVE ParamsField[i] \subseteq read(i)
    <3>1. i \in next .. Len(params) - 1
      BY <2>1
    <3> QED
      BY <2>3, <3>1
  <2>8. Restoring'
    BY <1>0, <2>3, <2>4, <2>5, <2>6, <2>7 DEF Restoring
  <2> QED
    BY <2>2, <2>8 DEF FieldInv
<1>3. CASE hpc = "params" /\ (clean \/ setting # {}) /\ ~(next + 1 < Len(params))
  <2>1. hpc' = "go"
    BY <1>3 DEF HostGetsAck, Length, After
  <2>2. pc = "loop" /\ Bootable /\ (setting # {} => Kept)
    BY <1>0, <1>3, Restored DEF FieldInv
  <2>3. FlashTypeOK
    BY DEF UpdateInv, UpdateTypeOK, BoardTypeOK
  <2> QED
    BY <1>0, <2>1, <2>2, <2>3, SameFlash, FlatMoves DEF Kept, Bootable
<1> QED
  BY <1>1, <1>2, <1>3

(* restorebootparam reads the field and makes the words to send of it. *)
LEMMA ReadField ==
  ASSUME UpdateInv, LinkPlaces, BoardCount, SessionPlaces, FieldInv, HostReadsParams
  PROVE  FieldInv'
<1> DEFINE n == RestoreCount
           f == [i \in 0 .. n - 1 |-> RestoredVar(i)]
<1>0. /\ FlashTypeOK /\ hpc = "read" /\ hpc' = "params" /\ pc = "loop" /\ next' = 0
      /\ UNCHANGED <<flash, mark, job, powerupVarShadow, pc, resume, link, faulty,
                     clean, setting>>
  BY DEF UpdateInv, UpdateTypeOK, BoardTypeOK, HostReadsParams, boardVars, flashVars, history
<1>1. BoardInv'
  BY <1>0, HostQuiet DEF FieldInv
<1>2. Restoring'
  <2>1. link.st # "ack" /\ (clean => ~mark[FieldSector])
    BY <1>0 DEF LinkPlaces, SessionPlaces
  <2>2. /\ setting # {} => /\ Kept /\ verifyPowerupField
                           /\ mark[FieldSector] => read(0) = BOOT_PARAM_APP
    BY <1>0, Indices DEF FieldInv, BoardInv, SettingInv
  <2>3. /\ n \in 2 .. MAX_VAR_NUM_FUTURE /\ Len(params') = n + 1
        /\ \A i \in 0 .. n - 1 : params'[i + 1] = [addr |-> VarAddr[i], val |-> RestoredVar(i)]
        /\ params'[n + 1] = [addr |-> VarAddr[n], val |-> check_func(f, n)]
    BY <1>0, RestoredFacts
  <2>4. n \in Nat /\ MAX_VAR_NUM_FUTURE \in Nat
    BY <2>3, Indices
  <2> DEFINE g == [i \in 0 .. Len(params') - 1 |-> params'[i + 1].val]
  <2>5. g = [i \in 0 .. n |-> params'[i + 1].val]
    BY <2>3, <2>4
  <2>6. ParamsField' = g
    BY DEF ParamsField
  <2>7. \A i \in 0 .. n - 1 : f[i] = RestoredVar(i)
    OBVIOUS
  <2> HIDE DEF f, g
  <2>8. ASSUME NEW i \in 0 .. n - 1 PROVE g[i] = RestoredVar(i)
    <3>1. params'[i + 1] = [addr |-> VarAddr[i], val |-> RestoredVar(i)]
      BY <2>3
    <3>2. params'[i + 1].val = RestoredVar(i)
      BY <3>1
    <3>3. i \in 0 .. n
      BY <2>4
    <3> QED
      BY <2>5, <3>2, <3>3
  <2>9. g[n] = check_func(f, n)
    <3>1. params'[n + 1].val = check_func(f, n) /\ n \in 0 .. n
      BY <2>3, <2>4
    <3> QED
      BY <2>5, <3>1
  <2>10. ASSUME setting # {}
         PROVE  /\ n = actualVarNum /\ n > 2 /\ read(2) \in setting
                /\ \A i \in 0 .. n - 1 : i # 0 => g[i] = read(i)
                /\ g[0] = BOOT_PARAM_APP
                /\ check_func(Field, n) = read(n)
    <3>1. /\ actualVarNum \in 3 .. MAX_VAR_NUM_FUTURE /\ read(2) \in setting
          /\ check_func(Field, actualVarNum) = read(actualVarNum)
      BY <2>2, <2>10, Indices DEF Kept, verifyPowerupField
    <3>2. n = actualVarNum /\ n > 2
      BY <2>4, <3>1 DEF RestoreCount
    <3>3. ASSUME NEW i \in 0 .. n - 1, i # 0 PROVE g[i] = read(i)
      BY <2>8, <3>2, <3>3, Indices DEF RestoredVar
    <3>4. g[0] = BOOT_PARAM_APP
      <4>1. 0 \in 0 .. n - 1
        BY <2>4, <3>2
      <4> QED
        BY <2>8, <4>1, Indices DEF RestoredVar
    <3> QED
      BY <3>1, <3>2, <3>3, <3>4
  <2>11. ASSUME setting # {}
         PROVE  FirstSetting \in 0 .. Len(params') - 2 /\ g[FirstSetting] \in setting
    <3>1. 2 \in 0 .. n - 1 /\ Len(params') - 2 = n - 1
      BY <2>3, <2>4, <2>10, <2>11
    <3> QED
      BY <2>10, <2>11, <3>1, Indices
  <2>12. ASSUME setting # {}, mark[FieldSector], NEW i \in 0 .. n
         PROVE  g[i] = read(i)
    <3>1. \A j \in 0 .. n - 1 : g[j] = read(j)
      BY <2>2, <2>10, <2>12
    <3>2. CASE i = n
      <4>1. ASSUME NEW j \in 0 .. n - 1 PROVE f[j] = Field[j]
        <5>1. j \in 0 .. MAX_VAR_NUM_FUTURE
          BY <2>3, <2>4
        <5> QED
          BY <2>7, <2>8, <3>1, <5>1 DEF Field
      <4>2. check_func(f, n) = check_func(Field, n)
        BY <2>4, <4>1, CheckSame
      <4> QED
        BY <2>9, <2>10, <2>12, <3>2, <4>2
    <3>3. CASE i # n
      BY <2>4, <3>1, <3>3
    <3> QED
      BY <3>2, <3>3
  <2>13. \A i : read(i)' = read(i)
    BY <1>0 DEF read
  <2>14. Len(params') - 1 = n
    BY <2>3, <2>4
  <2> SUFFICES ASSUME clean \/ setting # {} PROVE Restoring'
    BY <1>0 DEF Restoring
  <2>15. mark'[FieldSector] => \A i \in next' .. Len(params') - 1 : g[i] \subseteq read(i)'
    BY <1>0, <2>1, <2>12, <2>13, <2>14
  <2>16. \A i \in 0 .. next' - 1 : FALSE
    BY <1>0
  <2>17. ~(next' > 0)
    BY <1>0
  <2> QED
    BY <1>0, <2>1, <2>6, <2>11, <2>15, <2>16, <2>17 DEF Restoring
<1> QED
  BY <1>1, <1>2 DEF FieldInv

LEMMA HostField ==
  ASSUME UpdateInv, FieldInv,
         \/ HostStart \/ HostExits \/ HostInBootloader \/ HostSends \/ HostGetsNack
         \/ HostCallsApp \/ HostRefusesApp \/ HostUnanswered
         \/ LoseMessage \/ UNCHANGED vars
  PROVE  FieldInv'
<1>1. CASE HostStart \/ HostExits \/ HostInBootloader
  <2>1. /\ UNCHANGED <<flash, mark, job, powerupVarShadow, pc, resume, faulty>>
        /\ hpc' \in {"sync", "off", "blocks"}
        /\ setting' = setting \/ setting' = {}
        /\ setting' # {} => hpc # "params"  \/ HostInBootloader \/ HostStart
        /\ clean' => clean \/ pc = "loop"
    BY <1>1 DEF HostStart, HostExits, HostInBootloader, flashVars, boardVars, history,
       FieldOpen
  <2>2. setting' # {} => hpc # "params"
    BY <1>1, <2>1 DEF HostInBootloader, HostStart, Expects
  <2>3. BoardInv'
    BY <2>1, <2>2, HostQuiet DEF FieldInv
  <2>4. Restoring'
    BY <2>1 DEF Restoring
  <2> QED
    BY <2>3, <2>4 DEF FieldInv
<1>2. CASE HostSends \/ HostGetsNack \/ LoseMessage \/ UNCHANGED vars
  <2>1. /\ UNCHANGED <<flash, mark, job, powerupVarShadow, pc, resume, faulty, hpc, next,
                       params, clean, setting>>
        /\ link' = link \/ link'.st # "ack"
    BY <1>2 DEF HostSends, Request, HostGetsNack, LoseMessage, NoMsg, vars, flashVars,
       boardVars, hostVars, history
  <2>2. BoardInv'
    BY <2>1, HostQuiet DEF FieldInv
  <2>3. hpc = "params" /\ (clean \/ setting # {}) => pc \in {"loop", "write"}
    BY DEF FieldInv, Restoring
  <2>4. Restoring'
    BY <2>1, <2>3, RestoringSame DEF FieldInv
  <2> QED
    BY <2>2, <2>4 DEF FieldInv
<1>3. CASE HostCallsApp \/ HostRefusesApp \/ HostUnanswered
  <2>1. /\ UNCHANGED <<flash, mark, job, powerupVarShadow, pc, resume, clean, setting, faulty>>
        /\ hpc = "sync" /\ hpc' \in {"called", "off"}
    BY <1>3 DEF HostCallsApp, HostRefusesApp, HostUnanswered, Queries, flashVars, boardVars,
       history
  <2>2. BoardInv'
    BY <2>1, HostQuiet DEF FieldInv
  <2>3. Restoring'
    BY <2>1 DEF Restoring
  <2> QED
    BY <2>2, <2>3 DEF FieldInv
<1> QED
  BY <1>1, <1>2, <1>3

LEMMA FieldStep ==
  ASSUME UpdateInv, JobPlaces, LinkPlaces, CountInv, ParamsInv, SessionPlaces, FieldInv,
         [UpdateNext]_vars
  PROVE  FieldInv'
<1>0. BoardCount
  BY DEF CountInv
<1>1. CASE BoardRuns
  <2>1. HostWaits /\ BoardStep
    BY <1>1 DEF BoardRuns, HostWaits, hostVars
  <2> QED
    BY <1>0, <2>1, FlashRuns, ResetRuns, PvfReturns, BootField, WindowField, WriteField,
       WriteEndField, GoField, InitField, InitCheckField, InitReturnField, CallField
    DEF BoardStep
<1>2. CASE HostStep
  BY <1>0, <1>2, HostField, AckField, ReadField DEF HostStep
<1>3. CASE HostStart \/ HostExits \/ HostUnanswered \/ LoseMessage \/ UNCHANGED vars
  BY <1>3, HostField
<1>4. CASE PowerLoss \/ FlashError \/ Operator
  BY <1>0, <1>4, PowerLossField, FlashErrorField, OperatorField
<1> QED
  BY <1>1, <1>2, <1>3, <1>4 DEF UpdateNext

LEMMA FieldInit == UpdateInit => FieldInv
<1> SUFFICES ASSUME UpdateInit PROVE FieldInv
  OBVIOUS
<1>1. hpc = "off" /\ pc = "boot" /\ clean = FALSE
  BY DEF UpdateInit, BoardInit
<1>2. SettingInv
  <2>1. ASSUME NEW v \in Version, NEW s \in Setting, BoardInit(Delivered(v, s)), setting = {s}
        PROVE  Kept /\ verifyPowerupField
    <3>1. /\ read(1) = NumWord /\ read(FirstSetting) = s
          /\ read(VarNum) = check_func(Field, VarNum)
      BY <2>1, DeliveredFacts
    <3>2. actualVarNum = VarNum
      BY <3>1, Indices, WordAssumption DEF actualVarNum
    <3> QED
      BY <2>1, <3>1, <3>2, Indices DEF Kept, verifyPowerupField
  <2> QED
    BY <1>1, <2>1 DEF UpdateInit, SettingInv
<1> QED
  BY <1>1, <1>2 DEF FieldInv, Restoring, BoardInv, GoInv, FaultyInv, PvfInv, InitInv,
     Init1Inv, Init2Inv

-----------------------------------------------------------------------------
(* The whole, inductive.                                                   *)

WholeInv ==
  /\ UpdateInv
  /\ JobPlaces /\ LinkPlaces
  /\ CountInv /\ ParamsInv
  /\ SessionPlaces /\ BlocksInv /\ SoundInv
  /\ FieldInv

LEMMA WholeInit == UpdateInit => WholeInv
BY UpdateInitInv, PlacesInit, LinkInit, SessionInit, FieldInit DEF WholeInv

LEMMA WholeStep == WholeInv /\ [UpdateNext]_vars => WholeInv'
<1> SUFFICES ASSUME WholeInv, [UpdateNext]_vars PROVE WholeInv'
  OBVIOUS
<1>0. /\ UpdateInv /\ JobPlaces /\ LinkPlaces /\ CountInv /\ ParamsInv
      /\ SessionPlaces /\ BlocksInv /\ SoundInv /\ FieldInv
  BY DEF WholeInv
<1>1. FlashTypeOK /\ BoardCount
  BY <1>0 DEF UpdateInv, UpdateTypeOK, BoardTypeOK, CountInv
<1>2. UpdateInv'
  BY <1>0, UpdateStepInv
<1>3. JobPlaces' /\ LinkPlaces'
  BY <1>0, PlacesStep, LinkStep
<1>4. CountInv' /\ ParamsInv'
  BY <1>0, <1>1, <1>2, CountInvStep, ParamsStep
<1>5. SessionPlaces' /\ BlocksInv' /\ SoundInv'
  BY <1>0, SessionStep, BlocksStep, SoundStep
<1>6. FieldInv'
  BY <1>0, FieldStep
<1> QED
  BY <1>2, <1>3, <1>4, <1>5, <1>6 DEF WholeInv

(* UpdateInv is inductive: types, and a host that never points behind what *)
(* it sends (iapdev.py:144-148, 200-229), in every reachable state.        *)
THEOREM UpdateInvariant == UpdateSpec => []UpdateInv
BY UpdateInitInv, UpdateStepInv, PTL DEF UpdateSpec

(* For a flash, field, image and settings of any size, and any number of   *)
(* losses, errors, resets and sessions: a flash job never outlives its     *)
(* words, no address outside the map is written, no field is prepared that *)
(* is longer than the largest count, and every parameter the host sends    *)
(* back is a word of the field (stmflash.c:93-140, powerupOption.cpp:41-   *)
(* 111, iapdev.py:114-149).                                                *)
THEOREM UpdateTypeCorrect == UpdateSpec => []UpdateTypeOK
<1>1. UpdateInv => UpdateTypeOK
  BY DEF UpdateInv
<1> QED
  BY <1>1, UpdateInvariant, PTL

(* WholeInv is inductive: whatever is lost, fails or is cut off, types,    *)
(* flash jobs, the one message, the words to restore, blocks and field fit *)
(* each other in every reachable state.                                    *)
THEOREM UpdateHolds == UpdateSpec => []WholeInv
BY WholeInit, WholeStep, PTL DEF UpdateSpec

(* For images of any number of blocks in any sectors: an image whose       *)
(* blocks were all acknowledged in one uninterrupted session is in flash   *)
(* word for word, whatever was lost and repeated in between and whatever   *)
(* failed before or after (iapdev.py:186-229, stmflash.c:67-78).           *)
THEOREM SoundImagesComplete == UpdateSpec => []SoundImageComplete
<1>1. WholeInv => SoundImageComplete
  <2> SUFFICES ASSUME WholeInv, image = "sound" PROVE SoundImageComplete
    BY DEF SoundImageComplete
  <2>1. ver \in Version /\ SoundInv
    BY DEF WholeInv, UpdateInv, UpdateTypeOK
  <2> QED
    BY <2>1 DEF SoundInv, SoundImageComplete
<1> QED
  BY <1>1, UpdateHolds, PTL

(* For a field of any size: pvf::write, initInApp and the host leave it    *)
(* fit for its next reader, wherever power, host or an earlier write       *)
(* failed; only a flash error since the last start excuses bootloader and  *)
(* application, and only a count too large for one call of the driver the  *)
(* bootloader besides (bootloader main.cpp:55-56, powerupOption.cpp:41-    *)
(* 111, stmflash.c:101, iapdev.py:114-149).                                *)
THEOREM FieldsFit == UpdateSpec => []FieldFit
<1>1. WholeInv => FieldFit
  BY DEF WholeInv, FieldInv, BoardInv, GoInv, FaultyInv, Bootable, FieldFit
<1> QED
  BY <1>1, UpdateHolds, PTL

(* A setting survives any number of resets, unlocks and whole updates that *)
(* do not cut into a write of the field, for any words and any size of it  *)
(* (iapdev.py:114-149, powerupOption.cpp:41-63).                           *)
THEOREM SettingsKept == UpdateSpec => []SettingKept
<1>1. WholeInv => SettingKept
  <2> SUFFICES ASSUME WholeInv, pc = "app", setting # {} PROVE read(FirstSetting) \in setting
    BY DEF SettingKept
  <2>1. hpc # "params"
    BY AwayFromParams DEF WholeInv, FieldInv
  <2> QED
    BY <2>1 DEF WholeInv, FieldInv, BoardInv, SettingInv, Kept
<1> QED
  BY <1>1, UpdateHolds, PTL
=============================================================================

----------------------------- MODULE PowerupVars -----------------------------
(***************************************************************************)
(* HAL/powerupOption.cpp: the powerup variables, a field of words at the   *)
(* start of a flash sector that the bootloader and the application share.  *)
(* Word 0 says what to boot, word 1 how many variables the field has, the  *)
(* word behind the last variable is the XOR of all of them.                *)
(***************************************************************************)
EXTENDS StmFlash, FiniteSets

CONSTANTS
  VarNum,               \* pvf::VarNum of this build
  MAX_VAR_NUM_FUTURE,   \* the largest count a field may claim
  VarAddr,              \* the address of each word of the field
  NumOf,                \* the number a word stands for
  NumWord,              \* the word for pvf::VarNum
  BOOT_PARAM_APP, BOOT_PARAM_BL, BOOT_PARAM_LOADING,
  DEFAULT_POWERUP_VAL   \* the defaults compiled in

VAR_BOOT_OPTI == 0
VAR_NUM_OF_VAR == 1

ASSUME VarNumAssumption ==
  /\ VarNum \in Nat \ {0, 1}
  /\ MAX_VAR_NUM_FUTURE \in Nat
  /\ VarNum <= MAX_VAR_NUM_FUTURE
  /\ VarNum < MaxLen
ASSUME FieldAssumption ==
  /\ VarAddr \in [0 .. MAX_VAR_NUM_FUTURE -> Addr]
  /\ \A i, j \in 0 .. MAX_VAR_NUM_FUTURE : VarAddr[i] = VarAddr[j] => i = j
  /\ \A i, j \in 0 .. MAX_VAR_NUM_FUTURE : SectorOf[VarAddr[i]] = SectorOf[VarAddr[j]]
ASSUME WordAssumption ==
  /\ NumOf \in [Word -> Nat]
  /\ NumWord \in Word /\ NumOf[NumWord] = VarNum
  /\ {BOOT_PARAM_APP, BOOT_PARAM_BL, BOOT_PARAM_LOADING} \subseteq Word
  /\ DEFAULT_POWERUP_VAL \in [0 .. VarNum - 1 -> Word]

VARIABLE powerupVarShadow   \* the RAM image a write is prepared in

-----------------------------------------------------------------------------

read(i) == flash[VarAddr[i]]

(* The XOR of the first len words of f. *)
check_func(f, len) ==
  {b \in Bit : Cardinality({i \in 0 .. len - 1 : b \in f[i]}) % 2 = 1}

Field == [i \in 0 .. MAX_VAR_NUM_FUTURE |-> read(i)]

actualVarNum == NumOf[read(VAR_NUM_OF_VAR)]

verifyPowerupField ==
  /\ actualVarNum >= 1
  /\ actualVarNum <= MAX_VAR_NUM_FUTURE
  /\ check_func(Field, actualVarNum) = read(actualVarNum)

getSuitVarNum ==
  IF actualVarNum > MAX_VAR_NUM_FUTURE THEN VarNum ELSE actualVarNum

(* The writes that put f[first .. last] into the field. *)
FieldWrites(f, first, last) ==
  [n \in 1 .. last - first + 1 |->
     [addr |-> VarAddr[first + n - 1], val |-> f[first + n - 1]]]

(* The field with variable idx changed and its check word made to fit. *)
Changed(idx, val) ==
  LET new == [i \in 0 .. getSuitVarNum - 1 |-> IF i = idx THEN val ELSE read(i)]
  IN  [i \in 0 .. getSuitVarNum |->
         IF i = getSuitVarNum THEN check_func(new, i) ELSE new[i]]

(* pvf::write gives up on an index the field does not have, and when       *)
(* nothing would change.                                                   *)
write_skipped_Either(idx, val) ==
  idx >= getSuitVarNum \/ read(idx) = val \/ verifyPowerupField

write_skipped(idx, val) ==
  \/ idx >= getSuitVarNum
  \/ read(idx) = val /\ verifyPowerupField

(* A field that claims more variables than one call of the flash driver    *)
(* writes: its check word would be one too many.                           *)
TooLong == getSuitVarNum >= MaxLen

write_start(idx, val) ==
  /\ ~write_skipped(idx, val)
  /\ powerupVarShadow' = Changed(idx, val)
  /\ STMFLASH_write_bytes(FieldWrites(Changed(idx, val), 0, getSuitVarNum))

(* The result of STMFLASH_write_bytes is not looked at. *)
write_end ==
  /\ ~Busy
  /\ rst_addr_erase_mark(VarAddr[0])
  /\ UNCHANGED <<flash, job, powerupVarShadow>>

-----------------------------------------------------------------------------

(* pvf::initInApp: what the field becomes when it does not verify, or      *)
(* comes from a build with another number of variables.                    *)
initInApp_needed_VerifyOnly == ~verifyPowerupField

initInApp_needed == ~(verifyPowerupField /\ getSuitVarNum = VarNum)

Initialised ==
  [i \in 0 .. VarNum - 1 |->
     IF i = VAR_NUM_OF_VAR THEN NumWord
     ELSE IF i < getSuitVarNum THEN read(i) ELSE DEFAULT_POWERUP_VAL[i]]

initInApp_start ==
  /\ initInApp_needed
  /\ powerupVarShadow' = Initialised
  /\ STMFLASH_write_bytes(FieldWrites(Initialised, 0, VarNum - 1))

(* The check word is a second call, made whether or not the first worked.  *)
initInApp_check ==
  /\ STMFLASH_write_bytes(
       <<[addr |-> VarAddr[VarNum], val |-> check_func(powerupVarShadow, VarNum)]>>)
  /\ UNCHANGED powerupVarShadow
=============================================================================

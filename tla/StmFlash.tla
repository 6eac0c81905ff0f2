------------------------------- MODULE StmFlash -------------------------------
(***************************************************************************)
(* HAL/stmflash.c: the driver every flash write goes through, bootloader   *)
(* and application alike.  A word is the set of its bits that read 1, so   *)
(* an erased word is the full set and programming can only remove bits.    *)
(*                                                                         *)
(* One call of STMFLASH_write_bytes is a job: at most one sector erase and *)
(* one program step per word, so that power may fail between any two.      *)
(***************************************************************************)
EXTENDS Naturals, Sequences

CONSTANTS
  Bit,       \* the bits of a word the properties tell apart
  Addr,      \* the word addresses in use
  Sector,    \* the erasable sectors they lie in
  SectorOf,  \* the sector of each address
  MaxLen     \* the words one call may write: 256 bytes are 64

ASSUME SectorOfAssumption == SectorOf \in [Addr -> Sector]
ASSUME MaxLenAssumption == MaxLen \in Nat \ {0}

Word == SUBSET Bit
Erased == Bit

VARIABLES
  flash,  \* the array itself: survives a power loss
  mark,   \* sector_erase_state_tab, in RAM: TRUE is 0xFF
  job     \* the running or last STMFLASH_write_bytes

flashVars == <<flash, mark, job>>

Write == [addr : Addr, val : Word]
NoJob == [pc |-> "ok", todo |-> <<>>]
Failed == [pc |-> "err", todo |-> <<>>]

Busy == job.pc \in {"erase", "program"}

Unmarked == [s \in Sector |-> FALSE]

(* Every word of a fresh flash is erased and no sector is marked. *)
FlashInit(contents) ==
  /\ flash = contents
  /\ mark = Unmarked
  /\ job = NoJob

FlashTypeOK ==
  /\ flash \in [Addr -> Word]
  /\ mark \in [Sector -> BOOLEAN]
  /\ job \in [pc : {"erase", "program", "ok", "err"}, todo : Seq(Write)]
  /\ Busy <=> job.todo # <<>>

-----------------------------------------------------------------------------

(* erase_sector_once: a marked sector is not erased again. *)
erase_sector_once_Always(s) == "erase"

erase_sector_once(s) == IF mark[s] THEN "program" ELSE "erase"

(* A call with too many words is refused before anything is touched.       *)
STMFLASH_write_bytes(writes) ==
  /\ ~Busy
  /\ job' = IF Len(writes) > MaxLen THEN Failed
            ELSE [pc |-> erase_sector_once(SectorOf[Head(writes).addr]),
                  todo |-> writes]
  /\ UNCHANGED <<flash, mark>>

rst_addr_erase_mark(a) == mark' = [mark EXCEPT ![SectorOf[a]] = FALSE]

(* The word being programmed, and the sector it lies in. *)
Current == Head(job.todo)
CurrentSector == SectorOf[Current.addr]

EraseOk ==
  /\ job.pc = "erase"
  /\ flash' = [a \in Addr |->
                 IF SectorOf[a] = CurrentSector THEN Erased ELSE flash[a]]
  /\ mark' = [mark EXCEPT ![CurrentSector] = TRUE]
  /\ job' = [job EXCEPT !.pc = "program"]

(* Programming clears the bits the new word has clear. *)
Programmed(old, new) == old \cap new

(* The loop over the words ends behind the last one. *)
AfterWord_OffByOne(todo) == IF todo = <<>> THEN "ok" ELSE "program"

AfterWord(todo) == IF Len(todo) = 1 THEN "ok" ELSE "program"

ProgramOk ==
  /\ job.pc = "program"
  /\ flash' = [flash EXCEPT ![Current.addr] = Programmed(@, Current.val)]
  /\ job' = [pc |-> AfterWord(job.todo), todo |-> Tail(job.todo)]
  /\ UNCHANGED mark

(* What an erase or a program that did not finish leaves behind: some of   *)
(* the sector's words erased, some of the word's bits cleared.             *)
PartlyErased ==
  \E done \in SUBSET {a \in Addr : SectorOf[a] = CurrentSector} :
    flash' = [a \in Addr |-> IF a \in done THEN Erased ELSE flash[a]]

PartlyProgrammed ==
  \E w \in Word :
    /\ Programmed(flash[Current.addr], Current.val) \subseteq w
    /\ w \subseteq flash[Current.addr]
    /\ flash' = [flash EXCEPT ![Current.addr] = w]

LeavesPartial ==
  \/ job.pc = "erase" /\ PartlyErased
  \/ job.pc = "program" /\ PartlyProgrammed

(* The controller reports an error: every mark is reset, the call is -1.   *)
FlashFails ==
  /\ LeavesPartial
  /\ mark' = Unmarked
  /\ job' = Failed

(* Power fails or the chip resets: RAM is lost, a running step is cut.     *)
FlashReset ==
  /\ IF Busy THEN LeavesPartial ELSE UNCHANGED flash
  /\ mark' = Unmarked
  /\ job' = NoJob

FlashStep == EraseOk \/ ProgramOk
=============================================================================

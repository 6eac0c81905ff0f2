----------------------------- MODULE UpdateSystem -----------------------------
(***************************************************************************)
(* The firmware update as a whole: the board, the host tool that loads an  *)
(* image into it (iapTool/F4Kernel/loadf4kernel.py and iapdev/iapdev.py),  *)
(* the link between them and what goes wrong: lost requests and answers, a *)
(* host tool that exits, flash errors, power that fails between any two    *)
(* flash steps.                                                            *)
(*                                                                         *)
(* A request here is a whole write-memory or go transaction.  A request    *)
(* sent while no bootloader loop runs is lost and sent again, which        *)
(* changes nothing, so it is not a step.  The call that brings a running   *)
(* application into the bootloader is sent once and never again.           *)
(***************************************************************************)
EXTENDS Board

CONSTANTS
  Refused,      \* the versions too old to be called into the bootloader
  Setting,      \* bound: the values the application stores in its settings
  Budget        \* bound: how often each thing may go wrong, a set to choose from

ASSUME SettingAssumption == Setting \subseteq Word
ASSUME VersionAssumption == Version # {}
ASSUME RefusedAssumption == Refused \subseteq Version

(* loss: requests or answers lost; exit: host tools closed before the end; *)
(* flash: erase or program errors; power: power losses and resets from     *)
(* outside; session: update sessions.                                      *)
Trouble == {"loss", "exit", "flash", "power", "session"}

ASSUME BudgetAssumption == \A b \in Budget : b \in [Trouble -> Nat]

VARIABLES
  hpc,     \* where the host tool is
  ver,     \* the image it sends
  next,    \* the block or parameter it sends next
  params,  \* the parameter words it read, to be restored
  left     \* how often each thing may still go wrong

hostVars == <<hpc, ver, next, params>>

(* History only, no action reads it: what a later state is judged by.      *)
VARIABLES
  clean,    \* this session began on a fresh board, nothing cut into it
  image,    \* "sound", or "suspect" since a block was written
  setting,  \* {the value the first setting should have}, {} when unknown
  faulty    \* a flash error hit the powerup field since the last start

history == <<clean, image, setting, faulty>>

vars == <<boardVars, hostVars, left, history>>

HPC == {"off", "sync", "called", "blocks", "read", "params", "go", "done"}
Active == HPC \ {"off", "done"}
DefaultSuit == 2
FirstSetting == 2

UpdateTypeOK ==
  /\ BoardTypeOK
  /\ hpc \in HPC /\ ver \in Version /\ next \in Nat
  /\ params \in Seq(Write)
  /\ left \in [Trouble -> Nat]
  /\ clean \in BOOLEAN /\ image \in {"sound", "suspect"} /\ faulty \in BOOLEAN
  /\ setting \in SUBSET Word

ASSUME DefaultCountAssumption == \E w \in Word : NumOf[w] = DefaultSuit

FieldSector == SectorOf[VarAddr[0]]

(* The field is in sector 3, images begin in sector 4 (powerupOption.cpp:8, *)
(* loadf4kernel.py:16); the first setting is variable 2 of 11.             *)
ASSUME LayoutAssumption == \A b \in Block : SectorOf[BlockAddr[b]] # FieldSector
ASSUME FirstSettingAssumption == FirstSetting < VarNum

Spend(what) == left[what] > 0 /\ left' = [left EXCEPT ![what] = @ - 1]

(* The boot option of a refused jump, programmed over the application's    *)
(* without an erase, is none: 0x5555AAAA and 0x2B2B6666 (stmflash.h:10).   *)
ASSUME OptionAssumption ==
  BOOT_PARAM_APP \cap BOOT_PARAM_BL
    \notin {BOOT_PARAM_APP, BOOT_PARAM_BL, BOOT_PARAM_LOADING}

-----------------------------------------------------------------------------
(* A board as delivered: an image that boots, and settings of its own.     *)
Delivered(v, s) ==
  LET f == [i \in 0 .. VarNum - 1 |->
              IF i = VAR_BOOT_OPTI THEN BOOT_PARAM_APP
              ELSE IF i = VAR_NUM_OF_VAR THEN NumWord ELSE s]
  IN  [a \in Addr |->
         IF \E b \in Block : a = BlockAddr[b] THEN ImgWord[v]
         ELSE IF a = VarAddr[VarNum] THEN check_func(f, VarNum)
         ELSE IF \E i \in 0 .. VarNum - 1 : a = VarAddr[i]
                THEN f[CHOOSE i \in 0 .. VarNum - 1 : a = VarAddr[i]]
         ELSE Erased]

UpdateInit ==
  /\ \/ \E v \in Version, s \in Setting :
          /\ BoardInit(Delivered(v, s))
          /\ image = "sound" /\ setting = {s}
     \/ /\ BoardInit([a \in Addr |-> Erased])
        /\ image = "suspect" /\ setting = {}
  /\ hpc = "off" /\ next = 0 /\ params = <<>>
  /\ ver = CHOOSE v \in Version : TRUE
  /\ left \in Budget
  /\ clean = FALSE /\ faulty = FALSE

-----------------------------------------------------------------------------
(* The host tool, one session after the other. *)

(* No block of another image, and no field, lies in a sector that would    *)
(* not be erased.                                                          *)
Fresh(v) ==
  /\ \A b \in Block : mark[SectorOf[BlockAddr[b]]] =>
                       flash[BlockAddr[b]] \in {Erased, ImgWord[v]}
  /\ ~mark[FieldSector]

HostStart ==
  /\ hpc \in {"off", "done"}
  /\ Spend("session")
  /\ hpc' = "sync" /\ ver' \in Version /\ next' = 0 /\ params' = <<>>
  /\ link' = NoMsg
  /\ UNCHANGED <<flashVars, powerupVarShadow, pc, resume, history>>

(* settargetboardbootloader asks a running application for its version.    *)
OldApp == \E v \in Refused : Complete(v)

Queries == hpc = "sync" /\ pc = "app"

(* A version that can be updated is sent the call, once: what becomes of   *)
(* it the host never learns.                                               *)
HostCallsApp ==
  /\ Queries /\ ~OldApp /\ link.st = "none"
  /\ link' = [st |-> "call"]
  /\ hpc' = "called"
  /\ UNCHANGED <<flashVars, powerupVarShadow, pc, resume, ver, next, params, left, history>>

(* An older version ends the tool. *)
HostRefusesApp ==
  /\ Queries /\ OldApp
  /\ hpc' = "off"
  /\ UNCHANGED <<boardVars, ver, next, params, left, history>>

(* Five queries in a row without an answer, one loss: the host goes on     *)
(* without having called.                                                  *)
HostUnanswered ==
  /\ hpc = "sync"
  /\ Spend("loss")
  /\ hpc' = "called"
  /\ UNCHANGED <<boardVars, ver, next, params, history>>

(* getbootloaderversion is answered. *)
Expects_NotAfterCall == hpc = "sync"

Expects == hpc \in {"sync", "called"}

HostInBootloader ==
  /\ Expects /\ pc = "loop"
  /\ hpc' = "blocks"
  /\ clean' = Fresh(ver)
  /\ UNCHANGED <<boardVars, ver, next, params, left, image, setting, faulty>>

BlockWrite(n) == [addr |-> BlockAddr[n], val |-> ImgWord[ver]]

(* What is sent next while blocks or parameters are being sent. *)
Request ==
  LET w == IF hpc = "blocks" THEN BlockWrite(next) ELSE params[next + 1]
  IN  IF hpc = "go" THEN [st |-> "go"]
      ELSE [st |-> "write", addr |-> w.addr, val |-> w.val]

HostSends ==
  /\ hpc \in {"blocks", "params", "go"} /\ pc = "loop" /\ link.st = "none"
  /\ link' = Request
  /\ UNCHANGED <<flashVars, powerupVarShadow, pc, resume, hostVars, left, history>>

Length ==
  IF hpc = "blocks" THEN Cardinality(Block)
  ELSE IF hpc = "params" THEN Len(params) ELSE 1

After == IF hpc = "blocks" THEN "read" ELSE IF hpc = "params" THEN "go" ELSE "done"

HostGetsAck ==
  /\ hpc \in Active /\ link.st = "ack"
  /\ link' = NoMsg
  /\ IF next + 1 < Length THEN next' = next + 1 /\ UNCHANGED hpc
                          ELSE next' = 0 /\ hpc' = After
  /\ image' = IF hpc = "blocks" /\ hpc' = "read" /\ clean THEN "sound" ELSE image
  /\ UNCHANGED <<flashVars, powerupVarShadow, pc, resume, ver, params, left,
                 clean, setting, faulty>>

(* A NACK: the same block or parameter again. *)
HostGetsNack ==
  /\ hpc \in Active /\ link.st = "nack"
  /\ link' = NoMsg
  /\ UNCHANGED <<flashVars, powerupVarShadow, pc, resume, hostVars, left, history>>

(* restorebootparam keeps a field whose count and check word fit, and      *)
(* otherwise makes one of the boot option and a count of two.  A count up  *)
(* to 0xffff makes it read on behind the field; that the sum over those    *)
(* words fits by chance is left out.                                       *)
DefaultCount == CHOOSE w \in Word : NumOf[w] = DefaultSuit

(* The counts this build and the host write have a bit in common that      *)
(* makes any word with it a count of two or more: 11 and 2 have bit 1.     *)
ASSUME CountAssumption ==
  \A w \in Word : NumWord \cap DefaultCount \subseteq w => NumOf[w] >= DefaultSuit

RestoreCount_Always2 == DefaultSuit

RestoreCount ==
  IF /\ actualVarNum <= MAX_VAR_NUM_FUTURE
     /\ check_func(Field, actualVarNum) = read(actualVarNum)
    THEN actualVarNum ELSE DefaultSuit

RestoredVar_AsRead(i) == read(i)

RestoredVar(i) ==
  IF i = VAR_BOOT_OPTI THEN BOOT_PARAM_APP
  ELSE IF RestoreCount # DefaultSuit THEN read(i)
  ELSE DefaultCount

HostReadsParams ==
  /\ hpc = "read" /\ pc = "loop"
  /\ RestoreCount # 0
  /\ LET n == RestoreCount
         f == [i \in 0 .. n - 1 |-> RestoredVar(i)]
         check == [addr |-> VarAddr[n], val |-> check_func(f, n)]
     IN  params' = Append(FieldWrites(f, 0, n - 1), check)
  /\ hpc' = "params" /\ next' = 0
  /\ UNCHANGED <<boardVars, ver, left, history>>

FieldAtWork == Busy /\ CurrentSector = FieldSector

(* The field is being rewritten: a write of it runs, initInApp has done    *)
(* one of its two, or the host is restoring it.                            *)
FieldOpen == FieldAtWork \/ pc \in {"init1", "init2"} \/ hpc = "params"

(* The retry limit is reached, or nine questions for the bootloader's      *)
(* version get no answer, because no bootloader runs and none will; a      *)
(* field of zero variables, which restorebootparam has no first word of;   *)
(* or the tool is closed, or its retry limit used up on writes that take   *)
(* longer than it waits.                                                   *)
NoBootloader ==
  \/ pc \in {"hung", "crashed"}
  \/ pc = "app" /\ hpc # "sync" /\ link.st # "call"

NoFirstWord == hpc = "read" /\ pc = "loop" /\ RestoreCount = 0

CannotGoOn == NoBootloader \/ NoFirstWord

HostExits ==
  /\ hpc \in Active
  /\ IF CannotGoOn THEN UNCHANGED left ELSE Spend("exit")
  /\ hpc' = "off" /\ next' = 0 /\ params' = <<>>
  /\ link' = NoMsg
  /\ setting' = IF FieldOpen THEN {} ELSE setting
  /\ UNCHANGED <<flashVars, powerupVarShadow, pc, resume, ver, clean, image, faulty>>

-----------------------------------------------------------------------------
(* The surroundings. *)

(* A request or an answer is lost; the host waits and sends again, but for *)
(* the call.                                                               *)
LoseMessage ==
  /\ link.st \in {"call", "write", "go", "ack", "nack"}
  /\ Spend("loss")
  /\ link' = NoMsg
  /\ UNCHANGED <<flashVars, powerupVarShadow, pc, resume, hostVars, history>>

PowerLoss ==
  /\ Spend("power")
  /\ Reset
  /\ clean' = FALSE
  /\ setting' = IF FieldOpen THEN {} ELSE setting
  /\ faulty' = FALSE
  /\ UNCHANGED <<hostVars, image>>

FlashError ==
  /\ Spend("flash")
  /\ FlashFails
  /\ clean' = FALSE
  /\ setting' = IF FieldOpen THEN {} ELSE setting
  /\ faulty' = (faulty \/ FieldAtWork)
  /\ UNCHANGED <<powerupVarShadow, pc, resume, link, hostVars, image>>

(* Somebody sends 7F 7F in the window, unlocks the board, resets it. *)
Operator ==
  /\ \/ WindowEmergency /\ clean' = FALSE /\ UNCHANGED setting
     \/ \E w \in Setting :
          /\ UidUnlockHandlerFunc(FirstSetting, w)
          /\ setting' = IF FirstSetting >= getSuitVarNum \/ TooLong THEN setting
                         ELSE IF verifyPowerupField /\ hpc # "params" THEN {w}
                         ELSE {}
          /\ UNCHANGED clean
     \/ chipResetHandlerFunc /\ UNCHANGED <<clean, setting>>
  /\ UNCHANGED <<hostVars, left, image, faulty>>

-----------------------------------------------------------------------------

BoardRuns ==
  /\ BoardStep
  /\ image' = IF pc' = "write" /\ hpc = "blocks" THEN "suspect" ELSE image
  /\ faulty' = (faulty /\ pc' # "init" /\ pc' # "boot")
  /\ UNCHANGED <<hostVars, left, clean, setting>>

HostStep ==
  \/ HostCallsApp \/ HostRefusesApp \/ HostInBootloader \/ HostSends
  \/ HostGetsAck \/ HostGetsNack \/ HostReadsParams

UpdateNext ==
  \/ BoardRuns \/ HostStep \/ HostStart \/ HostExits
  \/ HostUnanswered \/ LoseMessage \/ PowerLoss \/ FlashError \/ Operator

UpdateSpec == UpdateInit /\ [][UpdateNext]_vars

(* The processor keeps running, and the host tool's loops are endless but  *)
(* for their retry limits (iapdev.py, chardev.py:34-46).  Nothing that     *)
(* goes wrong, and no operator, is fair.                                   *)
Fairness ==
  /\ WF_vars(BoardRuns)
  /\ WF_vars(HostStep)
  /\ WF_vars(CannotGoOn /\ HostExits)

FairUpdateSpec == UpdateSpec /\ Fairness

-----------------------------------------------------------------------------

(* An image whose blocks were all acknowledged in one uninterrupted        *)
(* session is in flash word for word, whatever was lost and sent again on  *)
(* the way and whatever failed before or after: NACK and retry, two        *)
(* sessions in one boot, power lost while the parameters are restored      *)
(* (iapdev.py:186-229, stmflash.c:67-78).                                  *)
SoundImageComplete ==
  image = "sound" => \E v \in Version : /\ Complete(v)
                                        /\ hpc \in {"read", "params", "go", "done"}
                                             /\ clean => v = ver

(* Each of the three writers leaves the field fit for who reads it next,   *)
(* whatever state power losses, hosts and earlier boots left it in: the    *)
(* bootloader's first check a boot option it knows, although pvf::write    *)
(* may refuse an index; the application's start a field that verifies, of  *)
(* this build's count; and a session nothing interrupted a field that      *)
(* boots the application, before it asks for the jump.  A flash error      *)
(* since the last start excuses the first two, and the first also a count  *)
(* of 64 or more, which a cut write may leave behind and a later write     *)
(* cannot replace (bootloader main.cpp:55-56, powerupOption.cpp:65-111,    *)
(* stmflash.c:101, iapdev.py:114-149).                                     *)
FieldFit ==
  /\ pc = "window" /\ ~faulty => KnownBootOption \/ TooLong
  /\ pc = "app" /\ ~faulty => verifyPowerupField /\ actualVarNum = VarNum
  /\ hpc = "go" /\ pc = "loop" /\ clean =>
       verifyPowerupField /\ read(VAR_BOOT_OPTI) = BOOT_PARAM_APP

(* A setting the application stored survives resets and whole firmware     *)
(* updates, although each update erases the sector it lies in; what may    *)
(* lose it is an interruption while the field is rewritten                 *)
(* (iapdev.py:114-149, powerupOption.cpp:41-63).                           *)
SettingKept ==
  pc = "app" /\ setting # {} => read(FirstSetting) \in setting

-----------------------------------------------------------------------------
(* Liveness, once operators leave the board alone. *)
Quiet == <>[][~Operator]_vars

(* Every session comes to an end, installed or given up: no combination of *)
(* lost messages, the one call included, of a flash error, a closed tool   *)
(* and a power loss leaves host and board waiting for each other           *)
(* (f4kerneliapdev.py:34-77, chardev.py:34-46, iapdev.py:159-294).         *)
SessionEnds == Quiet => (hpc = "sync" ~> hpc \in {"off", "done"})

Installed == pc = "app" /\ Complete(ver)

(* No power loss, flash error or closed tool, nor one that gives up on     *)
(* slow writes.                                                            *)
Undisturbed == [](left.exit + left.flash + left.power = 0)

(* The queries are answered, the call is not lost, nor flushed by a reset  *)
(* before the application takes it.                                        *)
Heard == [](left.loss = 0 /\ ~(pc = "reset" /\ link.st = "call"))

(* From the moment the application takes the call, and from a board found  *)
(* in its bootloader, an undisturbed session ends in its own image         *)
(* running, although requests and answers of blocks, parameters and jump   *)
(* are lost.  Before that moment a loss ends the tool with nothing         *)
(* installed: it sends the call once and does not learn its fate, and      *)
(* exits with 0 when no bootloader answers.  With nothing lost the whole   *)
(* session does install, unless it refuses the application it finds        *)
(* (f4kerneliapdev.py:36-77, iapdev.py:159-182, loadf4kernel.py:63-71).    *)
Installs ==
  Quiet /\ Undisturbed =>
    /\ (link.st = "taken" \/ hpc = "blocks") ~> Installed
    /\ Heard => (hpc = "sync" ~> (Installed \/ (hpc = "off" /\ OldApp)))

-----------------------------------------------------------------------------
(* What comments and messages say, and the code does not do. *)

(* A load that fails comes back to the command loop:                       *)
(* st_bootloader_protocol.c:237, "if program goes here, means load app     *)
(* failed."                                                                *)
FailedLoadGoesOn == pc = "hung" ~> pc # "hung"

(* A block the bootloader reports written is in flash:                     *)
(* st_bootloader_protocol.c:382, "write %d bytes at 0x%X ok."              *)
WrittenBlockIsInFlash ==
  hpc = "blocks" /\ link.st = "ack" => flash[BlockAddr[next]] = ImgWord[ver]
=============================================================================

-------------------------------- MODULE Board --------------------------------
(***************************************************************************)
(* The test board: bootloader (udpBootLoader/User/main.cpp, iap/iap.c,     *)
(* iap/st_bootloader_protocol.c) and application (User/main.cpp and the    *)
(* command handlers that write flash), one processor running one of them.  *)
(*                                                                         *)
(* pc says where the processor is:                                         *)
(*   boot    reset vector of the bootloader                                *)
(*   window  the second in which an emergency request may arrive           *)
(*   loop    serving one host request after the other                      *)
(*   write   inside bl_write_memory, the flash driver running              *)
(*   pvf     inside pvf::write; resume is where it returns to              *)
(*   hung    the endless loop behind a failed iap_load_app                 *)
(*   init, init1, init2   pvf::initInApp, first thing in the application   *)
(*   app     the application's task loop                                   *)
(*   reset   about to call NVIC_SystemReset                                *)
(*   crashed executing an image that is not complete                       *)
(***************************************************************************)
EXTENDS PowerupVars

CONSTANTS
  Block,      \* the blocks of an application image, 0 .. n - 1
  BlockAddr,  \* where each block goes
  Version,    \* the images a host may send
  ImgWord,    \* the content of each image, one word for all its blocks
  StackMask   \* the bits a legal stack top has clear

ASSUME ImageAssumption ==
  /\ Cardinality(Block) \in Nat \ {0} /\ Block = 0 .. Cardinality(Block) - 1
  /\ BlockAddr \in [Block -> Addr]
  /\ ImgWord \in [Version -> Word]

VARIABLES
  pc,
  resume,
  link    \* the host's outstanding request and the board's answer to it

(* The answer a request ends with replaces the request on the link.  The   *)
(* application is sent one request, the call to the bootloader; it is      *)
(* taken from where iapHandlerFunc runs, whose answer no host reads.       *)
NoMsg == [st |-> "none"]
WriteMsg == [st : {"write", "busy"}, addr : Addr, val : Word]
Msg == WriteMsg \cup [st : {"none", "call", "taken", "go", "ack", "nack"}]

boardVars == <<flashVars, powerupVarShadow, pc, resume, link>>

PC == {"boot", "window", "loop", "write", "pvf", "hung",
       "init", "init1", "init2", "app", "reset", "crashed"}

BoardTypeOK ==
  /\ FlashTypeOK
  /\ DOMAIN powerupVarShadow \subseteq 0 .. MAX_VAR_NUM_FUTURE
  /\ \A i \in DOMAIN powerupVarShadow : powerupVarShadow[i] \in Word
  /\ pc \in PC /\ resume \in PC
  /\ link \in Msg

Complete(v) == \A b \in Block : flash[BlockAddr[b]] = ImgWord[v]

NoShadow == [i \in 0 .. VarNum |-> {}]

BoardInit(contents) ==
  /\ FlashInit(contents)
  /\ powerupVarShadow = NoShadow
  /\ pc = "boot" /\ resume = "boot"
  /\ link = NoMsg

-----------------------------------------------------------------------------
(* Power loss, the reset button, NVIC_SystemReset.                         *)
Reset ==
  /\ FlashReset
  /\ powerupVarShadow' = NoShadow
  /\ pc' = "boot" /\ resume' = "boot"
  /\ link' = NoMsg

SystemReset == pc = "reset" /\ Reset

-----------------------------------------------------------------------------
(* pvf::write called at pc, returning to next.                             *)
PvfWrite(idx, val, next) ==
  \/ /\ write_skipped(idx, val)
     /\ pc' = next
     /\ UNCHANGED <<flashVars, powerupVarShadow, resume>>
  \/ /\ write_start(idx, val)
     /\ pc' = "pvf" /\ resume' = next

PvfReturn ==
  /\ pc = "pvf"
  /\ write_end
  /\ pc' = resume
  /\ UNCHANGED <<resume, link>>

-----------------------------------------------------------------------------
(* The bootloader.                                                         *)

KnownBootOption ==
  read(VAR_BOOT_OPTI) \in {BOOT_PARAM_APP, BOOT_PARAM_BL, BOOT_PARAM_LOADING}

BootCheck ==
  /\ pc = "boot"
  /\ IF KnownBootOption
       THEN pc' = "window" /\ UNCHANGED <<flashVars, powerupVarShadow, resume>>
       ELSE PvfWrite(VAR_BOOT_OPTI, BOOT_PARAM_BL, "window")
  /\ UNCHANGED link

(* The jump checks the stack top only; the new program's startup code      *)
(* clears its RAM.  A failed jump writes the boot option and then waits    *)
(* for the UDP console to be busy, which it never is (iap.c:31).           *)
StackTopLegal == flash[BlockAddr[0]] \cap StackMask = {}

iap_load_app ==
  \/ /\ StackTopLegal
     /\ pc' = IF \E v \in Version : Complete(v) THEN "init" ELSE "crashed"
     /\ mark' = Unmarked
     /\ job' = NoJob
     /\ powerupVarShadow' = NoShadow
     /\ UNCHANGED <<flash, resume>>
  \/ /\ ~StackTopLegal
     /\ PvfWrite(VAR_BOOT_OPTI, BOOT_PARAM_BL, "hung")

(* No emergency request in the window, or other bytes. *)
WindowCloses ==
  /\ pc = "window"
  /\ IF read(VAR_BOOT_OPTI) = BOOT_PARAM_APP
       THEN iap_load_app
       ELSE pc' = "loop" /\ UNCHANGED <<flashVars, powerupVarShadow, resume>>
  /\ UNCHANGED link

(* The two bytes 7F 7F. *)
WindowEmergency ==
  /\ pc = "window"
  /\ PvfWrite(VAR_BOOT_OPTI, BOOT_PARAM_BL, "loop")
  /\ UNCHANGED link

bl_write_memory ==
  /\ pc = "loop" /\ link.st = "write"
  /\ STMFLASH_write_bytes(<<[addr |-> link.addr, val |-> link.val]>>)
  /\ pc' = "write"
  /\ link' = [link EXCEPT !.st = "busy"]
  /\ UNCHANGED <<powerupVarShadow, resume>>

(* The answer to a host that has gone reaches nobody. *)
bl_write_memory_end ==
  /\ pc = "write" /\ ~Busy
  /\ pc' = "loop"
  /\ link' = IF link.st # "busy" THEN NoMsg
             ELSE IF job.pc = "ok" THEN [st |-> "ack"] ELSE [st |-> "nack"]
  /\ UNCHANGED <<flashVars, powerupVarShadow, resume>>

(* Acknowledged before the jump is tried. *)
bl_go ==
  /\ pc = "loop" /\ link.st = "go"
  /\ link' = [st |-> "ack"]
  /\ iap_load_app

-----------------------------------------------------------------------------
(* The application.                                                        *)

InitInApp ==
  /\ pc = "init"
  /\ IF initInApp_needed
       THEN initInApp_start /\ pc' = "init1"
       ELSE pc' = "app" /\ UNCHANGED <<flashVars, powerupVarShadow>>
  /\ UNCHANGED <<resume, link>>

InitInAppCheck ==
  /\ pc = "init1"
  /\ initInApp_check
  /\ pc' = "init2"
  /\ UNCHANGED <<resume, link>>

InitInAppReturn ==
  /\ pc = "init2"
  /\ write_end
  /\ pc' = "app"
  /\ UNCHANGED <<resume, link>>

(* A variable the application itself stores: the unlock words. *)
UidUnlockHandlerFunc(idx, val) ==
  /\ pc = "app"
  /\ PvfWrite(idx, val, "app")
  /\ UNCHANGED link

iapHandlerFunc_NoOption ==
  /\ pc = "app" /\ link.st = "call"
  /\ link' = [st |-> "taken"]
  /\ pc' = "reset"
  /\ UNCHANGED <<flashVars, powerupVarShadow, resume>>

iapHandlerFunc ==
  /\ pc = "app" /\ link.st = "call"
  /\ link' = [st |-> "taken"]
  /\ PvfWrite(VAR_BOOT_OPTI, BOOT_PARAM_LOADING, "reset")

chipResetHandlerFunc ==
  /\ pc = "app"
  /\ pc' = "reset"
  /\ UNCHANGED <<flashVars, powerupVarShadow, resume, link>>

-----------------------------------------------------------------------------
(* What the processor does on its own or on a waiting request. *)
BoardStep ==
  \/ FlashStep /\ UNCHANGED <<powerupVarShadow, pc, resume, link>>
  \/ SystemReset
  \/ PvfReturn
  \/ BootCheck
  \/ WindowCloses
  \/ bl_write_memory
  \/ bl_write_memory_end
  \/ bl_go
  \/ InitInApp
  \/ InitInAppCheck
  \/ InitInAppReturn
  \/ iapHandlerFunc
=============================================================================

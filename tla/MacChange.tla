----------------------------- MODULE MacChange -----------------------------
(***************************************************************************)
(* The test procedure run_mac_change of src/tests/mac_change.py: pick a   *)
(* new MAC for NIC 0 of the VM, change the guest's NIC to it inside a     *)
(* try block, and, on Windows, undo the change in the finally clause.      *)
(*                                                                         *)
(* The procedure is sequential: pc names the block it is about to run,    *)
(* and each action is one block of statements with every exception it may *)
(* raise.  dbMac is vm.virtnet[0].mac, the address the NIC database       *)
(* records; guestMac is the address the guest's NIC actually uses.         *)
(***************************************************************************)
EXTENDS Naturals

CONSTANTS
    Macs,          \* MAC addresses the generator may return
    OldMac,        \* the NIC's address when the test starts
    None,          \* Python's None, and no exception
    GuestFaults,   \* commands of the test body may fail in the guest
    CleanupFaults  \* commands of the finally clause may fail in the guest

OsTypes == {"linux", "windows"}

(* The exceptions the procedure can end with.                              *)
Exceptions == {"ShellCmdError", "LoginTimeoutError", "TestError", "TestFail",
               "UnboundLocalError"}

ASSUME MacAssumption ==
    /\ OldMac \in Macs
    /\ None \notin Macs /\ None \notin Exceptions
    /\ GuestFaults \in BOOLEAN /\ CleanupFaults \in BOOLEAN

VARIABLES
    pc,        \* the next block to run
    os,        \* params["os_type"]
    winxp,     \* params["os_variant"] == "winxp"
    newMac,    \* the local new_mac
    dbMac,     \* vm.virtnet[0].mac
    guestMac,  \* the MAC the guest's NIC uses
    modeSet,   \* whether the local mode has been assigned
    exc,       \* the exception in flight, None if there is none
    tried      \* history: the try block has been entered

vars == <<pc, os, winxp, newMac, dbMac, guestMac, modeSet, exc, tried>>

(* Leave the procedure with exception e, skipping what is left of it.      *)
Raise(e) == pc' = "done" /\ exc' = e

(* Lines 30-35: verify_alive and the two logins, which may time out.       *)
Start ==
    /\ pc = "start"
    /\ \/ pc' = "gen"
       \/ GuestFaults /\ Raise("LoginTimeoutError")
    /\ UNCHANGED <<os, winxp, newMac, dbMac, guestMac, modeSet, exc, tried>>

(* Lines 37-41, without free_mac_address: generate_mac_address returns the *)
(* address the NIC already has.                                            *)
GenerateNoFree ==
    /\ pc = "gen"
    /\ newMac' = dbMac
    /\ pc' = IF dbMac # OldMac THEN "prep" ELSE "gen"
    /\ UNCHANGED <<os, winxp, dbMac, guestMac, modeSet, exc, tried>>

(* Lines 37-41, with free_mac_address but no generate_mac_address.         *)
GenerateFreeOnly ==
    /\ pc = "gen"
    /\ dbMac' = None
    /\ newMac' = None
    /\ pc' = "prep"
    /\ UNCHANGED <<os, winxp, guestMac, modeSet, exc, tried>>

(* Lines 37-41: free NIC 0's address and generate one, until it differs   *)
(* from old_mac.  generate_mac_address records the address in the NIC      *)
(* database.                                                               *)
Generate ==
    /\ pc = "gen"
    /\ \E m \in Macs :
          /\ newMac' = m
          /\ dbMac' = m
          /\ pc' = IF m # OldMac THEN "prep" ELSE "gen"
    /\ UNCHANGED <<os, winxp, guestMac, modeSet, exc, tried>>

(* Lines 43-78: look up the interface, on Windows its connection id and   *)
(* index by guest commands, on Windows XP also copy devcon from the cd    *)
(* drive (get_drive_num raises TestError when it is not there).  An        *)
(* exception here propagates before the try block.                         *)
Prepare ==
    /\ pc = "prep"
    /\ \/ pc' = "try"
       \/ /\ GuestFaults /\ os = "windows"
          /\ \/ Raise("ShellCmdError")
             \/ winxp /\ Raise("TestError")
    /\ UNCHANGED <<os, winxp, newMac, dbMac, guestMac, modeSet, exc, tried>>

(* What the checks after the change (lines 85-115) can raise when the     *)
(* guest's NIC uses address g: the grep of ifconfig (Linux) or the match   *)
(* in ipconfig (Windows) fails unless g is new_mac, and any guest command  *)
(* or the re-login may fail of its own accord.                             *)
CheckOutcomes(g) ==
    (IF g = newMac THEN {None}
     ELSE {IF os = "linux" THEN "ShellCmdError" ELSE "TestFail"})
    \cup (IF GuestFaults THEN {"ShellCmdError", "LoginTimeoutError", "TestFail"}
          ELSE {})

(* Lines 79-115, the try block.  The change command at line 80 may fail,   *)
(* or return without the guest's NIC taking the new address.  On Windows  *)
(* mode is assigned (lines 91-94) only after line 80 returned.             *)
TryBody ==
    /\ pc = "try"
    /\ pc' = "finally"
    /\ tried' = TRUE
    /\ \/ /\ GuestFaults
          /\ exc' = "ShellCmdError"
          /\ UNCHANGED <<guestMac, modeSet>>
       \/ \E applied \in BOOLEAN :
             LET g == IF applied THEN newMac ELSE guestMac IN
             /\ applied \/ GuestFaults
             /\ guestMac' = g
             /\ modeSet' = (os # "linux")
             /\ exc' \in CheckOutcomes(g)
    /\ UNCHANGED <<os, winxp, newMac, dbMac>>

(* Lines 116-127 without the restore of nic.mac (lines 124-126).           *)
FinallyNoRestore ==
    /\ pc = "finally"
    /\ pc' = "done"
    /\ \/ os # "windows" /\ UNCHANGED <<guestMac, exc>>
       \/ /\ os = "windows"
          /\ \/ CleanupFaults /\ exc' = "ShellCmdError" /\ UNCHANGED guestMac
             \/ ~modeSet /\ exc' = "UnboundLocalError" /\ UNCHANGED guestMac
             \/ modeSet /\ guestMac' = OldMac /\ UNCHANGED exc
    /\ UNCHANGED <<os, winxp, newMac, dbMac, modeSet, tried>>

(* Lines 116-127, the finally clause.  On Windows: run clean_cmd, which    *)
(* drops the guest's address override; restart the guest's network with   *)
(* mode, raising UnboundLocalError when line 80 failed before mode was     *)
(* assigned; then set nic.mac back to old_mac and update the database.    *)
(* An exception here replaces the one in flight and skips the rest.        *)
Finally ==
    /\ pc = "finally"
    /\ pc' = "done"
    /\ \/ os # "windows" /\ UNCHANGED <<guestMac, dbMac, exc>>
       \/ /\ os = "windows"
          /\ \/ CleanupFaults /\ exc' = "ShellCmdError"
                /\ UNCHANGED <<guestMac, dbMac>>
             \/ ~modeSet /\ exc' = "UnboundLocalError"
                /\ UNCHANGED <<guestMac, dbMac>>
             \/ modeSet /\ CleanupFaults /\ exc' = "ShellCmdError"
                /\ UNCHANGED dbMac /\ guestMac' \in {guestMac, OldMac}
             \/ modeSet /\ guestMac' = OldMac /\ dbMac' = OldMac
                /\ UNCHANGED exc
    /\ UNCHANGED <<os, winxp, newMac, modeSet, tried>>

Init ==
    /\ pc = "start"
    /\ os \in OsTypes
    /\ winxp \in IF os = "windows" THEN BOOLEAN ELSE {FALSE}
    /\ newMac = None
    /\ dbMac = OldMac
    /\ guestMac = OldMac
    /\ modeSet = FALSE
    /\ exc = None
    /\ tried = FALSE

Next == Start \/ Generate \/ Prepare \/ TryBody \/ Finally

(* The procedure runs without waiting on anyone; the generator is random, *)
(* so it does not return old_mac forever.                                  *)
Spec == Init /\ [][Next]_vars /\ WF_vars(Next)

-----------------------------------------------------------------------------
(* Type invariant.                                                         *)
TypeOK ==
    /\ pc \in {"start", "gen", "prep", "try", "finally", "done"}
    /\ os \in OsTypes /\ winxp \in BOOLEAN
    /\ newMac \in Macs \cup {None}
    /\ dbMac \in Macs /\ guestMac \in Macs
    /\ modeSet \in BOOLEAN /\ tried \in BOOLEAN
    /\ exc \in Exceptions \cup {None}

(* A test that passes leaves the NIC database agreeing with the guest:    *)
(* on Linux both hold the new address, which differs from old_mac; on      *)
(* Windows the finally clause has put both back to old_mac.                *)
PassLeavesConsistent ==
    pc = "done" /\ exc = None =>
       /\ dbMac = guestMac
       /\ os = "linux" => guestMac # OldMac
       /\ os = "windows" => guestMac = OldMac

(* The inductive invariant behind PassLeavesConsistent: no exception is  *)
(* in flight before the try block; from the end of the generation loop to *)
(* the finally clause the database holds new_mac, which differs from       *)
(* old_mac; a try block that raised nothing left the guest on new_mac.     *)
IInv ==
    /\ TypeOK
    /\ pc \in {"start", "gen", "prep", "try"} => exc = None
    /\ pc \in {"prep", "try", "finally"} =>
          /\ newMac \in Macs /\ newMac # OldMac
          /\ dbMac = newMac
    /\ pc = "finally" /\ exc = None => guestMac = newMac
    /\ PassLeavesConsistent

(* The MAC generation loop ends, and the procedure with it.                *)
Terminates == <>(pc = "done")

(* On Windows, once the try block has started, the finally clause puts    *)
(* the NIC database back to old_mac unless one of its own guest commands  *)
(* fails.                                                                  *)
WindowsCleanupRestoresMac ==
    pc = "done" /\ os = "windows" /\ tried => dbMac = OldMac

=============================================================================

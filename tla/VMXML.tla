-------------------------------- MODULE VMXML --------------------------------
(***************************************************************************)
(* The VMXML class of virttest/libvirt_xml/vm_xml.py together with the     *)
(* part of libvirt it drives through virsh: the persistent domain          *)
(* definitions.  Each state-changing static method of VMXML is one action: *)
(* it dumps a definition, mutates the in-memory copy, then undefines and   *)
(* defines through virsh.  Every virsh call may fail; a handler that       *)
(* raises stops where the exception is raised.  The test program is        *)
(* single threaded, so a handler is one atomic step.                       *)
(*                                                                         *)
(* A domain document keeps only the fields these handlers touch: name,    *)
(* uuid, vcpu, the cpu mode and the primary serial device.                 *)
(***************************************************************************)
EXTENDS Naturals

CONSTANTS
    Names,        \* domain names
    UUIDs,        \* uuids libvirt can hold or generate
    None,         \* an absent element or attribute, an absent argument
    VcpuValues,   \* values passed to set_vm_vcpus
    ModeWords,    \* words of the cpu mode strings passed to set_cpu_mode
    SerialTypes,  \* serial type strings ("pty", "file", ...)
    Ports,        \* serial target port strings
    Paths,        \* serial source paths
    ToolFaults    \* TRUE when any virsh call may fail for reasons of its own

ASSUME NoneAssumption ==
    /\ None \notin Names /\ None \notin UUIDs /\ None \notin Paths
    /\ None \notin VcpuValues /\ None \notin Nat
ASSUME ValueAssumption ==
    /\ VcpuValues \subseteq Nat
    /\ "pty" \in SerialTypes /\ "0" \in Ports
    /\ ToolFaults \in BOOLEAN

(* The cpu modes check_cpu_mode accepts; libvirt accepts the same ones.    *)
CpuModes == {"custom", "host-model", "host-passthrough"}

(* A mode string as a caller passes it: a word, possibly padded with       *)
(* whitespace.  strip() removes the padding.                               *)
ModeInput == [word: ModeWords, padded: BOOLEAN]
Strip(mode) == mode.word

SerialDev == [type: SerialTypes, port: Ports, source: Paths \cup {None}]

(* An in-memory domain document (vmxml); uuid and vcpu may be deleted.    *)
Doc == [name: Names, uuid: UUIDs \cup {None}, vcpu: VcpuValues \cup {1, None},
        cpu: ModeInput \cup {None}, serial: SerialDev \cup {None}]

(* A definition libvirt holds: it always has a uuid and a vcpu count.     *)
StoredDoc == {x \in Doc : x.uuid # None /\ x.vcpu \in Nat \ {0}}

(* None, the value Python's find() and get() give for an absent element, *)
(* is not a document.                                                      *)
ASSUME NoneNotDoc == None \notin Doc

(* The error a handler raises, by exception class and the call it came    *)
(* from.  The empty set: the handler returned normally.                    *)
Errors == {"CmdError:dump", "CmdError:undefine", "CmdError:define",
           "LibvirtXMLError:undefine", "LibvirtXMLError:define",
           "LibvirtXMLError:cpu_mode", "AttributeError", "ValueError"}

VARIABLES
    dom,              \* libvirt's persistent definitions: name -> document
    issued,           \* uuids libvirt has held or generated
    vm,               \* the test's VM object: its name and uuid attributes
    vmAlive,          \* whether that VM is running
    raised,           \* what the last handler raised
    removeNoneRaises  \* the ElementTree build: remove(None) raises ValueError

vars == <<dom, issued, vm, vmAlive, raised, removeNoneRaises>>

Defined == {n \in Names : dom[n] # None}

-----------------------------------------------------------------------------
(***************************************************************************)
(* libvirt, as driven by virsh dumpxml / undefine / define.                *)
(***************************************************************************)

(* Mutant of Valid: the vcpu count is not checked.                          *)
ValidAnyVcpu(x) ==
    /\ x.cpu # None => ~x.cpu.padded /\ x.cpu.word \in CpuModes
    /\ x.serial # None => (x.serial.type = "file" => x.serial.source # None)

(* libvirt parses a document only when its cpu mode is one of its modes,  *)
(* the vcpu count is positive and a file serial names its path.            *)
Valid(x) ==
    /\ x.vcpu # None => x.vcpu > 0
    /\ x.cpu # None => ~x.cpu.padded /\ x.cpu.word \in CpuModes
    /\ x.serial # None => (x.serial.type = "file" => x.serial.source # None)

(* A document without uuid gets a fresh one when parsed.                   *)
ParsedUuids(x) == IF x.uuid # None THEN {x.uuid} ELSE UUIDs \ issued

(* Mutant of Accepts: define does not look for the uuid under other names. *)
AcceptsAnyUuid(d, n, u) == d[n] # None => d[n].uuid = u

(* define refuses a name held under another uuid and a uuid held under    *)
(* another name.                                                           *)
Accepts(d, n, u) ==
    /\ d[n] # None => d[n].uuid = u
    /\ \A m \in Names \ {n} : d[m] # None => d[m].uuid # u

(* What libvirt stores: the document with its uuid, vcpu defaulting to 1. *)
Stored(x, u) ==
    [x EXCEPT !.uuid = u, !.vcpu = IF x.vcpu = None THEN 1 ELSE x.vcpu]

(* virsh define of x, on definitions d, succeeds.                          *)
DefineOk(d, x) ==
    /\ Valid(x)
    /\ \E u \in ParsedUuids(x) :
          /\ Accepts(d, x.name, u)
          /\ dom' = [d EXCEPT ![x.name] = Stored(x, u)]
          /\ issued' = issued \cup {u}

(* virsh define of x, on definitions d, fails: libvirt rejects x, or the *)
(* tool fails of its own accord.  (With every uuid of the model issued,   *)
(* a document without uuid can neither be defined nor refused.)            *)
DefineFails(d, x) ==
    \/ ToolFaults
    \/ ~Valid(x)
    \/ /\ ParsedUuids(x) # {}
       /\ \A u \in ParsedUuids(x) : ~Accepts(d, x.name, u)

(* A virsh call that fails leaves libvirt as it was.  It fails when its   *)
(* argument is rejected, and with ToolFaults for any reason.               *)
DumpFails(n) ==
    /\ dom[n] = None \/ ToolFaults
    /\ raised' = {"CmdError:dump"}
    /\ UNCHANGED <<dom, issued>>

(* Mutant of Redefine: a failing define is logged and not raised.          *)
RedefineSwallowDefine(n, y) ==
    \/ /\ ToolFaults
       /\ raised' = {"CmdError:undefine"}
       /\ UNCHANGED <<dom, issued>>
    \/ /\ DefineFails([dom EXCEPT ![n] = None], y)
       /\ raised' = {}
       /\ dom' = [dom EXCEPT ![n] = None]
       /\ UNCHANGED issued
    \/ /\ raised' = {}
       /\ DefineOk([dom EXCEPT ![n] = None], y)

(* vmxml.undefine(); vmxml.define(): the tail of every convenience        *)
(* setter.  Nothing is restored when define fails after undefine.          *)
Redefine(n, y) ==
    \/ /\ ToolFaults
       /\ raised' = {"CmdError:undefine"}
       /\ UNCHANGED <<dom, issued>>
    \/ /\ DefineFails([dom EXCEPT ![n] = None], y)
       /\ raised' = {"CmdError:define"}
       /\ dom' = [dom EXCEPT ![n] = None]
       /\ UNCHANGED issued
    \/ /\ raised' = {}
       /\ DefineOk([dom EXCEPT ![n] = None], y)

-----------------------------------------------------------------------------
(***************************************************************************)
(* The handlers.                                                           *)
(***************************************************************************)

(* Mutants of VmRename: the backup is copied after the XML is altered, or *)
(* the uuid element is kept when no uuid is given.                         *)
VmRenameLateBackup(newName, uuid) ==
    LET xml     == dom[vm.name]
        renamed == [xml EXCEPT !.name = newName, !.uuid = uuid]
        d1      == [dom EXCEPT ![vm.name] = None]
        vm1     == [vm EXCEPT !.uuid = uuid]
    IN /\ vmAlive' = FALSE
       /\ \/ /\ DumpFails(vm.name)
             /\ UNCHANGED vm
          \/ /\ xml # None
             /\ \/ /\ ToolFaults
                   /\ raised' = {"LibvirtXMLError:undefine"}
                   /\ UNCHANGED <<dom, issued, vm>>
                \/ /\ raised' = {}
                   /\ vm' = [vm1 EXCEPT !.name = newName]
                   /\ DefineOk(d1, renamed)
                \/ /\ DefineFails(d1, renamed)
                   /\ raised' = {"LibvirtXMLError:define"}
                   /\ vm' = vm1
                   /\ DefineOk(d1, renamed)
                \/ /\ DefineFails(d1, renamed)
                   /\ raised' = {"CmdError:define"}
                   /\ vm' = vm1
                   /\ dom' = d1
                   /\ UNCHANGED issued
       /\ UNCHANGED removeNoneRaises

VmRenameKeepUuid(newName, uuid) ==
    LET xml     == dom[vm.name]
        renamed == [xml EXCEPT !.name = newName,
                               !.uuid = IF uuid = None THEN xml.uuid ELSE uuid]
        d1      == [dom EXCEPT ![vm.name] = None]
        vm1     == [vm EXCEPT !.uuid = uuid]
    IN /\ vmAlive' = FALSE
       /\ \/ /\ DumpFails(vm.name)
             /\ UNCHANGED vm
          \/ /\ xml # None
             /\ \/ /\ ToolFaults
                   /\ raised' = {"LibvirtXMLError:undefine"}
                   /\ UNCHANGED <<dom, issued, vm>>
                \/ /\ raised' = {}
                   /\ vm' = [vm1 EXCEPT !.name = newName]
                   /\ DefineOk(d1, renamed)
                \/ /\ DefineFails(d1, renamed)
                   /\ raised' = {"LibvirtXMLError:define"}
                   /\ vm' = vm1
                   /\ DefineOk(d1, xml)
                \/ /\ DefineFails(d1, renamed)
                   /\ DefineFails(d1, xml)
                   /\ raised' = {"CmdError:define"}
                   /\ vm' = vm1
                   /\ dom' = d1
                   /\ UNCHANGED issued
       /\ UNCHANGED removeNoneRaises

(* VMXML.vm_rename(vm, new_name, uuid): stop the VM, dump, copy to backup, *)
(* undefine, rename and set or delete the uuid (vm.uuid follows), define;  *)
(* when define fails, define the backup and raise.                         *)
VmRename(newName, uuid) ==
    LET xml    == dom[vm.name]
        renamed == [xml EXCEPT !.name = newName, !.uuid = uuid]
        d1      == [dom EXCEPT ![vm.name] = None]
        vm1     == [vm EXCEPT !.uuid = uuid]
    IN /\ vmAlive' = FALSE
       /\ \/ /\ DumpFails(vm.name)
             /\ UNCHANGED vm
          \/ /\ xml # None
             /\ \/ /\ ToolFaults
                   /\ raised' = {"LibvirtXMLError:undefine"}
                   /\ UNCHANGED <<dom, issued, vm>>
                \/ /\ raised' = {}
                   /\ vm' = [vm1 EXCEPT !.name = newName]
                   /\ DefineOk(d1, renamed)
                \/ /\ DefineFails(d1, renamed)
                   /\ raised' = {"LibvirtXMLError:define"}
                   /\ vm' = vm1
                   /\ DefineOk(d1, xml)
                \/ /\ DefineFails(d1, renamed)
                   /\ DefineFails(d1, xml)
                   /\ raised' = {"CmdError:define"}
                   /\ vm' = vm1
                   /\ dom' = d1
                   /\ UNCHANGED issued
       /\ UNCHANGED removeNoneRaises

(* VMXML.set_vm_vcpus(vm_name, value): set the vcpu element, or delete it *)
(* when value is None, then undefine and define.                           *)
SetVmVcpus(n, value) ==
    /\ \/ DumpFails(n)
       \/ /\ dom[n] # None
          /\ Redefine(n, [dom[n] EXCEPT !.vcpu = value])
    /\ UNCHANGED <<vm, vmAlive, removeNoneRaises>>

(* get_primary_serial, or the pty serial on port 0 created when there is  *)
(* none.                                                                   *)
PrimarySerial(x) ==
    IF x.serial = None THEN [type |-> "pty", port |-> "0", source |-> None]
                       ELSE x.serial

(* VMXML.set_primary_serial(vm_name, type, port, path): set type and port, *)
(* then set the path of the source element, or remove that element when   *)
(* path is None.  find('source') is None when there is no source: setting *)
(* its path raises AttributeError, and remove(None) raises ValueError      *)
(* unless the ElementTree build asserts (AssertionError, caught).          *)
SetPrimarySerial(n, type, port, path) ==
    LET s      == [PrimarySerial(dom[n]) EXCEPT !.type = type, !.port = port]
        Commit(t) == Redefine(n, [dom[n] EXCEPT !.serial = t])
        Fail(e)   == raised' = {e} /\ UNCHANGED <<dom, issued>>
    IN /\ \/ DumpFails(n)
          \/ /\ dom[n] # None
             /\ \/ path # None /\ s.source # None /\ Commit([s EXCEPT !.source = path])
                \/ path # None /\ s.source = None /\ Fail("AttributeError")
                \/ path = None /\ s.source # None /\ Commit([s EXCEPT !.source = None])
                \/ path = None /\ s.source = None /\ ~removeNoneRaises /\ Commit(s)
                \/ path = None /\ s.source = None /\ removeNoneRaises /\ Fail("ValueError")
       /\ UNCHANGED <<vm, vmAlive, removeNoneRaises>>

(* VMXML.set_cpu_mode(vm_name, mode): check_cpu_mode validates the stripped *)
(* mode, the unstripped mode is written to the (possibly new) cpu element, *)
(* then undefine and define.                                               *)
SetCpuMode(n, mode) ==
    /\ \/ DumpFails(n)
       \/ /\ dom[n] # None
          /\ Strip(mode) \notin CpuModes
          /\ raised' = {"LibvirtXMLError:cpu_mode"}
          /\ UNCHANGED <<dom, issued>>
       \/ /\ dom[n] # None
          /\ Strip(mode) \in CpuModes
          /\ Redefine(n, [dom[n] EXCEPT !.cpu = mode])
    /\ UNCHANGED <<vm, vmAlive, removeNoneRaises>>

-----------------------------------------------------------------------------

(* What virsh dumpxml of a defined domain gives before the test runs.     *)
InitDoc(n) == {x \in StoredDoc : x.name = n /\ x.vcpu = 1 /\ Valid(x)}

Init ==
    /\ dom \in [Names -> (UNION {InitDoc(n) : n \in Names}) \cup {None}]
    /\ \A n \in Names : dom[n] # None => dom[n].name = n
    /\ \A m, n \in Defined : m # n => dom[m].uuid # dom[n].uuid
    /\ issued = {dom[n].uuid : n \in Defined}
    /\ \E n \in Defined : vm = [name |-> n, uuid |-> dom[n].uuid]
    /\ vmAlive \in BOOLEAN
    /\ raised = {}
    /\ removeNoneRaises \in BOOLEAN

Next ==
    \/ \E n \in Names, u \in UUIDs \cup {None} : VmRename(n, u)
    \/ \E n \in Names, v \in VcpuValues \cup {None} : SetVmVcpus(n, v)
    \/ \E n \in Names, t \in SerialTypes, p \in Ports, path \in Paths \cup {None} :
          SetPrimarySerial(n, t, p, path)
    \/ \E n \in Names, mode \in ModeInput : SetCpuMode(n, mode)

Spec == Init /\ [][Next]_vars

-----------------------------------------------------------------------------
(***************************************************************************)
(* Properties                                                              *)
(***************************************************************************)

(* Type invariant.  libvirt's definitions are stored documents filed      *)
(* under their own name; the VM object names a domain.                     *)
TypeOK ==
    /\ dom \in [Names -> StoredDoc \cup {None}]
    /\ \A n \in Defined : dom[n].name = n
    /\ issued \subseteq UUIDs
    /\ vm \in [name: Names, uuid: UUIDs \cup {None}]
    /\ vmAlive \in BOOLEAN
    /\ raised \subseteq Errors
    /\ removeNoneRaises \in BOOLEAN


(* The errors a virsh call raises.                                         *)
ToolErrors == {"CmdError:dump", "CmdError:undefine", "CmdError:define"}

(* A step of one of the convenience setters on domain n.                   *)
SetterStep(n) ==
    \/ \E v \in VcpuValues \cup {None} : SetVmVcpus(n, v)
    \/ \E t \in SerialTypes, p \in Ports, path \in Paths \cup {None} :
          SetPrimarySerial(n, t, p, path)
    \/ \E mode \in ModeInput : SetCpuMode(n, mode)

(* vm_rename's rollback (lines 154-159): when define of the renamed        *)
(* document fails and the backup is defined again, libvirt holds exactly   *)
(* the definitions it held before the call and the VM keeps its name.      *)
RenameRollback ==
    [][raised' = {"LibvirtXMLError:define"} => dom' = dom /\ vm'.name = vm.name]_vars

(* vm_rename without a uuid deletes the uuid element so that libvirt       *)
(* generates one: a rename that returns normally gives the domain, now     *)
(* filed under the new name, a uuid libvirt never held before and leaves   *)
(* the rest of its definition as it was.                                   *)
RenameFreshUuid ==
    [][\A nn \in Names :
         VmRename(nn, None) /\ raised' = {} =>
            /\ dom'[nn].uuid \notin issued
            /\ dom'[nn] = [dom[vm.name] EXCEPT !.name = nn, !.uuid = dom'[nn].uuid]
            /\ vm' = [name |-> nn, uuid |-> None]]_vars

(* No partial success reported as success: a convenience setter that      *)
(* returns normally has left its domain defined under its old uuid and     *)
(* every other definition as it was.                                       *)
SetterCommits ==
    [][\A n \in Names :
         SetterStep(n) /\ raised' = {} =>
            /\ dom'[n] # None
            /\ dom'[n].uuid = dom[n].uuid
            /\ \A m \in Names \ {n} : dom'[m] = dom[m]]_vars

(* The VM object describes its domain: when the domain it names is        *)
(* defined and the object holds a uuid, that uuid is the domain's.         *)
(* vm_rename assigns vm.uuid before define and does not restore it.        *)
VmObjectMatchesDefinition ==
    vm.name \in Defined /\ vm.uuid # None => dom[vm.name].uuid = vm.uuid

(* A convenience setter only replaces a definition: the domain it is      *)
(* called on is still defined after it, whether it returns or raises.      *)
SetterKeepsDefinition ==
    [][\A n \in Defined : SetterStep(n) => dom'[n] # None]_vars

(* When vm_rename leaves neither the old nor the new name defined, both   *)
(* the failed define and the failed redefinition of the backup are         *)
(* reported.                                                               *)
RenameDoubleFailureSurfacesBoth ==
    [][\A nn \in Names, u \in UUIDs \cup {None} :
         /\ vm.name \in Defined
         /\ VmRename(nn, u)
         /\ dom'[vm.name] = None /\ dom'[nn] = None
         => {"LibvirtXMLError:define", "CmdError:define"} \subseteq raised']_vars

(* set_primary_serial fails only when virsh does: whatever the serial      *)
(* device looks like, the call raises nothing but a virsh error.           *)
SerialSetterRaisesOnlyToolErrors ==
    [][\A n \in Names :
         (\E t \in SerialTypes, p \in Ports, path \in Paths \cup {None} :
             SetPrimarySerial(n, t, p, path))
         => raised' \subseteq ToolErrors]_vars

-----------------------------------------------------------------------------
(* The handlers implement DomainStore: libvirt's definitions are what the  *)
(* abstract store holds, and its documents are the stored documents.      *)
Store == INSTANCE DomainStore WITH defs <- dom, Docs <- StoredDoc

(* Every step of the handlers leaves libvirt's definitions alone, edits    *)
(* one in place under its name and uuid, loses one (define failing after   *)
(* undefine), or moves one to a name under a uuid no other domain holds.   *)
DomainStoreRefinement == Store!Spec

=============================================================================

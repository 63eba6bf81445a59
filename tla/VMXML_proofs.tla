---------------------------- MODULE VMXML_proofs ----------------------------
(***************************************************************************)
(* Proofs about VMXML, for every value of the constants that satisfies    *)
(* its assumptions.                                                        *)
(***************************************************************************)
EXTENDS VMXML, TLAPS

(* Well-formed definitions: stored documents filed under their own name.  *)
DefsOK(d) ==
    /\ d \in [Names -> StoredDoc \cup {None}]
    /\ \A n \in Names : d[n] # None => d[n].name = n

(* A function into a set is a function into any larger set.              *)
LEMMA FunctionSetMono ==
  ASSUME NEW S, NEW T, NEW D, S \subseteq T, NEW f \in [D -> S]
  PROVE  f \in [D -> T]
  OBVIOUS

-----------------------------------------------------------------------------
(* Lemmas on libvirt's side of the model.                                  *)

LEMMA DefsOKOfTypeOK == TypeOK => DefsOK(dom)
  BY DEF TypeOK, DefsOK, Defined

LEMMA TypeOKOfDefsOK ==
  ASSUME DefsOK(dom'), issued' \subseteq UUIDs,
         vm' \in [name: Names, uuid: UUIDs \cup {None}], vmAlive' \in BOOLEAN,
         raised' \subseteq Errors, removeNoneRaises' \in BOOLEAN
  PROVE  TypeOK'
  BY DEF TypeOK, DefsOK, Defined

(* Undefining a name keeps the definitions well formed.                    *)
LEMMA UndefineDefsOK ==
  ASSUME NEW d, DefsOK(d), NEW n \in Names
  PROVE  DefsOK([d EXCEPT ![n] = None])
  BY DEF DefsOK

(* A vcpu element's value, when present, is a natural number.              *)
LEMMA VcpuNat ==
  ASSUME NEW v \in VcpuValues \cup {1, None}, v # None
  PROVE  v \in Nat
  BY ValueAssumption

(* What libvirt stores from a document it accepts is a stored document.   *)
LEMMA StoredType ==
  ASSUME NEW x \in Doc, Valid(x), NEW u \in UUIDs
  PROVE  /\ Stored(x, u) \in StoredDoc
         /\ Stored(x, u).name = x.name
  <1>0. x.vcpu # None => x.vcpu > 0
    BY Zenon DEF Valid
  <1>1. x.vcpu # None => x.vcpu \in Nat \ {0}
    <2>1. x.vcpu \in VcpuValues \cup {1, None}
      BY DEF Doc
    <2>2. x.vcpu # None => x.vcpu \in Nat
      BY <2>1, VcpuNat
    <2>3. QED
      BY <1>0, <2>2
  <1>2. LET v == IF x.vcpu = None THEN 1 ELSE x.vcpu
        IN  v \in (VcpuValues \cup {1, None}) \cap (Nat \ {0})
    BY <1>1 DEF Doc
  <1>3. QED
    BY <1>2, NoneAssumption DEF Stored, StoredDoc, Doc

(* A successful define keeps the definitions well formed.                  *)
LEMMA DefineOkType ==
  ASSUME NEW d, DefsOK(d), NEW x \in Doc, issued \subseteq UUIDs,
         DefineOk(d, x)
  PROVE  DefsOK(dom') /\ issued' \subseteq UUIDs
  <1>1. PICK u \in ParsedUuids(x) :
            /\ dom' = [d EXCEPT ![x.name] = Stored(x, u)]
            /\ issued' = issued \cup {u}
    BY DEF DefineOk
  <1>2. u \in UUIDs
    BY <1>1 DEF ParsedUuids, Doc
  <1>3. Stored(x, u) \in StoredDoc /\ Stored(x, u).name = x.name
    BY <1>2, StoredType DEF DefineOk
  <1>4. x.name \in Names
    BY DEF Doc
  <1>5. QED
    BY <1>1, <1>2, <1>3, <1>4 DEF DefsOK

(* The undefine-then-define tail of the setters keeps the types.           *)
LEMMA RedefineType ==
  ASSUME TypeOK, NEW n \in Names, NEW y \in Doc, Redefine(n, y)
  PROVE  DefsOK(dom') /\ issued' \subseteq UUIDs /\ raised' \subseteq Errors
  <1>1. DefsOK([dom EXCEPT ![n] = None])
    BY DefsOKOfTypeOK, UndefineDefsOK
  <1>2. CASE /\ ToolFaults
             /\ raised' = {"CmdError:undefine"}
             /\ UNCHANGED <<dom, issued>>
    BY <1>2, DefsOKOfTypeOK DEF TypeOK, Errors
  <1>3. CASE /\ DefineFails([dom EXCEPT ![n] = None], y)
             /\ raised' = {"CmdError:define"}
             /\ dom' = [dom EXCEPT ![n] = None]
             /\ UNCHANGED issued
    BY <1>1, <1>3 DEF TypeOK, Errors
  <1>4. CASE raised' = {} /\ DefineOk([dom EXCEPT ![n] = None], y)
    BY <1>1, <1>4, DefineOkType DEF TypeOK
  <1>5. QED
    BY <1>2, <1>3, <1>4 DEF Redefine

(* A dump that fails changes nothing but what is raised.                   *)
LEMMA DumpFailsType ==
  ASSUME TypeOK, NEW n \in Names, DumpFails(n)
  PROVE  DefsOK(dom') /\ issued' \subseteq UUIDs /\ raised' \subseteq Errors
  BY DefsOKOfTypeOK DEF DumpFails, TypeOK, Errors

-----------------------------------------------------------------------------
(* One lemma per handler.                                                  *)

(* What a setter leaves alone, and what it must preserve, give TypeOK'.   *)
LEMMA SetterTypeOK ==
  ASSUME TypeOK, UNCHANGED <<vm, vmAlive, removeNoneRaises>>,
         DefsOK(dom'), issued' \subseteq UUIDs, raised' \subseteq Errors
  PROVE  TypeOK'
  BY TypeOKOfDefsOK DEF TypeOK

LEMMA SetVmVcpusType ==
  ASSUME TypeOK, NEW n \in Names, NEW v \in VcpuValues \cup {None},
         SetVmVcpus(n, v)
  PROVE  TypeOK'
  <1> SUFFICES DefsOK(dom') /\ issued' \subseteq UUIDs /\ raised' \subseteq Errors
    BY SetterTypeOK DEF SetVmVcpus
  <1>1. CASE DumpFails(n)
    BY <1>1, DumpFailsType
  <1>2. CASE dom[n] # None /\ Redefine(n, [dom[n] EXCEPT !.vcpu = v])
    <2>1. [dom[n] EXCEPT !.vcpu = v] \in Doc
      BY <1>2 DEF TypeOK, StoredDoc, Doc
    <2>2. QED
      BY <1>2, <2>1, RedefineType
  <1>3. QED
    BY <1>1, <1>2 DEF SetVmVcpus

LEMMA PrimarySerialType ==
  ASSUME NEW x \in Doc PROVE PrimarySerial(x) \in SerialDev
  BY ValueAssumption, NoneAssumption DEF PrimarySerial, Doc, SerialDev

LEMMA SetPrimarySerialType ==
  ASSUME TypeOK, NEW n \in Names, NEW t \in SerialTypes, NEW p \in Ports,
         NEW path \in Paths \cup {None}, SetPrimarySerial(n, t, p, path)
  PROVE  TypeOK'
  <1> SUFFICES DefsOK(dom') /\ issued' \subseteq UUIDs /\ raised' \subseteq Errors
    BY SetterTypeOK DEF SetPrimarySerial
  <1> DEFINE s == [PrimarySerial(dom[n]) EXCEPT !.type = t, !.port = p]
  <1>1. CASE DumpFails(n)
    BY <1>1, DumpFailsType
  <1>2. CASE /\ dom[n] # None
             /\ \E sd \in SerialDev : Redefine(n, [dom[n] EXCEPT !.serial = sd])
    <2>1. PICK sd \in SerialDev : Redefine(n, [dom[n] EXCEPT !.serial = sd])
      BY <1>2
    <2>2. [dom[n] EXCEPT !.serial = sd] \in Doc
      BY <1>2 DEF TypeOK, StoredDoc, Doc
    <2>3. QED
      BY <2>1, <2>2, RedefineType
  <1>3. CASE /\ raised' \in {{"AttributeError"}, {"ValueError"}}
             /\ UNCHANGED <<dom, issued>>
    BY <1>3, DefsOKOfTypeOK DEF TypeOK, Errors
  <1>4. <1>1!1 \/ <1>2!1 \/ <1>3!1
    <2>1. dom[n] # None => s \in SerialDev
      <3>1. dom[n] # None => PrimarySerial(dom[n]) \in SerialDev
        BY PrimarySerialType DEF TypeOK, StoredDoc
      <3>2. QED
        BY <3>1 DEF SerialDev
    <2>2. dom[n] # None =>
            /\ [s EXCEPT !.source = path] \in SerialDev
            /\ [s EXCEPT !.source = None] \in SerialDev
      BY <2>1 DEF SerialDev
    <2>3. QED
      BY <2>1, <2>2 DEF SetPrimarySerial
  <1>5. QED
    BY <1>1, <1>2, <1>3, <1>4

LEMMA SetCpuModeType ==
  ASSUME TypeOK, NEW n \in Names, NEW mode \in ModeInput, SetCpuMode(n, mode)
  PROVE  TypeOK'
  <1> SUFFICES DefsOK(dom') /\ issued' \subseteq UUIDs /\ raised' \subseteq Errors
    BY SetterTypeOK DEF SetCpuMode
  <1>1. CASE DumpFails(n)
    BY <1>1, DumpFailsType
  <1>2. CASE /\ raised' = {"LibvirtXMLError:cpu_mode"}
             /\ UNCHANGED <<dom, issued>>
    BY <1>2, DefsOKOfTypeOK DEF TypeOK, Errors
  <1>3. CASE dom[n] # None /\ Redefine(n, [dom[n] EXCEPT !.cpu = mode])
    <2>1. [dom[n] EXCEPT !.cpu = mode] \in Doc
      BY <1>3 DEF TypeOK, StoredDoc, Doc
    <2>2. QED
      BY <1>3, <2>1, RedefineType
  <1>4. QED
    BY <1>1, <1>2, <1>3 DEF SetCpuMode

VmType == [name: Names, uuid: UUIDs \cup {None}]

LEMMA VmRenameType ==
  ASSUME TypeOK, NEW nn \in Names, NEW u \in UUIDs \cup {None}, VmRename(nn, u)
  PROVE  TypeOK'
  <1> DEFINE xml     == dom[vm.name]
             renamed == [xml EXCEPT !.name = nn, !.uuid = u]
             d1      == [dom EXCEPT ![vm.name] = None]
             vm1     == [vm EXCEPT !.uuid = u]
  <1> SUFFICES /\ DefsOK(dom') /\ issued' \subseteq UUIDs /\ raised' \subseteq Errors
               /\ vm' \in VmType
    BY TypeOKOfDefsOK DEF VmRename, TypeOK, VmType
  <1>1. vm1 \in VmType /\ [vm1 EXCEPT !.name = nn] \in VmType
    BY DEF TypeOK, VmType
  <1>2. DefsOK(d1)
    BY DefsOKOfTypeOK, UndefineDefsOK DEF TypeOK
  <1>3. xml # None => xml \in Doc /\ renamed \in Doc
    <2>1. xml # None => xml \in Doc
      BY DEF TypeOK, StoredDoc
    <2>2. QED
      BY <2>1 DEF Doc
  <1>4. vm \in VmType /\ issued \subseteq UUIDs /\ DefsOK(dom)
    BY DefsOKOfTypeOK DEF TypeOK, VmType
  <1>5. CASE DumpFails(vm.name) /\ UNCHANGED vm
    BY <1>4, <1>5, DumpFailsType DEF TypeOK
  <1>6. CASE /\ raised' = {"LibvirtXMLError:undefine"}
             /\ UNCHANGED <<dom, issued, vm>>
    BY <1>4, <1>6 DEF Errors
  <1>7. CASE /\ xml # None
             /\ vm' = [vm1 EXCEPT !.name = nn]
             /\ raised' = {}
             /\ DefineOk(d1, renamed)
    BY <1>1, <1>2, <1>3, <1>4, <1>7, DefineOkType
  <1>8. CASE /\ xml # None
             /\ raised' = {"LibvirtXMLError:define"}
             /\ vm' = vm1
             /\ DefineOk(d1, xml)
    BY <1>1, <1>2, <1>3, <1>4, <1>8, DefineOkType DEF Errors
  <1>9. CASE /\ raised' = {"CmdError:define"}
             /\ vm' = vm1
             /\ dom' = d1
             /\ UNCHANGED issued
    BY <1>1, <1>2, <1>4, <1>9 DEF Errors
  <1>10. QED
    BY <1>5, <1>6, <1>7, <1>8, <1>9 DEF VmRename

-----------------------------------------------------------------------------

(* The initial states satisfy the type invariant.                         *)
LEMMA InitTypeOK == Init => TypeOK
  <1> SUFFICES ASSUME Init PROVE TypeOK
    OBVIOUS
  <1>1. dom \in [Names -> StoredDoc \cup {None}]
    <2>1. UNION {InitDoc(n) : n \in Names} \subseteq StoredDoc
      BY DEF InitDoc
    <2>2. dom \in [Names -> (UNION {InitDoc(n) : n \in Names}) \cup {None}]
      BY DEF Init
    <2>3. (UNION {InitDoc(n) : n \in Names}) \cup {None} \subseteq StoredDoc \cup {None}
      BY <2>1
    <2>4. QED
      BY <2>2, <2>3, FunctionSetMono
  <1>2. \A n \in Defined : dom[n].name = n
    BY DEF Init, Defined
  <1>3. issued \subseteq UUIDs
    BY <1>1 DEF Init, Defined, StoredDoc, Doc
  <1>4. vm \in [name: Names, uuid: UUIDs \cup {None}]
    BY <1>1 DEF Init, Defined, StoredDoc, Doc
  <1>5. QED
    BY <1>1, <1>2, <1>3, <1>4 DEF Init, TypeOK

(* The type invariant holds in every state of every behaviour: libvirt    *)
(* only ever holds documents with a uuid and a positive vcpu count filed   *)
(* under their own name, and the VM object always names a domain.          *)
THEOREM TypeCorrect == Spec => []TypeOK
  <1>1. Init => TypeOK
    BY InitTypeOK
  <1>2. TypeOK /\ [Next]_vars => TypeOK'
    <2> SUFFICES ASSUME TypeOK, [Next]_vars PROVE TypeOK'
      OBVIOUS
    <2>1. CASE \E n \in Names, u \in UUIDs \cup {None} : VmRename(n, u)
      BY <2>1, VmRenameType
    <2>2. CASE \E n \in Names, v \in VcpuValues \cup {None} : SetVmVcpus(n, v)
      BY <2>2, SetVmVcpusType
    <2>3. CASE \E n \in Names, t \in SerialTypes, p \in Ports,
                  path \in Paths \cup {None} : SetPrimarySerial(n, t, p, path)
      BY <2>3, SetPrimarySerialType
    <2>4. CASE \E n \in Names, mode \in ModeInput : SetCpuMode(n, mode)
      BY <2>4, SetCpuModeType
    <2>5. CASE UNCHANGED vars
      BY <2>5 DEF vars, TypeOK, Defined
    <2>6. QED
      BY <2>1, <2>2, <2>3, <2>4, <2>5 DEF Next
  <1>3. QED
    BY <1>1, <1>2, PTL DEF Spec

-----------------------------------------------------------------------------
(***************************************************************************)
(* vm_rename's rollback restores libvirt's definitions.  A step raises     *)
(* LibvirtXMLError:define only in vm_rename, after define of the renamed   *)
(* document failed and the backup (the dumped document) was defined again. *)
(* libvirt stores that document unchanged, under the name it was dumped    *)
(* from, so the definitions are those before the call.                    *)
(***************************************************************************)

(* Redefining a stored document under its own name and uuid restores the  *)
(* definitions it was undefined from.                                      *)
LEMMA BackupRestores ==
  ASSUME TypeOK, NEW n \in Defined,
         DefineOk([dom EXCEPT ![n] = None], dom[n])
  PROVE  dom' = dom
  <1> DEFINE x == dom[n]
  <1>1. x \in StoredDoc /\ x.name = n
    BY DEF TypeOK, Defined
  <1>2. ParsedUuids(x) = {x.uuid}
    BY <1>1 DEF ParsedUuids, StoredDoc
  <1>3. x.vcpu # None
    BY <1>1, NoneAssumption DEF StoredDoc
  <1>6. Stored(x, x.uuid) = x
    BY <1>1, <1>3 DEF Stored, StoredDoc, Doc
  <1>4. dom' = [[dom EXCEPT ![n] = None] EXCEPT ![n] = x]
    BY <1>1, <1>2, <1>6 DEF DefineOk
  <1>5. QED
    BY <1>4 DEF TypeOK, Defined

(* The errors each setter can raise.                                       *)
SetterErrors == {{"CmdError:dump"}, {"CmdError:undefine"}, {"CmdError:define"},
                 {}, {"LibvirtXMLError:cpu_mode"}, {"AttributeError"},
                 {"ValueError"}}

LEMMA RedefineRaised ==
  ASSUME NEW n, NEW y, Redefine(n, y) PROVE raised' \in SetterErrors
  BY DEF Redefine, SetterErrors

LEMMA SetterRaised ==
  ASSUME NEW n \in Names,
         \/ \E v \in VcpuValues \cup {None} : SetVmVcpus(n, v)
         \/ \E t \in SerialTypes, p \in Ports, path \in Paths \cup {None} :
               SetPrimarySerial(n, t, p, path)
         \/ \E mode \in ModeInput : SetCpuMode(n, mode)
  PROVE  raised' \in SetterErrors
  BY RedefineRaised DEF SetVmVcpus, SetPrimarySerial, SetCpuMode, DumpFails,
                        SetterErrors

(* The rollback property RenameRollback holds in every behaviour.          *)
THEOREM RenameRollbackHolds == Spec => RenameRollback
  <1>1. TypeOK /\ [Next]_vars =>
          [raised' = {"LibvirtXMLError:define"} => dom' = dom /\ vm'.name = vm.name]_vars
    <2> SUFFICES ASSUME TypeOK, Next, raised' = {"LibvirtXMLError:define"}
                 PROVE  dom' = dom /\ vm'.name = vm.name
      BY DEF vars
    <2>1. {"LibvirtXMLError:define"} \notin SetterErrors
      BY DEF SetterErrors
    <2>2. CASE \E n \in Names, u \in UUIDs \cup {None} : VmRename(n, u)
      <3>1. PICK nn \in Names, u \in UUIDs \cup {None} : VmRename(nn, u)
        BY <2>2
      <3> DEFINE xml == dom[vm.name]
                 d1  == [dom EXCEPT ![vm.name] = None]
      <3>2. /\ xml # None
            /\ vm' = [vm EXCEPT !.uuid = u]
            /\ DefineOk(d1, xml)
        BY <3>1 DEF VmRename, DumpFails
      <3>3. vm.name \in Defined
        BY <3>2 DEF TypeOK, Defined
      <3>4. dom' = dom
        BY <3>2, <3>3, BackupRestores
      <3>5. vm'.name = vm.name
        BY <3>2 DEF TypeOK
      <3>6. QED
        BY <3>4, <3>5
    <2>3. CASE \E n \in Names, v \in VcpuValues \cup {None} : SetVmVcpus(n, v)
      BY <2>1, <2>3, SetterRaised
    <2>4. CASE \E n \in Names, t \in SerialTypes, p \in Ports,
                  path \in Paths \cup {None} : SetPrimarySerial(n, t, p, path)
      BY <2>1, <2>4, SetterRaised
    <2>5. CASE \E n \in Names, mode \in ModeInput : SetCpuMode(n, mode)
      BY <2>1, <2>5, SetterRaised
    <2>6. QED
      BY <2>2, <2>3, <2>4, <2>5 DEF Next
  <1>2. QED
    BY <1>1, TypeCorrect, PTL DEF Spec, RenameRollback

-----------------------------------------------------------------------------
(***************************************************************************)
(* A setter that returns has committed.  Only the third branch of          *)
(* Redefine returns normally; it defines the edited document, which keeps  *)
(* the dumped document's name and uuid, so libvirt parses that uuid and    *)
(* files the document under the same name.                                 *)
(***************************************************************************)

(* Defining an edit of a stored document, with its name and uuid, after  *)
(* undefining it stores the edit under that name and uuid.                 *)
LEMMA RedefineDefines ==
  ASSUME TypeOK, NEW n \in Defined, NEW y \in Doc,
         y.name = n, y.uuid = dom[n].uuid,
         DefineOk([dom EXCEPT ![n] = None], y)
  PROVE  /\ Stored(y, y.uuid) \in StoredDoc
         /\ Stored(y, y.uuid).name = n
         /\ Stored(y, y.uuid).uuid = dom[n].uuid
         /\ dom' = [dom EXCEPT ![n] = Stored(y, y.uuid)]
  <1>1. y.uuid \in UUIDs /\ ParsedUuids(y) = {y.uuid}
    BY NoneAssumption DEF TypeOK, Defined, StoredDoc, Doc, ParsedUuids
  <1>2. /\ dom' = [[dom EXCEPT ![n] = None] EXCEPT ![n] = Stored(y, y.uuid)]
        /\ Valid(y)
    BY <1>1 DEF DefineOk
  <1>3. Stored(y, y.uuid) \in StoredDoc /\ Stored(y, y.uuid).name = n
    BY <1>1, <1>2, StoredType
  <1>4. Stored(y, y.uuid).uuid = y.uuid
    BY DEF Stored, Doc
  <1>5. QED
    BY <1>2, <1>3, <1>4

(* Redefining an edit of a stored document that returns leaves it defined *)
(* under its uuid and every other definition alone.                        *)
LEMMA RedefineCommits ==
  ASSUME TypeOK, NEW n \in Defined, NEW y \in Doc,
         y.name = n, y.uuid = dom[n].uuid, Redefine(n, y), raised' = {}
  PROVE  /\ dom'[n] # None /\ dom'[n].uuid = dom[n].uuid
         /\ \A m \in Names \ {n} : dom'[m] = dom[m]
  <1>1. DefineOk([dom EXCEPT ![n] = None], y)
    BY DEF Redefine
  <1>2. /\ Stored(y, y.uuid) \in StoredDoc
        /\ Stored(y, y.uuid).uuid = dom[n].uuid
        /\ dom' = [dom EXCEPT ![n] = Stored(y, y.uuid)]
    BY <1>1, RedefineDefines
  <1>3. n \in Names /\ dom \in [Names -> StoredDoc \cup {None}]
    BY DEF TypeOK, Defined
  <1>4. Stored(y, y.uuid) # None
    BY <1>2, NoneNotDoc DEF StoredDoc
  <1>5. QED
    BY <1>2, <1>3, <1>4

(* The edited document of a setter keeps the dumped document's name and   *)
(* uuid.                                                                   *)
LEMMA EditDoc ==
  ASSUME TypeOK, NEW n \in Defined, NEW f \in {"vcpu", "cpu", "serial"},
         NEW v, [dom[n] EXCEPT ![f] = v] \in Doc
  PROVE  LET y == [dom[n] EXCEPT ![f] = v]
         IN  y \in Doc /\ y.name = n /\ y.uuid = dom[n].uuid
  BY DEF TypeOK, Defined, StoredDoc, Doc

(* A setter step either raises and leaves libvirt alone, or goes through  *)
(* Redefine with an edit of the domain's definition.                       *)
LEMMA SetterShape ==
  ASSUME TypeOK, NEW n \in Names, SetterStep(n)
  PROVE  \/ raised' # {} /\ UNCHANGED dom
         \/ /\ n \in Defined
            /\ \E y \in Doc : y.name = n /\ y.uuid = dom[n].uuid /\ Redefine(n, y)
  <1>1. CASE \E v \in VcpuValues \cup {None} : SetVmVcpus(n, v)
    <2>1. PICK v \in VcpuValues \cup {None} : SetVmVcpus(n, v)
      BY <1>1
    <2>2. CASE DumpFails(n)
      BY <2>2 DEF DumpFails
    <2>3. CASE dom[n] # None /\ Redefine(n, [dom[n] EXCEPT !.vcpu = v])
      <3>1. n \in Defined
        BY <2>3 DEF Defined
      <3>2. [dom[n] EXCEPT !.vcpu = v] \in Doc
        BY <2>3 DEF TypeOK, StoredDoc, Doc
      <3>3. QED
        BY <2>3, <3>1, <3>2, EditDoc
    <2>4. QED
      BY <2>1, <2>2, <2>3 DEF SetVmVcpus
  <1>2. CASE \E mode \in ModeInput : SetCpuMode(n, mode)
    <2>1. PICK mode \in ModeInput : SetCpuMode(n, mode)
      BY <1>2
    <2>2. CASE DumpFails(n)
      BY <2>2 DEF DumpFails
    <2>5. CASE raised' = {"LibvirtXMLError:cpu_mode"} /\ UNCHANGED <<dom, issued>>
      BY <2>5
    <2>3. CASE dom[n] # None /\ Redefine(n, [dom[n] EXCEPT !.cpu = mode])
      <3>1. n \in Defined
        BY <2>3 DEF Defined
      <3>2. [dom[n] EXCEPT !.cpu = mode] \in Doc
        BY <2>3 DEF TypeOK, StoredDoc, Doc
      <3>3. QED
        BY <2>3, <3>1, <3>2, EditDoc
    <2>4. QED
      BY <2>1, <2>2, <2>3, <2>5 DEF SetCpuMode
  <1>3. CASE \E t \in SerialTypes, p \in Ports, path \in Paths \cup {None} :
                SetPrimarySerial(n, t, p, path)
    <2>1. PICK t \in SerialTypes, p \in Ports, path \in Paths \cup {None} :
                SetPrimarySerial(n, t, p, path)
      BY <1>3
    <2> DEFINE s == [PrimarySerial(dom[n]) EXCEPT !.type = t, !.port = p]
    <2>2. CASE raised' # {} /\ UNCHANGED dom
      BY <2>2
    <2>3. CASE /\ dom[n] # None
               /\ \E sd \in {[s EXCEPT !.source = path], [s EXCEPT !.source = None], s} :
                     Redefine(n, [dom[n] EXCEPT !.serial = sd])
      <3>1. n \in Defined
        BY <2>3 DEF Defined
      <3>2. PICK sd \in {[s EXCEPT !.source = path], [s EXCEPT !.source = None], s} :
                  Redefine(n, [dom[n] EXCEPT !.serial = sd])
        BY <2>3
      <3>3. sd \in SerialDev
        <4>1. PrimarySerial(dom[n]) \in SerialDev
          BY <2>3, PrimarySerialType DEF TypeOK, StoredDoc
        <4>2. QED
          BY <4>1 DEF SerialDev
      <3>4. [dom[n] EXCEPT !.serial = sd] \in Doc
        BY <2>3, <3>3 DEF TypeOK, StoredDoc, Doc
      <3>5. QED
        BY <3>1, <3>2, <3>4, EditDoc
    <2>4. QED
      BY <2>1, <2>2, <2>3 DEF SetPrimarySerial, DumpFails
  <1>4. QED
    BY <1>1, <1>2, <1>3 DEF SetterStep

(* A setter that returns went through Redefine's define of its edit.      *)
LEMMA SetterRedefines ==
  ASSUME TypeOK, NEW n \in Names, SetterStep(n), raised' = {}
  PROVE  /\ n \in Defined
         /\ \E y \in Doc : y.name = n /\ y.uuid = dom[n].uuid /\ Redefine(n, y)
  BY SetterShape

(* SetterCommits holds in every behaviour: a convenience setter that      *)
(* returns normally has left its domain defined under its old uuid and    *)
(* every other definition as it was.                                       *)
THEOREM SetterCommitsHolds == Spec => SetterCommits
  <1>1. TypeOK => [\A n \in Names :
                     SetterStep(n) /\ raised' = {} =>
                        /\ dom'[n] # None
                        /\ dom'[n].uuid = dom[n].uuid
                        /\ \A m \in Names \ {n} : dom'[m] = dom[m]]_vars
    <2> SUFFICES ASSUME TypeOK, NEW n \in Names, SetterStep(n), raised' = {}
                 PROVE  /\ dom'[n] # None
                        /\ dom'[n].uuid = dom[n].uuid
                        /\ \A m \in Names \ {n} : dom'[m] = dom[m]
      OBVIOUS
    <2>1. n \in Defined
      BY SetterRedefines
    <2>2. PICK y \in Doc : y.name = n /\ y.uuid = dom[n].uuid /\ Redefine(n, y)
      BY SetterRedefines
    <2>3. QED
      BY <2>1, <2>2, RedefineCommits
  <1>2. QED
    BY <1>1, TypeCorrect, PTL DEF Spec, SetterCommits

-----------------------------------------------------------------------------
(***************************************************************************)
(* vm_rename without a uuid.  Only the branch where the renamed document   *)
(* is defined returns normally.  That document has no uuid element, so     *)
(* libvirt generates one it has not issued, and Stored leaves the rest of  *)
(* the dumped document as it was: its vcpu is set already.                 *)
(***************************************************************************)

(* RenameFreshUuid holds in every behaviour: a vm_rename without uuid     *)
(* that returns normally files the renamed definition under a uuid libvirt *)
(* never held, with the rest of the definition unchanged, and leaves the   *)
(* VM object named after it with no uuid.                                  *)
THEOREM RenameFreshUuidHolds == Spec => RenameFreshUuid
  <1>1. TypeOK => [\A nn \in Names :
                     VmRename(nn, None) /\ raised' = {} =>
                        /\ dom'[nn].uuid \notin issued
                        /\ dom'[nn] = [dom[vm.name] EXCEPT !.name = nn,
                                                           !.uuid = dom'[nn].uuid]
                        /\ vm' = [name |-> nn, uuid |-> None]]_vars
    <2> SUFFICES ASSUME TypeOK, NEW nn \in Names, VmRename(nn, None), raised' = {}
                 PROVE  /\ dom'[nn].uuid \notin issued
                        /\ dom'[nn] = [dom[vm.name] EXCEPT !.name = nn,
                                                           !.uuid = dom'[nn].uuid]
                        /\ vm' = [name |-> nn, uuid |-> None]
      OBVIOUS
    <2> DEFINE xml     == dom[vm.name]
               renamed == [xml EXCEPT !.name = nn, !.uuid = None]
               d1      == [dom EXCEPT ![vm.name] = None]
    <2>1. /\ xml # None
          /\ vm' = [[vm EXCEPT !.uuid = None] EXCEPT !.name = nn]
          /\ DefineOk(d1, renamed)
      BY DEF VmRename, DumpFails
    <2>2. vm.name \in Names /\ xml \in StoredDoc
      BY <2>1 DEF TypeOK
    <2>3. renamed.name = nn /\ ParsedUuids(renamed) = UUIDs \ issued
      BY <2>2 DEF StoredDoc, Doc, ParsedUuids
    <2>4. PICK u \in UUIDs \ issued : dom' = [d1 EXCEPT ![nn] = Stored(renamed, u)]
      BY <2>1, <2>3 DEF DefineOk
    <2>5. dom'[nn] = [xml EXCEPT !.name = nn, !.uuid = u]
      <3>1. dom'[nn] = Stored(renamed, u)
        BY <2>4 DEF TypeOK
      <3>2. Stored(renamed, u) = [xml EXCEPT !.name = nn, !.uuid = u]
        <4>1. xml.vcpu # None
          BY <2>2, NoneAssumption DEF StoredDoc
        <4>2. QED
          BY <2>2, <4>1 DEF Stored, StoredDoc, Doc
      <3>3. QED
        BY <3>1, <3>2
    <2>6. dom'[nn].uuid = u
      BY <2>2, <2>5 DEF StoredDoc, Doc
    <2>7. vm' = [name |-> nn, uuid |-> None]
      BY <2>1 DEF TypeOK
    <2>8. QED
      BY <2>4, <2>5, <2>6, <2>7
  <1>2. QED
    BY <1>1, TypeCorrect, PTL DEF Spec, RenameFreshUuid

-----------------------------------------------------------------------------
(***************************************************************************)
(* The handlers implement DomainStore.  A handler step that leaves dom     *)
(* alone is a stutter of the store; a define that fails after undefine is  *)
(* Lose; a setter's redefine that succeeds is Edit; a rename that defines  *)
(* the renamed document is Move, libvirt's Accepts being the store's.      *)
(* vm_rename's rollback restores dom (BackupRestores) and so stutters.     *)
(***************************************************************************)

LEMMA StoreLose ==
  ASSUME NEW n \in Defined, dom' = [dom EXCEPT ![n] = None]
  PROVE  [Store!Next]_dom
  BY DEF Store!Next, Store!Lose, Defined

LEMMA StoreEdit ==
  ASSUME TypeOK, NEW n \in Defined, NEW x \in StoredDoc,
         x.name = n, x.uuid = dom[n].uuid, dom' = [dom EXCEPT ![n] = x]
  PROVE  [Store!Next]_dom
  <1>1. n \in Names /\ dom'[n] = x
    BY DEF TypeOK, Defined
  <1>2. Store!Edit(n, dom'[n])
    BY <1>1 DEF Store!Edit, Defined
  <1>3. QED
    BY <1>1, <1>2 DEF Store!Next

LEMMA StoreMove ==
  ASSUME TypeOK, NEW n \in Defined, NEW to \in Names, NEW x \in StoredDoc,
         x.name = to, Accepts([dom EXCEPT ![n] = None], to, x.uuid),
         dom' = [[dom EXCEPT ![n] = None] EXCEPT ![to] = x]
  PROVE  [Store!Next]_dom
  <1>1. n \in Names /\ dom'[to] = x
    BY DEF TypeOK, Defined
  <1>2. Store!Move(n, to, dom'[to])
    BY <1>1 DEF Store!Move, Store!Accepts, Accepts, Defined
  <1>3. QED
    BY <1>1, <1>2 DEF Store!Next

(* Redefine of an edit with the definition's name and uuid is a stutter,  *)
(* a Lose or an Edit.                                                      *)
LEMMA RedefineRefines ==
  ASSUME TypeOK, NEW n \in Defined, NEW y \in Doc,
         y.name = n, y.uuid = dom[n].uuid, Redefine(n, y)
  PROVE  [Store!Next]_dom
  <1>1. CASE UNCHANGED dom
    BY <1>1
  <1>2. CASE dom' = [dom EXCEPT ![n] = None]
    BY <1>2, StoreLose
  <1>3. CASE DefineOk([dom EXCEPT ![n] = None], y)
    BY <1>3, RedefineDefines, StoreEdit
  <1>4. QED
    BY <1>1, <1>2, <1>3 DEF Redefine

LEMMA SetterRefines ==
  ASSUME TypeOK, NEW n \in Names, SetterStep(n)
  PROVE  [Store!Next]_dom
  <1>1. CASE UNCHANGED dom
    BY <1>1
  <1>2. CASE /\ n \in Defined
             /\ \E y \in Doc : y.name = n /\ y.uuid = dom[n].uuid /\ Redefine(n, y)
    BY <1>2, RedefineRefines
  <1>3. QED
    BY <1>1, <1>2, SetterShape

LEMMA VmRenameRefines ==
  ASSUME TypeOK, NEW nn \in Names, NEW u \in UUIDs \cup {None}, VmRename(nn, u)
  PROVE  [Store!Next]_dom
  <1> DEFINE xml     == dom[vm.name]
             renamed == [xml EXCEPT !.name = nn, !.uuid = u]
             d1      == [dom EXCEPT ![vm.name] = None]
  <1>0. xml # None => vm.name \in Defined /\ xml \in StoredDoc
    BY DEF TypeOK, Defined
  <1>1. CASE UNCHANGED dom
    BY <1>1
  <1>2. CASE xml # None /\ DefineOk(d1, renamed)
    <2>1. renamed \in Doc /\ renamed.name = nn
      BY <1>0, <1>2 DEF StoredDoc, Doc
    <2>2. PICK w \in ParsedUuids(renamed) :
              /\ Accepts(d1, nn, w)
              /\ dom' = [d1 EXCEPT ![nn] = Stored(renamed, w)]
      BY <1>2, <2>1 DEF DefineOk
    <2>3. w \in UUIDs
      BY <2>1 DEF ParsedUuids, Doc
    <2>4. Stored(renamed, w) \in StoredDoc /\ Stored(renamed, w).name = nn
      BY <1>2, <2>1, <2>3, StoredType DEF DefineOk
    <2>5. Stored(renamed, w).uuid = w
      BY <2>1 DEF Stored, Doc
    <2>6. QED
      BY <1>0, <1>2, <2>2, <2>4, <2>5, StoreMove
  <1>3. CASE xml # None /\ DefineOk(d1, xml)
    BY <1>0, <1>3, BackupRestores
  <1>4. CASE xml # None /\ dom' = d1
    BY <1>0, <1>4, StoreLose
  <1>5. QED
    BY <1>1, <1>2, <1>3, <1>4 DEF VmRename, DumpFails

(* The handlers implement DomainStore (DomainStoreRefinement): every      *)
(* behaviour of vm_rename and the setters, seen through libvirt's          *)
(* definitions, is a behaviour of the store.                               *)
THEOREM StoreRefinement == Spec => DomainStoreRefinement
  <1>1. Init => Store!Init
    <2> SUFFICES ASSUME Init PROVE Store!Init
      OBVIOUS
    <2>1. TypeOK
      BY InitTypeOK
    <2>2. QED
      BY <2>1 DEF Init, TypeOK, Defined, Store!Init, Store!Held
  <1>2. TypeOK /\ [Next]_vars => [Store!Next]_dom
    <2> SUFFICES ASSUME TypeOK, [Next]_vars PROVE [Store!Next]_dom
      OBVIOUS
    <2>1. CASE \E n \in Names, u \in UUIDs \cup {None} : VmRename(n, u)
      BY <2>1, VmRenameRefines
    <2>2. CASE \E n \in Names : SetterStep(n)
      BY <2>2, SetterRefines
    <2>3. CASE UNCHANGED vars
      BY <2>3 DEF vars
    <2>4. QED
      BY <2>1, <2>2, <2>3 DEF Next, SetterStep
  <1>3. QED
    BY <1>1, <1>2, TypeCorrect, PTL DEF Spec, DomainStoreRefinement, Store!Spec

(* No two domains libvirt holds share a uuid, in every behaviour of the   *)
(* handlers: it holds in the store, which the handlers implement.          *)
COROLLARY UniqueUuidsHold == Spec => []Store!UniqueUuids
  BY StoreRefinement, Store!UniqueUuidsHold, PTL DEF DomainStoreRefinement

=============================================================================

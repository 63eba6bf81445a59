---------------------------- MODULE VMXMLQueries ----------------------------
(***************************************************************************)
(* The read-only queries of VMXML in src/virttest/libvirt_xml/vm_xml.py:  *)
(* get_disk_blk and get_disk_count, which go through get_disk_all, and     *)
(* get_numa_params.  Each dumps the named domain's definition from        *)
(* libvirt and reads it; between queries the test defines and undefines  *)
(* domains through VMXML.define and VMXML.undefine.                        *)
(*                                                                         *)
(* A definition keeps only what the queries read: the target dev of each  *)
(* <disk> of <devices>, in document order, and the <numatune> element     *)
(* with its <memory> child and that child's mode and nodeset attributes.  *)
(***************************************************************************)
EXTENDS Naturals, FiniteSets, Sequences, Functions

CONSTANTS
    Names,           \* domain names
    Devs,            \* target dev strings ("vda", "hdc", ...)
    NumaModes,       \* numatune memory mode strings
    Nodesets,        \* numatune memory nodeset strings
    MaxDisks,        \* bound on the number of disks of a definition
    None,            \* an absent element or attribute; no value
    DistinctTargets, \* libvirt refuses two disks on one target dev
    ToolFaults       \* TRUE when any virsh call may fail of its own accord

ASSUME QueryAssumption ==
    /\ MaxDisks \in Nat
    /\ None \notin Devs /\ None \notin Nat
    /\ DistinctTargets \in BOOLEAN /\ ToolFaults \in BOOLEAN

(* The <memory> child of <numatune>; get() returns None for an absent     *)
(* attribute.                                                              *)
NumaMemory == [mode: NumaModes \cup {None}, nodeset: Nodesets \cup {None}]

(* A definition as the queries see it.                                     *)
QDoc == [disks: UNION {[1..k -> Devs] : k \in 0..MaxDisks},
         numatune: {None} \cup [memory: NumaMemory \cup {None}]]

(* Mutant of TargetsOk: libvirt accepts any targets.                        *)
TargetsAny(x) == TRUE

(* libvirt's check of target devs on define.                               *)
TargetsOk(x) ==
    DistinctTargets => \A i, j \in DOMAIN x.disks : x.disks[i] = x.disks[j] => i = j

VARIABLES
    dom,     \* libvirt's persistent definitions: name -> definition
    blk,     \* what the last get_disk_blk returned
    count,   \* what the last get_disk_count returned
    numa,    \* what the last get_numa_params returned
    raised   \* what the last call raised: {} when it returned

vars == <<dom, blk, count, numa, raised>>

-----------------------------------------------------------------------------
(* get_disk_all: the dictionary from target dev to disk node built by the *)
(* loop over findall('disk'); a node is its position, and of two nodes on *)
(* one dev the later overwrites the earlier.                               *)
DiskAll(x) ==
    [d \in Range(x.disks) |->
        CHOOSE i \in DOMAIN x.disks :
           /\ x.disks[i] = d
           /\ \A j \in DOMAIN x.disks : x.disks[j] = d => j <= i]

(* The empty dict.                                                         *)
NoParams == [k \in {} |-> None]

(* Mutant of NumaParams: the nodeset is reported only when it is set.     *)
NumaParamsPartial(x) ==
    IF x.numatune = None \/ x.numatune.memory = None THEN NoParams
    ELSE IF x.numatune.memory.nodeset = None THEN [mode |-> x.numatune.memory.mode]
    ELSE [mode |-> x.numatune.memory.mode, nodeset |-> x.numatune.memory.nodeset]

(* The two nested try blocks of get_numa_params: find('numatune') gives   *)
(* None when absent, and numa.find('memory').get(...) raises              *)
(* AttributeError when either element is absent, which the inner bare     *)
(* except catches; both keys are assigned from the same <memory>.         *)
NumaParams(x) ==
    IF x.numatune = None \/ x.numatune.memory = None THEN NoParams
    ELSE [mode |-> x.numatune.memory.mode, nodeset |-> x.numatune.memory.nodeset]

(* new_from_dumpxml(vm_name) raises CmdError when virsh dumpxml fails.     *)
DumpFails(n) ==
    /\ dom[n] = None \/ ToolFaults
    /\ raised' = {"CmdError:dump"}

(* get_disk_blk(vm_name): the keys of get_disk_all.  The dict is never    *)
(* None, so the None branch is dead.                                       *)
GetDiskBlk(n) ==
    /\ \/ DumpFails(n) /\ UNCHANGED blk
       \/ dom[n] # None /\ raised' = {} /\ blk' = DOMAIN DiskAll(dom[n])
    /\ UNCHANGED <<dom, count, numa>>

(* get_disk_count(vm_name): the size of get_disk_all.                      *)
GetDiskCount(n) ==
    /\ \/ DumpFails(n) /\ UNCHANGED count
       \/ dom[n] # None /\ raised' = {} /\ count' = Cardinality(DOMAIN DiskAll(dom[n]))
    /\ UNCHANGED <<dom, blk, numa>>

(* get_numa_params(vm_name): the object it is called on is not read.      *)
GetNumaParams(n) ==
    /\ \/ DumpFails(n) /\ UNCHANGED numa
       \/ dom[n] # None /\ raised' = {} /\ numa' = NumaParams(dom[n])
    /\ UNCHANGED <<dom, blk, count>>

(* VMXML.define() of a document x named n: virsh define replaces or adds  *)
(* the definition; libvirt refuses x when its targets clash.               *)
Define(n, x) ==
    /\ \/ /\ TargetsOk(x)
          /\ dom' = [dom EXCEPT ![n] = x] /\ raised' = {}
       \/ /\ ~TargetsOk(x) \/ ToolFaults
          /\ raised' = {"CmdError:define"} /\ UNCHANGED dom
    /\ UNCHANGED <<blk, count, numa>>

(* VMXML.undefine(): virsh undefine of the domain named n.                 *)
Undefine(n) ==
    /\ \/ /\ dom[n] # None
          /\ dom' = [dom EXCEPT ![n] = None] /\ raised' = {}
       \/ /\ dom[n] = None \/ ToolFaults
          /\ raised' = {"CmdError:undefine"} /\ UNCHANGED dom
    /\ UNCHANGED <<blk, count, numa>>

Init ==
    /\ dom \in [Names -> {x \in QDoc : TargetsOk(x)} \cup {None}]
    /\ blk = None /\ count = None /\ numa = None
    /\ raised = {}

Next ==
    \E n \in Names :
       \/ GetDiskBlk(n) \/ GetDiskCount(n) \/ GetNumaParams(n)
       \/ Undefine(n)
       \/ \E x \in QDoc : Define(n, x)

Spec == Init /\ [][Next]_vars

-----------------------------------------------------------------------------
(* Type invariant.                                                         *)
TypeOK ==
    /\ dom \in [Names -> QDoc \cup {None}]
    /\ blk \in (SUBSET Devs) \cup {None}
    /\ count \in 0..MaxDisks \cup {None}
    /\ numa \in {None, NoParams} \cup [mode: NumaModes \cup {None},
                                      nodeset: Nodesets \cup {None}]
    /\ raised \subseteq {"CmdError:dump", "CmdError:define", "CmdError:undefine"}

(* get_disk_count counts the VM's disks: when it returns, its answer is   *)
(* the number of <disk> elements of the definition it dumped.  The code   *)
(* counts the distinct target devs; the two agree only because define     *)
(* refuses a definition with two disks on one target.                      *)
DiskCountCountsDisks ==
    [][\A n \in Names :
         GetDiskCount(n) /\ raised' = {} => count' = Len(dom[n].disks)]_vars

=============================================================================

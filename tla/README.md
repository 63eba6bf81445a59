# Formal model of virt-test's libvirt domain XML handlers

This directory holds TLA+ models of `src/virttest/libvirt_xml/vm_xml.py`
(the `VMXML` handlers and the `VMCPUXML` feature list) and of the test
procedure `src/tests/mac_change.py`, with TLC configurations and TLAPS proofs.

## 1. The system

**Parts and how they interact**

- **libvirt, reached through virsh.** It is not under `src/` and is modelled
  from the specification. It holds the persistent domain definitions, one
  document per name. `dumpxml` reads a definition, `remove_domain`
  (`undefine`) deletes it, and `define` validates a document and stores it.
  define refuses:
  - a name that libvirt holds under another uuid;
  - a uuid that libvirt holds under another name;
  - an invalid document: vcpu 0, a cpu mode outside the three libvirt
    knows (blanks included), or a file serial without a source path.

  When the document has no uuid, define generates a fresh one. Any virsh call
  may also fail of its own accord (`CmdError`).
- **The VMXML handlers** (`vm_rename`, `set_vm_vcpus`, `set_primary_serial`,
  `set_cpu_mode`). Each one:
  1. dumps the definition (`new_from_dumpxml`);
  2. edits the document through the accessor properties (`vm_name`, `uuid`,
     `vcpu`) or ElementTree calls;
  3. undefines the domain, then defines the edited document.

  `vm_rename` also updates the caller's VM object (`vm.name`, `vm.uuid`). If
  its define fails, it redefines a backup copy.
- **The queries** (`get_disk_*`, `get_numa_params`, `get_primary_serial`) read
  a document and change nothing.
- **VMCPUXML** edits a list of `<feature>` elements by index.
  `check_feature_name` reads `/proc/cpuinfo`.
- **mac_change** is a sequential test procedure. It loops until it generates a
  new MAC, changes the MAC in the guest inside a `try`, and undoes the change
  in the `finally` clause.

The program is single-threaded. Each handler runs from start to end with
nothing interleaved, so each handler is one atomic step. What makes the
handlers hard to test is the number of ways each one can fail part way:
- at each virsh call;
- at libvirt's validation;
- at ElementTree calls whose behaviour depends on the document and on the
  Python build.

Each of these failures leaves a different state behind.

## 2. Modules

| Module | Models | Status |
|---|---|---|
| `VMXML` | libvirt's definitions (`dom`, `issued`), the VM object (`vm`, `vmAlive`), the last raised error (`raised`), the ElementTree build (`removeNoneRaises`), and one action per handler | written |
| `MC_VMXML` | a TLC instance: 2 names, 3 uuids, vcpu values {0, 2}, one good and one bad cpu mode word (each padded or not), pty/file serials, one path | written |
| `VMXML_proofs` | TLAPS proofs of the type invariant, of the rename rollback, the fresh uuid and the setters' commit, and of the refinement of `DomainStore` | written |
| `DomainStore` | the abstract store of definitions the VMXML handlers implement: a step edits one definition in place, loses one, or moves one to a name under a uuid no other name holds; with the proof that no two definitions share a uuid | written |
| `VMCPUXML` | the feature list as a sequence, the index checks, Python's negative indices, and `check_feature_name` as a pure operator over a model of /proc/cpuinfo | written |
| `MC_VMCPUXML` | a TLC instance: 2 feature names, indices -4..3, at most 3 features, at most 2 cpuinfo lines of length 1 or 5 | written |
| `VMCPUXML_proofs` | TLAPS proofs of the type invariant and of the refinement of `FeatureList` | written |
| `FeatureList` | the abstract feature list VMCPUXML implements: each call fails without editing, reads, or renames, removes or appends one feature | written |
| `VMXMLQueries` | `get_disk_blk`, `get_disk_count` (through `get_disk_all`) and `get_numa_params` over libvirt's definitions, with `define` and `undefine` between queries | written |
| `MC_VMXMLQueries` | a TLC instance: 2 names, 2 target devs, at most 2 disks, one numa mode and one nodeset | written |
| `VMXMLQueries_proofs` | TLAPS proofs of the type invariant and of `DiskCountCountsDisks` | written |
| `MacChange` | the procedure `run_mac_change` as a program counter: the MAC loop, the preparation, the try body with an exception at each guest command, and the finally clause | written |
| `MC_MacChange` | a TLC instance: 3 MAC addresses, old_mac one of them | written |
| `MacChange_proofs` | TLAPS proofs of the type invariant and of `PassLeavesConsistent` | written |

**How the code maps to the model**

The `map` of `PROJECT.json` gives the lines behind every definition that
translates code. Some definitions have no map entry:
- each module's `Next`, which only joins the actions;
- MacChange's `Raise` and `Exceptions`, which gather exceptions raised at
  many lines.

VMXML's `Init` and `InitDoc` are libvirt's definitions when the test starts.
No code of the repository builds them, so they are marked as modelled from
the spec.

- A document is a record `Doc`. Its fields are name, uuid, vcpu, cpu mode and
  primary serial, the parts the handlers touch. Disk, memory and numa elements
  are left out.
- A cpu mode argument is a word plus a flag saying whether it carries blanks.
  `Strip` is `mode.strip()`. `set_cpu_mode` writes the raw mode, which is
  modelled faithfully.
- The actions:
  - `VmRename(newName, uuid)` has a disjunct for each outcome of `vm_rename`:
    the dump fails; the undefine fails; define succeeds; define fails and the
    backup is restored; define fails and the backup fails too.
  - `SetVmVcpus`, `SetPrimarySerial` and `SetCpuMode` end in `Redefine`, the
    undefine-then-define tail with its three outcomes.
  - `SetPrimarySerial` has a disjunct for each path/source branch of lines
    289-296. The `removeNoneRaises` flag, chosen in `Init` and never changed,
    selects whether `remove(None)` raises the caught `AssertionError` or the
    uncaught `ValueError`.
- The constant `ToolFaults` switches spurious virsh failures on or off.

`DomainStore` states what the handlers do to libvirt's definitions. It has
no dump, undefine or define, only the effect on `defs`:
- `Edit(n, x)`: one definition is replaced by one with the same name and
  uuid;
- `Lose(n)`: one definition is gone. This is what a setter does when define
  fails after undefine (the `vmxml_setter` violation);
- `Move(n, to, x)`: one definition is removed and another is defined under
  `to`, with a uuid libvirt's `Accepts` check allows.

`VMXML` instantiates it as `Store` with `defs <- dom` and
`Docs <- StoredDoc`. The property `DomainStoreRefinement` (`Store!Spec`)
says that every handler step is one of these or changes no definition. So
no handler touches a second domain, and a rename moves exactly one.
`Next` passes the definition the step leaves (`defs'[n]`) to `Edit` and
`Move` instead of choosing one from `Docs`. TLC then needs no enumeration of
documents for each step, and the run stays under a minute.

**VMCPUXML** (`vm_xml.py` lines 340-456). None of its methods calls virsh,
so its state is the object's document only:
- `features` is the list of `/cpu/feature` names, in document order.
- `Pos(num)` turns a Python index into a sequence position. Negative indices
  count from the end, as Python's list does.
- `IndexCheck` and `IndexOk` are the count check of lines 391-395, together
  with the `IndexError` the list raises below `-count`.
- `GetFeatureName`, `RemoveFeature` and `SetFeature` are one action each.
  `AddFeature` appends, bounded by `MaxFeatures`.
- `CheckFeatureName` is modelled by what the code computes:
  - it iterates over `readline()`, the characters of the first line, not
    over the lines;
  - a line is abstracted to its length, whether it contains `flags`, and the
    names after the colon.

`FeatureList` states what the methods promise without indices: a list and
whether the last call failed. `VMCPUXML` instantiates it with
`list <- features` and `failed <- (raised # {})`. The property
`FeatureListRefinement` (`Abs!Spec`) says that every behaviour of the
methods is a behaviour of the abstract list.

**VMXMLQueries** (`vm_xml.py` lines 183-243). A definition is reduced to two
parts:
- the target dev of each `<disk>`, in document order;
- the `<numatune>` element, its `<memory>` child, and that child's `mode` and
  `nodeset`.

The actions:
- `DiskAll` is the dictionary `get_disk_all` builds: target dev -> the last
  disk node on that dev.
- `GetDiskBlk` and `GetDiskCount` dump the definition and read that
  dictionary.
- `NumaParams` is the two nested `try` blocks of `get_numa_params`. It gives
  `{}` when `<numatune>` or `<memory>` is absent, and both keys otherwise.
- `Define` and `Undefine` are `VMXML.define` and `VMXML.undefine`.

`get_disk_all` always returns a dict, although its docstring promises None
when no disk is set. So the `None` branch of `get_disk_blk` and the
`return 0` of `get_disk_count` never run, and the model has no such
outcome.

The constant `DistinctTargets` says whether libvirt refuses a definition
with two disks on one target dev. The code relies on that and does not check
it.

**MacChange** (`src/tests/mac_change.py`). The test is one sequential
procedure, and `pc` names the block to run next:
- `Start`: the logins, which may time out.
- `Generate`: the MAC loop. Each turn frees the address and generates a new
  one, which is recorded in the NIC database.
- `Prepare`: the interface lookups and, on Windows, the guest commands and
  the devcon copy.
- `TryBody`: the change command and the checks.
- `Finally`: the Windows cleanup.

Every guest command may raise when `GuestFaults` (or `CleanupFaults`, in the
finally clause) is TRUE. `dbMac` is `vm.virtnet[0].mac`. `guestMac` is the
address the guest's NIC actually uses.

## 3. Runs

| Run | Config | Expect | What it shows |
|---|---|---|---|
| vmxml_core | `MC_VMXML.cfg` | pass | See below. |
| vmxml_vmobject | `MC_VMXML_vmobject.cfg` | violation | A rename of a to a under u2, the uuid b holds, is rejected by libvirt (the uuid is taken). The rollback restores the old definition but leaves `vm.uuid` at the requested uuid. |
| vmxml_setter | `MC_VMXML_setter.cfg` | violation | `set_vm_vcpus(b, 0)` undefines b, define rejects vcpu 0, and b is gone. The padded cpu mode and the pathless file serial do the same. |
| vmxml_double | `MC_VMXML_double.cfg` | violation | When define and the backup's define both fail, only the backup's `CmdError` is raised. The define error is lost. |
| vmxml_serial | `MC_VMXML_serial.cfg` | violation | `set_primary_serial` with a path on a serial without a `<source>` raises `AttributeError`. |

The passing run vmxml_core checks:
- `TypeOK`;
- `RenameRollback`: a rename whose define fails restores the definitions;
- `RenameFreshUuid`: a rename without a uuid gets a never-issued uuid and
  keeps the rest of the document;
- `SetterCommits`: a setter that returns normally has its domain defined, under
  the same uuid, and touched nothing else;
- `DomainStoreRefinement`: every step is a step of `DomainStore`.

It reaches 36,040 distinct states (depth 6) in about 45 s.

VMCPUXML and MacChange runs:

| Run | Config | Expect | What it shows |
|---|---|---|---|
| vmcpuxml_core | `MC_VMCPUXML.cfg` | pass | `TypeOK` and `FeatureListRefinement`: a call that raises, at the count check or elsewhere, leaves the list alone, and one that returns makes at most one edit (1,805 distinct states). |
| vmcpuxml_negindex | `MC_VMCPUXML_negindex.cfg` | violation | The spec addresses features by 0-based position, but the count check lets a negative `num` through: `get_feature_name(-1)` returns the last feature. |
| vmcpuxml_cpuinfo | `MC_VMCPUXML_cpuinfo.cfg` | violation | `check_feature_name` iterates over the characters of the first line of /proc/cpuinfo, so it returns False for a flag the flags line lists. |
| queries_core | `MC_VMXMLQueries.cfg` | pass | `TypeOK` and `DiskCountCountsDisks`: while libvirt refuses duplicate targets, `get_disk_count` returns the number of disks of the definition it dumped, across any defines and undefines (124,800 distinct states). |
| queries_dups | `MC_VMXMLQueries_dups.cfg` | violation | When libvirt holds two disks on one target dev, `get_disk_all` keeps only the later disk, and `get_disk_count` reports 1. |
| macchange_core | `MC_MacChange.cfg` | pass | `TypeOK`, `PassLeavesConsistent` (a passing test leaves the NIC database equal to the guest's address) and `Terminates` (113 distinct states). |
| macchange_cleanup | `MC_MacChange_cleanup.cfg` | violation | On Windows, when the change command at line 80 fails, `mode` is unassigned. The finally clause raises `UnboundLocalError` before it restores old_mac, so the NIC database keeps the new address. |

**Why the bounds are enough**

- Two names are the least that make name conflicts possible.
- Three uuids leave a fresh one after two are in use.
- vcpu 0 and 2 give one rejected and one accepted value, and the stored
  default 1 is a third.
- The two mode words, each padded or not, cover the three cases: accepted,
  refused by `check_cpu_mode`, and accepted by the check but refused by
  libvirt.
- Symmetry over names and uuids is sound: no definition distinguishes any
  name or uuid.
- VMCPUXML: three features and indices -4..3 reach every branch of the
  check: `num >= count`, `-count <= num < 0`, `num < -count`, and the
  empty list. Lines of length 1 and 5 give a character, which cannot
  contain `flags`, and a line that can.
- VMXMLQueries: two devs and two disks are the least that let two disks
  share a target. The numa values cover an absent `<numatune>`, an absent
  `<memory>`, and a `<memory>` with each attribute set or absent.
- MacChange: three MACs let the generator return old_mac (one more turn of
  the loop) or one of two fresh addresses.

**Fairness.**
- VMXML and VMCPUXML assume none. Their handlers are called by test code in
  any order, so their properties are safety properties.
- MacChange assumes `WF_vars(Next)`. The procedure waits on nothing, and
  `generate_mac_address` is random, so it does not return old_mac forever.
  A turn of the loop that returns old_mac again changes no variable, so weak
  fairness forces a step to a fresh address.
- The MacChange runs set `CHECK_DEADLOCK FALSE`, because the procedure
  really stops at `done`.

**Mutants.** Each property of a passing run fails under a plausible bug:
- validation that accepts vcpu 0 breaks `TypeOK`;
- a `Redefine` that swallows define errors breaks `SetterCommits`;
- a rename that takes its backup after editing the document breaks
  `RenameRollback`;
- a rename that keeps the old uuid breaks `RenameFreshUuid`;
- a `remove_feature` that blanks the name attribute instead of removing the
  node breaks VMCPUXML's `TypeOK`;
- a loop that frees the address without generating a new one breaks
  MacChange's `TypeOK`;
- a loop that never changes the address breaks `Terminates`;
- a finally clause that does not restore the database breaks
  `PassLeavesConsistent`;
- a `set_feature` that removes the node and appends a renamed one breaks
  `FeatureListRefinement`, since it reorders the list;
- a libvirt define that does not check whether another name holds the uuid
  breaks `DomainStoreRefinement`: a rename to a uuid of another domain is
  then no `Move`;
- a libvirt that accepts duplicate targets breaks `DiskCountCountsDisks`;
- a `get_numa_params` that omits an unset nodeset breaks VMXMLQueries'
  `TypeOK`.

## 4. Proofs (`VMXML_proofs.tla`, `DomainStore.tla`, `VMCPUXML_proofs.tla`, `VMXMLQueries_proofs.tla`, `MacChange_proofs.tla`)

- **`TypeCorrect`: `Spec => []TypeOK`.** `TypeOK` is inductive as it stands.
  The proof splits `Next` into the four handlers. Each handler lemma first
  reduces the goal to three facts about the primed variables, using
  `SetterTypeOK`:
  - `DefsOK(dom')`: every definition is a stored document filed under its own
    name;
  - `issued' \subseteq UUIDs`;
  - `raised' \subseteq Errors`.

  It then proves those facts for each outcome. Two lemmas carry the libvirt
  part:
  - `DefineOkType`: a successful define stores a `StoredDoc` under the
    document's name, because `Valid` guarantees vcpu > 0 and the uuid is
    parsed or generated.
  - `RedefineType`.

  The initial step shows that `Init`'s documents are `StoredDoc`s.
- **`RenameRollbackHolds`: `Spec => RenameRollback`.** The proof follows from
  `TypeOK`:
  - Only `vm_rename`'s rollback branch raises `LibvirtXMLError:define`. The
    setters' possible errors are listed in `SetterErrors`.
  - In that branch, libvirt stores the dumped document again under its own
    uuid (lemma `BackupRestores`). Because the document is a `StoredDoc`, its
    vcpu is not `None` and `Stored` leaves it unchanged, so `dom' = dom`.
  - The proof needs the assumption that `None` is not a natural number, which
    is true of Python's `None`.
- **`SetterCommitsHolds`: `Spec => SetterCommits`.** The proof follows from
  `TypeOK`:
  - `SetterRedefines`: a setter step that raises nothing passed the dump and
    reached the third branch of `Redefine`, with an edited document of the
    same name and uuid (lemma `EditDoc`). Every other branch raises.
  - `RedefineCommits`: that branch defines the edit. Its uuid is set, so
    `ParsedUuids` is that one uuid, and `Stored` keeps it. The edit is filed
    under the same name, so no other definition changes.
  - The proof needs the assumption `NoneNotDoc` (in VMXML): `None` is not a
    document, as Python's `None` is no `Element`. Without it, a stored
    document might equal `None`.
- **`RenameFreshUuidHolds`: `Spec => RenameFreshUuid`.** The proof follows
  from `TypeOK`. Only the branch that defines the renamed document returns
  normally. That document has no uuid, so `ParsedUuids` is `UUIDs \ issued`.
  The dumped document is a `StoredDoc`, so its vcpu is set and `Stored`
  changes nothing but the uuid.
- **DomainStore `UniqueUuidsHold`: `Spec => [](TypeOK /\ UniqueUuids)`.**
  The invariant is inductive as it stands. An edit keeps the uuid. A move
  defines a uuid that `Accepts` says no other name holds.
- **`StoreRefinement`: `Spec => DomainStoreRefinement`.** `Init` maps to
  `Store!Init`: its uuids are distinct, and `InitTypeOK` gives the document
  type. Under `TypeOK`, each step maps to a store step or a stutter (lemmas
  `SetterRefines` and `VmRenameRefines`):
  - a step that raises before undefine leaves `dom` alone;
  - `Redefine` is a stutter, a `Lose` (`StoreLose`), or an `Edit`
    (`StoreEdit`, from `RedefineDefines`);
  - the rename's successful define is a `Move` (`StoreMove`), because
    libvirt's `Accepts` is the store's;
  - the rollback stutters (`BackupRestores`);
  - the double failure is a `Lose`.

  `SetterShape` sorts a setter step into "raised and left `dom` alone" or
  "went through `Redefine` with an edit of the same name and uuid". It also
  gives `SetterRedefines`, used by `SetterCommitsHolds`.
- **VMXML `UniqueUuidsHold`: `Spec => []Store!UniqueUuids`.** No two domains
  libvirt holds share a uuid. It follows by PTL from `StoreRefinement` and
  the store's theorem, cited through the instance as
  `Store!UniqueUuidsHold`.

- **VMCPUXML `TypeCorrect`.** `TypeOK` is inductive. The key lemma is
  `RemoveAtType`: `RemoveAt(s, i)` is a sequence one shorter than s. It is
  built from SubSeq and concatenation facts of `SequenceTheorems`.
  `PosInRange` shows that an index accepted by the check is a position of
  the list.
- **VMCPUXML `Refinement`: `Spec => FeatureListRefinement`.** This is the
  standard two-step refinement proof:
  - `InitRefines`: the initial states map to abstract initial states.
  - `NextRefines`: under `TypeOK`, each step maps to an abstract step or a
    stutter. It has one case per method, and under each a case per outcome:
    - a call that raises is an abstract `Reject` (lemma `RejectStep`);
    - `remove_feature` and `set_feature` are `RemoveOne(Pos(num))` and
      `RenameOne(Pos(num), v)`, with `PosInRange` giving that `Pos(num)` is
      a position of the list;
    - `add_feature` is `AddOne`;
    - the queries are `Read`.

  The abstract operators reached through the `INSTANCE` (`Abs!SeqOf`,
  `Abs!RemoveAt`) are expanded together with their concrete twins.
- **VMXMLQueries `DiskCountHolds`.** Stated as `ASSUME DistinctTargets
  PROVE Spec => DiskCountCountsDisks`. `DiskCountCountsDisks` is not
  inductive on its own: it needs the invariant `DefsOK`, which says that
  every stored definition passed the target check. `Init` establishes it,
  and `Define` keeps it because it stores only what passes the check.
  Three lemmas carry the counting:
  - `InjectiveCount`: a sequence without repeats has `Len` distinct
    elements. It uses `FS_Interval` and `FS_Bijection` from
    `FiniteSetTheorems`.
  - `DiskAllSize`: the keys of `DiskAll(x)` are the range of the disk
    sequence.
  - `RangeBound` (for `TypeCorrect`): a range is finite and no larger than
    the sequence (`FS_Surjection`).
- **VMXMLQueries `TypeCorrect`.** `TypeOK` is inductive. The answers of the
  disk queries are bounded by `DiskAnswers`.
- **MacChange `TypeCorrect` and `PassConsistent`.** `PassLeavesConsistent`
  is not inductive. A state at `finally` with no exception and a guest on
  the old address would break it one step later. The strengthening `IInv`
  says:
  - no exception is in flight before the try block;
  - from the end of the loop to the finally clause, the database holds
    `new_mac`, which differs from old_mac;
  - a try block that raised nothing left the guest on `new_mac`.

  `InitIInv` and `NextIInv` (one case per block) prove it inductive.

**Only model-checked.** These are checked by TLC only:
- the violations.
- `Terminates`, a liveness property under fairness, which is out of TLAPS's
  reach.

## 5. Not modelled

- The disk nodes themselves: apart from their target dev, they are
  abstracted away. VMXMLQueries keeps libvirt's definitions, not a
  test-held VMXML object. So the fact that `get_numa_params` ignores `self`
  (it dumps `vm_name` afresh) is modelled, but it is not compared with the
  object's own document.
- The accessor layer (`accessors`, `propcan`) is not under `src/`. The model
  takes `self.feature_list` to be the list `get_feature_list` builds, as the
  comment at line 362 intends.
- Memory, hypervisor type and temporary-file handling.
- libvirt's XML beyond the fields listed above.
- Log messages and the wording of exceptions: an error is named by its class
  and by the call it came from.

## 6. What remains

- Relate the VM object (`vm`) to the store. `VmObjectMatchesDefinition`
  fails (run vmxml_vmobject), so any such relation has to allow the stale
  uuid a rejected rename leaves behind.
- In `MacChange`, relate the NIC database to the whole `virtnet`, not to
  NIC 0 only.

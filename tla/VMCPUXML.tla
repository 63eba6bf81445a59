------------------------------ MODULE VMCPUXML ------------------------------
(***************************************************************************)
(* The VMCPUXML class of src/virttest/libvirt_xml/vm_xml.py: the list of  *)
(* <feature> elements under /cpu of an in-memory domain document, edited  *)
(* by position (get_feature_name, remove_feature, set_feature,             *)
(* add_feature), and check_feature_name, which looks a feature name up in  *)
(* the host's /proc/cpuinfo.  None of these methods calls virsh: they      *)
(* change the document held by the object only.                            *)
(*                                                                         *)
(* Positions are Python list indices: num >= count is refused by the code  *)
(* with LibvirtXMLError, -count <= num < 0 counts from the end of the      *)
(* list, and num < -count raises IndexError from the list itself.          *)
(***************************************************************************)
EXTENDS Integers, SequencesExt

CONSTANTS
    FeatureNames,  \* feature names, <feature name='...'/>
    Indices,       \* the num arguments tried, a finite set of integers
    MaxFeatures,   \* bound on the length of the feature list
    LineLengths,   \* lengths of the lines of /proc/cpuinfo
    MaxLines,      \* bound on the number of lines of /proc/cpuinfo
    None           \* Python's None

ASSUME ConstAssumption ==
    /\ Indices \subseteq Int
    /\ MaxFeatures \in Nat /\ MaxLines \in Nat
    /\ LineLengths \subseteq Nat \ {0}
    /\ None \notin FeatureNames

(* Length of the substring 'flags' that check_feature_name looks for.     *)
FlagsLen == 5

(***************************************************************************)
(* A string as check_feature_name uses it: its length, whether it          *)
(* contains 'flags', and the names split(':')[1].strip().split(' ') gives  *)
(* when it does.  A string shorter than 'flags' cannot contain it.         *)
(***************************************************************************)
Line == {l \in [len: LineLengths, flags: BOOLEAN, words: SUBSET FeatureNames] :
            /\ l.flags => l.len >= FlagsLen
            /\ ~l.flags => l.words = {}}

(* Iterating over a str yields its characters, each a string of length 1. *)
Chars(s) == [i \in 1..s.len |-> [len |-> 1, flags |-> FALSE, words |-> {}]]

(* file.readline(): the first line, or '' at end of file.                  *)
ReadLine(file) ==
    IF file = <<>> THEN [len |-> 0, flags |-> FALSE, words |-> {}] ELSE Head(file)

(* The loop of check_feature_name over a sequence of strings: the union of *)
(* the names of every string that contains 'flags'.                        *)
SysFeature(strs) == UNION {strs[i].words : i \in {j \in DOMAIN strs : strs[j].flags}}

(* check_feature_name(value): the loop runs over readline(), that is over  *)
(* the characters of the first line.                                       *)
CheckFeatureNameResult(file, value) == value \in SysFeature(Chars(ReadLine(file)))

Errors == {"LibvirtXMLError", "IndexError"}

VARIABLES
    features,  \* names of the /cpu/feature elements, in document order
    result,    \* what the last query returned
    raised,    \* what the last call raised: {} when it returned
    cpuinfo    \* the host's /proc/cpuinfo, a sequence of lines

vars == <<features, result, raised, cpuinfo>>

(* Python's list index num, as a position 1..Len of the sequence.          *)
Pos(num) == IF num >= 0 THEN num + 1 ELSE Len(features) + num + 1

(* The count check the three index methods make before indexing            *)
(* self.feature_list[num], and the IndexError the list raises below -count.*)
IndexCheck(num) ==
    \/ /\ num >= Len(features)
       /\ raised' = {"LibvirtXMLError"}
    \/ /\ num < -Len(features)
       /\ raised' = {"IndexError"}

IndexOk(num) ==
    /\ -Len(features) <= num /\ num < Len(features)
    /\ raised' = {}

(* get_feature_name(num): the name attribute of the feature at num.        *)
GetFeatureName(num) ==
    /\ \/ IndexCheck(num) /\ result' = None
       \/ IndexOk(num) /\ result' = features[Pos(num)]
    /\ UNCHANGED <<features, cpuinfo>>

RemoveFeatureAttr(num) ==
    /\ \/ IndexCheck(num) /\ UNCHANGED features
       \/ IndexOk(num) /\ features' = [features EXCEPT ![Pos(num)] = None]
    /\ result' = None
    /\ UNCHANGED cpuinfo

(* remove_feature(num): remove the feature node at num from /cpu.          *)
RemoveFeature(num) ==
    /\ \/ IndexCheck(num) /\ UNCHANGED features
       \/ IndexOk(num) /\ features' = RemoveAt(features, Pos(num))
    /\ result' = None
    /\ UNCHANGED cpuinfo

SetFeatureByReplace(num, value) ==
    /\ \/ IndexCheck(num) /\ UNCHANGED features
       \/ IndexOk(num) /\ features' = Append(RemoveAt(features, Pos(num)), value)
    /\ result' = None
    /\ UNCHANGED cpuinfo

(* set_feature(num, value): set the name attribute of the feature at num.  *)
SetFeature(num, value) ==
    /\ \/ IndexCheck(num) /\ UNCHANGED features
       \/ IndexOk(num) /\ features' = [features EXCEPT ![Pos(num)] = value]
    /\ result' = None
    /\ UNCHANGED cpuinfo

(* add_feature(value): append a <feature name=value/> to /cpu.  The       *)
(* constructor's set_cpu_mode guarantees /cpu exists.                      *)
AddFeature(value) ==
    /\ Len(features) < MaxFeatures
    /\ features' = Append(features, value)
    /\ raised' = {}
    /\ result' = None
    /\ UNCHANGED cpuinfo

(* check_feature_name(value).                                              *)
CheckFeatureName(value) ==
    /\ result' = CheckFeatureNameResult(cpuinfo, value)
    /\ raised' = {}
    /\ UNCHANGED <<features, cpuinfo>>

(* VMCPUXML(vm_name, mode): set_cpu_mode, then dumpxml --update-cpu, which *)
(* lists whatever features libvirt expands the cpu mode to.                *)
Init ==
    /\ features \in SeqOf(FeatureNames, MaxFeatures)
    /\ result = None
    /\ raised = {}
    /\ cpuinfo \in SeqOf(Line, MaxLines)

Next ==
    \/ \E num \in Indices :
          \/ GetFeatureName(num)
          \/ RemoveFeature(num)
          \/ \E v \in FeatureNames : SetFeature(num, v)
    \/ \E v \in FeatureNames : AddFeature(v) \/ CheckFeatureName(v)

Spec == Init /\ [][Next]_vars

-----------------------------------------------------------------------------
(* Type invariant.                                                         *)
TypeOK ==
    /\ features \in SeqOf(FeatureNames, MaxFeatures)
    /\ result \in FeatureNames \cup BOOLEAN \cup {None}
    /\ raised \subseteq Errors
    /\ cpuinfo \in SeqOf(Line, MaxLines)

(* One of the three methods that address a feature by its number.         *)
IndexStep(num) ==
    \/ GetFeatureName(num)
    \/ RemoveFeature(num)
    \/ \E v \in FeatureNames : SetFeature(num, v)

(* The specification addresses features by 0-based position: a call that  *)
(* returns normally was given a position 0 <= num < count.                 *)
FeatureIndexNonNegative ==
    [][\A num \in Indices : IndexStep(num) /\ raised' = {} => num >= 0]_vars

(* check_feature_name returns True exactly for the names the flags line of *)
(* /proc/cpuinfo lists.                                                    *)
CheckFeatureNameMatchesCpuinfo ==
    [][\A v \in FeatureNames :
         CheckFeatureName(v) => result' = (v \in SysFeature(cpuinfo))]_vars

(* The abstract feature list, seen through the object's state: the list  *)
(* is the feature list, and a call failed when it raised.                  *)
Abs == INSTANCE FeatureList WITH list <- features, failed <- (raised # {})

(* The index methods, add_feature and check_feature_name implement the    *)
(* abstract feature list: every call that raises leaves the list as it    *)
(* was, and every call that returns reads the list or renames, removes or *)
(* appends exactly one feature, keeping the others in order.               *)
FeatureListRefinement == Abs!Spec

=============================================================================

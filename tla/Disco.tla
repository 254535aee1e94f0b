------------------------------- MODULE Disco -------------------------------
(***************************************************************************)
(* xep.Disco (XEP-0030): the features of the root node and LocalInfo,      *)
(* which the application and the reader's handleInfo call.  The features   *)
(* are a Go slice: an array and a length.  LocalInfo copies the slice      *)
(* under the lock and works on it after the unlock, so that its appends    *)
(* and its sort may write to the array that the registry, or another       *)
(* LocalInfo, still uses.  An append is a step, and so is the sort: what   *)
(* other goroutines see between two of the many writes of the sort is not  *)
(* told apart.                                                             *)
(*                                                                         *)
(* A feature is a number, in the order of the sort; Unused is the empty    *)
(* string of a cell that no append has reached.  Identities, forms and     *)
(* items are only appended to and copied and are left out; so are the      *)
(* other nodes, which get no plugin features.                              *)
(***************************************************************************)
EXTENDS GoSlices, Selections, SequencesExt

CONSTANTS
    Features,       \* what the application may add
    PluginFeatures, \* PluginManager.Features
    Lists,          \* what the application may give to SetInfo; a list that names a feature
                    \* twice, which SetInfo would keep as it is, is left out
    Infos,          \* calls of LocalInfo
    MaxDiscoChanges \* bound: calls that change the features

ASSUME DiscoAssumption ==
    /\ Features \subseteq Nat \ {0} /\ PluginFeatures \in Seq(Nat \ {0}) /\ MaxDiscoChanges \in Nat
    /\ \A fs \in Lists : fs \in Seq(Features) /\ IsInjective(fs)

VARIABLES
    arrays,        \* the arrays that append has made
    root,          \* d.info[""].Features: an index of arrays, and a length
    info,          \* each LocalInfo
    discoChanges,
    added,         \* history: the features that were added and not removed
    spoilt,        \* history: a LocalInfo has written to a cell that the registry shows
    misled         \* history: the LocalInfos that another call has so hit, or that copied what was spoilt

discoVars == <<arrays, root, info, discoChanges, added, spoilt, misled>>

Unused == 0
Strings == Features \cup Range(PluginFeatures) \cup {Unused}
Listed(slice) == Shown(arrays, slice)

\* A LocalInfo: its slice, the plugin feature it looks for next, and its answer; seen is
\* history, what had been added when it was called.
Nothing == Slice(1, 0)
NotAsked == [at |-> "none", slice |-> Nothing, next |-> 1, answer |-> <<>>, seen |-> {}]
Copied(slice) == [at |-> "merging", slice |-> slice, next |-> 1, answer |-> <<>>, seen |-> added]

Within(slice) == slice.array \in DOMAIN arrays /\ slice.len \in 0..Len(arrays[slice.array])

DiscoTypeOK ==
    /\ arrays \in Seq(Seq(Strings)) /\ Within(root)
    /\ \A i \in Infos : /\ info[i].at \in {"none", "merging", "sorted", "answered"}
                        /\ Within(info[i].slice) /\ info[i].next \in 1..(Len(PluginFeatures) + 1)
                        /\ info[i].answer \in Seq(Strings) /\ info[i].seen \subseteq Features
    /\ discoChanges \in 0..MaxDiscoChanges /\ added \subseteq Features
    /\ spoilt \in BOOLEAN /\ misled \subseteq Infos

\* NewDisco and Init: a nil slice.
DiscoInit ==
    /\ arrays = <<<<>>>> /\ root = Nothing
    /\ info = [i \in Infos |-> NotAsked] /\ discoChanges = 0 /\ added = {} /\ spoilt = FALSE /\ misled = {}

-----------------------------------------------------------------------------
(* When a write to the array of x hits y, which shows cells of it: an append writes to   *)
(* the cell after x, a removal of cell c to those from c up to the last but one, and a   *)
(* sort mixes cells that y shows with cells that it does not.                            *)

Shows(y, x, c) == y.array = x.array /\ c <= y.len
HitByAppend(x, y) == Shows(y, x, x.len + 1)
HitByRemoval(x, c, y) == c < x.len /\ Shows(y, x, c)
HitBySort(x, y) == Shows(y, x, 1) /\ y.len < x.len

-----------------------------------------------------------------------------
(* The calls that change the features, each under the lock. *)

Change ==
    /\ discoChanges < MaxDiscoChanges /\ discoChanges' = discoChanges + 1
    /\ UNCHANGED <<info, spoilt>>

AppendFeature(f) ==
    /\ LET done == AppendTo(arrays, root, f, Unused) IN arrays' = done.heap /\ root' = done.slice
    /\ misled' = misled \cup {i \in Infos : HitByAppend(root, info[i].slice)}

\* AddFeature that does not look for the feature.
AddFeatureTwice(f) == Change /\ AppendFeature(f) /\ added' = added \cup {f}

AddFeature(f) ==
    /\ Change
    /\ IF f \in Range(Listed(root)) THEN UNCHANGED <<arrays, root, misled>> ELSE AppendFeature(f)
    /\ added' = added \cup {f}

\* The cells after cell c of the registry move down in place; the last keeps what it had.
RemoveCell(c) ==
    LET old == arrays[root.array]
    IN /\ arrays' = [arrays EXCEPT ![root.array] =
                        [k \in DOMAIN old |-> IF k \in c..(root.len - 1) THEN old[k + 1] ELSE old[k]]]
       /\ root' = Slice(root.array, root.len - 1)
       /\ misled' = misled \cup {i \in Infos : HitByRemoval(root, c, info[i].slice)}

RemoveFeature(f) ==
    /\ Change
    /\ \/ f \notin Range(Listed(root)) /\ UNCHANGED <<arrays, root, misled>>
       \/ \E c \in 1..root.len : /\ Listed(root)[c] = f /\ \A j \in 1..(c - 1) : Listed(root)[j] # f
                                 /\ RemoveCell(c)
    /\ added' = added \ {f}

\* SetInfo keeps a clone, which has no spare capacity.
SetInfo(fs) ==
    /\ Change
    /\ arrays' = Append(arrays, fs) /\ root' = Slice(Len(arrays) + 1, Len(fs))
    /\ added' = Range(fs)
    /\ UNCHANGED misled

-----------------------------------------------------------------------------
(* LocalInfo, for the application or for handleInfo. *)

LocalInfo(i) ==
    /\ info[i].at = "none"
    /\ info' = [info EXCEPT ![i] = Copied(root)]
    /\ misled' = IF spoilt THEN misled \cup {i} ELSE misled
    /\ UNCHANGED <<arrays, root, discoChanges, added, spoilt>>

\* What a write of i to its slice hits.
Hits(i, Hit(_, _)) ==
    /\ spoilt' = (spoilt \/ Hit(info[i].slice, root))
    /\ misled' = misled \cup {j \in Infos \ {i} : Hit(info[i].slice, info[j].slice)}

\* After the unlock: a plugin's feature that the slice does not show is appended ...
MergeFeature(i) ==
    /\ info[i].at = "merging" /\ info[i].next <= Len(PluginFeatures)
    /\ LET f == PluginFeatures[info[i].next]
           done == AppendTo(arrays, info[i].slice, f, Unused)
       IN IF f \in Range(Listed(info[i].slice))
          THEN /\ info' = [info EXCEPT ![i].next = @ + 1]
               /\ UNCHANGED <<arrays, spoilt, misled>>
          ELSE /\ arrays' = done.heap
               /\ info' = [info EXCEPT ![i].next = @ + 1, ![i].slice = done.slice]
               /\ Hits(i, HitByAppend)
    /\ UNCHANGED <<root, discoChanges, added>>

\* ... the slice is sorted in place ...
Smaller(s) == {p \in (DOMAIN s) \X (DOMAIN s) :
                   \/ s[p[1]] < s[p[2]]
                   \/ s[p[1]] = s[p[2]] /\ p[1] < p[2]}
Sorted(s) == [k \in DOMAIN s |-> s[Nth(DOMAIN s, Smaller(s), k)]]

SortFeatures(i) ==
    /\ info[i].at = "merging" /\ info[i].next > Len(PluginFeatures)
    /\ LET x == info[i].slice
           old == arrays[x.array]
           sorted == Sorted(Listed(x))
       IN arrays' = [arrays EXCEPT ![x.array] =
                        [k \in DOMAIN old |-> IF k <= x.len THEN sorted[k] ELSE old[k]]]
    /\ info' = [info EXCEPT ![i].at = "sorted"]
    /\ Hits(i, HitBySort)
    /\ UNCHANGED <<root, discoChanges, added>>

\* ... and cloned for the answer.
LocalInfoAnswers(i) ==
    /\ info[i].at = "sorted"
    /\ info' = [info EXCEPT ![i].at = "answered", ![i].slice = Nothing, ![i].answer = Listed(info[i].slice)]
    /\ UNCHANGED <<arrays, root, discoChanges, added, spoilt, misled>>

DiscoNext ==
    \/ \E f \in Features : AddFeature(f) \/ RemoveFeature(f)
    \/ \E fs \in Lists : SetInfo(fs)
    \/ \E i \in Infos : LocalInfo(i) \/ MergeFeature(i) \/ SortFeatures(i) \/ LocalInfoAnswers(i)

DiscoSpec == DiscoInit /\ [][DiscoNext]_discoVars

-----------------------------------------------------------------------------
(* Properties. *)

\* The registry shows each feature that was added and not removed, once, and nothing
\* else, until a LocalInfo has written to a cell that it shows; and an answer has what
\* was added when LocalInfo was called and the plugins' features, each once, unless
\* another call has written to a cell of its slice (disco.go:83-114, 129-152).  SetInfo
\* is given each feature once: RemoveFeature would take away the first of two only.
FeaturesKept ==
    /\ ~spoilt => Range(Listed(root)) = added /\ IsInjective(Listed(root))
    /\ \A i \in Infos \ misled :
          info[i].at = "answered" => /\ Range(info[i].answer) = info[i].seen \cup Range(PluginFeatures)
                                     /\ IsInjective(info[i].answer)
=============================================================================

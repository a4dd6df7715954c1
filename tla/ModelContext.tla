----------------------------- MODULE ModelContext -----------------------------
(***************************************************************************)
(* What a model is shown of a result: src/tools/model-context.ts.  A result  *)
(* is compacted, the second time more than the first, until it fits, and     *)
(* what was left out is listed.                                             *)
(*                                                                         *)
(* A result is a tree of scalars, strings, arrays and objects: the function  *)
(* that maps each path of it, the positions from the root on, to the node    *)
(* there; the keys of an object are in their order.  Sizes are counted in    *)
(* units: a character is one, and so is whatever else a node takes.          *)
(***************************************************************************)
EXTENDS Integers, Sequences, FiniteSets, FiniteSetsExt

CONSTANTS
  Compactions,   \* the limits of the first and of the second: string, array, keys
  MaxDepth,      \* levels of arrays and objects (6)
  TargetSize,    \* MODEL_DATA_TARGET_BYTES
  ContextSize,   \* MODEL_CONTEXT_MAX_BYTES
  MaxOmissions   \* omissions listed (16)

\* There is room for { truncated: true }, and for all the omissions that may be listed,
\* each with a path as deep as a result is followed.
ASSUME ModelContextAssumption ==
  /\ Compactions \in Seq([string : Nat, array : Nat, keys : Nat])
  /\ {MaxDepth, TargetSize, ContextSize, MaxOmissions} \subseteq Nat \ {0}
  /\ TargetSize >= 2 /\ ContextSize >= TargetSize + MaxOmissions * (1 + MaxDepth)

Node(kind, length) == [kind |-> kind, length |-> length]
String(n) == Node("string", n)
Inner(node) == node.kind \in {"array", "object"}

\* The array or the object of these trees.
Branch(kind, items) ==
  [p \in {<<>>} \cup UNION {{<<n>> \o q : q \in DOMAIN items[n]} : n \in DOMAIN items} |->
     IF p = <<>> THEN Node(kind, 0) ELSE items[Head(p)][Tail(p)]]

Leaf(node) == [p \in {<<>>} |-> node]
Truncated == Branch("object", <<Leaf(Node("scalar", 0))>>)   \* { truncated: true }

Up(p, m) == SubSeq(p, 1, m)
Parent(p) == Up(p, Len(p) - 1)

IsTree(t) ==
  /\ IsFiniteSet(DOMAIN t) /\ <<>> \in DOMAIN t
  /\ \A p \in DOMAIN t :
       /\ p \in Seq(Nat \ {0})
       /\ t[p] \in [kind : {"scalar", "string", "array", "object"}, length : Nat]
       /\ p # <<>> => Parent(p) \in DOMAIN t /\ Inner(t[Parent(p)])

byteLength(t) == Cardinality(UNION {{p} \X (0..t[p].length) : p \in DOMAIN t})
Fits(t) == byteLength(t) <= TargetSize

-----------------------------------------------------------------------------
(* compactValue() *)

ItemLimit(node, limits) == IF node.kind = "array" THEN limits.array ELSE limits.keys

\* The paths it comes to: no array or object is opened beyond the depth, or more of it
\* retained than its limit.
Reached(t, limits) ==
  {p \in DOMAIN t :
     /\ Len(p) <= MaxDepth
     /\ \A m \in DOMAIN p : p[m] <= ItemLimit(t[Up(p, m - 1)], limits)}

\* What it returns for a node; one too deep becomes "[omitted]".
Shortened(node, depth, limits) ==
  IF node.kind = "string" /\ node.length > limits.string THEN String(limits.string)
  ELSE IF Inner(node) /\ depth >= MaxDepth THEN String(1)
  ELSE node

\* Mutant of Cut: the keys left out of an object are not told.
CutArray(t, p, limits) ==
  t[p].kind = "array" /\ \E q \in DOMAIN t \ {<<>>} :
    Parent(q) = p /\ q[Len(q)] > ItemLimit(t[p], limits)

\* Less of an array or of an object is retained than there is.
Cut(t, p, limits) ==
  \E q \in DOMAIN t \ {<<>>} : Parent(q) = p /\ q[Len(q)] > ItemLimit(t[p], limits)

compactValue(t, limits) == [p \in Reached(t, limits) |-> Shortened(t[p], Len(p), limits)]

\* The paths for which it pushes an omission, one for each.
Omitted(t, limits) ==
  {p \in Reached(t, limits) : compactValue(t, limits)[p] # t[p] \/ Cut(t, p, limits)}

-----------------------------------------------------------------------------
(* boundedProjection() *)

\* The result after n compactions of it.
Compacted(source, n) == IF n = 0 THEN source ELSE compactValue(source, Compactions[n])

\* Of a result that is not an object too.  The omissions pushed by a compaction stay
\* when the next is made, and if they are too many, some give way to one that says so.
boundedProjection(result) ==
  LET last == Len(Compactions)
      source == IF Inner(result[<<>>]) THEN result ELSE Branch("object", <<result>>)
      made == Min({last} \cup {n \in 0..last : Fits(Compacted(source, n))})
      fits == Fits(Compacted(source, made))
      all == (UNION {{n} \X Omitted(source, Compactions[n]) : n \in 1..made})
               \cup (IF fits THEN {} ELSE {<<last + 1, <<>>>>})
      tooMany == Cardinality(all) > MaxOmissions
  IN [source |-> source,
      data |-> IF fits THEN Compacted(source, made) ELSE Truncated,
      omissions |-> IF ~tooMany THEN all
                    ELSE CHOOSE some \in SUBSET all : Cardinality(some) = MaxOmissions - 1,
      metadataLimit |-> tooMany]

\* An omission takes a unit, and one for each key or index of its path.
omissionsLength(omissions) == Cardinality(UNION {{o} \X (0..Len(o[2])) : o \in omissions})

\* validateModelContext(): a context that is too large throws, and the call fails.
validateModelContext(context) ==
  byteLength(context.data) + omissionsLength(context.omissions)
    + (IF context.metadataLimit THEN 1 ELSE 0) <= ContextSize

-----------------------------------------------------------------------------
(* Properties of a projection. *)

\* A projection fits, is accepted, and for every node of the result that is not shown
\* as it is there is an omission on the way to it, or it says that the list of the
\* omissions is cut itself.
IsBoundedHonestly(p) ==
  /\ Fits(p.data) /\ validateModelContext(p)
  /\ \/ p.metadataLimit
     \/ \A q \in DOMAIN p.source :
          \/ q \in DOMAIN p.data /\ p.data[q] = p.source[q]
          \/ \E o \in p.omissions, m \in 0..Len(q) : o[2] = Up(q, m)

=============================================================================

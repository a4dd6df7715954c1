----------------------------- MODULE MCHostTools ------------------------------
(* HostTools of a small host: three pids of two users, a journal of five kinds of    *)
(* entries, rows in three places and results of all shapes to a depth of three.       *)
EXTENDS HostTools, TLC

MCOwner == 1 :> "root" @@ 2 :> "agent" @@ 3 :> "root"

\* Entries of the unit asked for: malformed, small, and larger than a page.
MCEntry == {[unit |-> "a", size |-> n] : n \in {0, 1, 3}} \cup {[unit |-> "b", size |-> 1]}

MCRows ==
  UNION {{{"place" :> n @@ f[n] : n \in P} :
            f \in [P -> [size : {1, 3}, admitted : BOOLEAN, owned : BOOLEAN]]} :
         P \in SUBSET (1..3)}

\* Those of equal size; of three only the ones in which every value is known.
MCSnapshotRows ==
  {rows \in MCRows : \A r \in rows : r.size = 1 /\ (r.owned \/ Cardinality(rows) < 3)}

MCCompactions ==
  <<[string |-> 3, array |-> 2, keys |-> 3], [string |-> 1, array |-> 1, keys |-> 2]>>

Scalar == Leaf(Node("scalar", 0))
Leaves == {Scalar, Leaf(String(2)), Leaf(String(6))}
Seqs(S, n) == UNION {[1..m -> S] : m \in 0..n}
Branches(S, n) == {Branch(kind, q) : kind \in {"array", "object"}, q \in Seqs(S, n)}

\* Results, of a depth beyond the limit too.
MCResult ==
  LET flat == Branches({Scalar, Leaf(String(6))}, 3)
      few == {Branch("array", <<Leaf(String(6)), Scalar, Scalar>>),
              Branch("object", <<Leaf(String(6)), Leaf(String(6))>>),
              Branch("object", <<Branch("array", <<Scalar>>),
                                 Branch("object", <<Leaf(String(2))>>)>>)}
      pair == Branch("object", <<Leaf(String(1)), Leaf(String(1))>>)
  IN Leaves \cup {Branch("object", q) : q \in Seqs(flat \cup {Leaf(String(2))}, 2)}
            \cup {Branch("object", q) : q \in Seqs(few \cup Leaves, 4)}
            \cup {Branch("object", [n \in 1..2 |-> pair])}
=============================================================================

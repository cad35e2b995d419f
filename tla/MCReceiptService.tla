--------------------------- MODULE MCReceiptService ---------------------------
(* Instances of ReceiptService for TLC.                                    *)
EXTENDS ReceiptService, FiniteSets, TLC

(* Handlers, UUIDs, payloads and ids are interchangeable.                  *)
Symmetry == Permutations(Reqs) \cup Permutations(Uuids)
                \cup Permutations(Amounts) \cup Permutations(Ids)

(* Bound for two receipts: one uncertain write at a time.                  *)
MaxSurvivors == 2
FewSurvivors == Cardinality(survivors) <= MaxSurvivors
=============================================================================

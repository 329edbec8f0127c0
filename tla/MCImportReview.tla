--------------------------- MODULE MCImportReview ---------------------------
(***************************************************************************)
(* Finite instances of ImportReview: three cards of three questions.       *)
(* Cards A and B carry equal payloads; the embedding model also finds      *)
(* B and C near A, but A has no stored vector for B or C to find it by.    *)
(***************************************************************************)
EXTENDS ImportReview, TLC

CONSTANTS cardA, cardB, cardC, keyA, keyB, keyC

MCQuestionOf == [x \in Cards |-> CASE x = cardA -> keyA [] x = cardB -> keyB
                                   [] OTHER -> keyC]
MCExact == {<<cardA, cardA>>, <<cardA, cardB>>, <<cardB, cardA>>} \cap (Cards \X Cards)
MCLexical == {}
MCSemantic == {<<cardA, cardB>>, <<cardA, cardC>>} \cap (Cards \X Cards)

Symmetry == Permutations(Importers) \cup Permutations(Reviewers)
=============================================================================

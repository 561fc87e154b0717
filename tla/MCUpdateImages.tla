--------------------------- MODULE MCUpdateImages ---------------------------
(* Instances of UpdateImages for TLC: two Updates and an image of one project, an image of another. *)
EXTENDS UpdateImages, TLC

CONSTANTS own, foreign, here, there

Projects == [x \in Update \cup Image |-> IF x = foreign THEN there ELSE here]
Shows(images, attached) == [images |-> images, attached |-> attached]
Contents == {Shows({}, {}), Shows({own}, {}), Shows({}, {own}), Shows({own, foreign}, {})}

Symmetry == Permutations(Request) \cup Permutations(Update)
=============================================================================

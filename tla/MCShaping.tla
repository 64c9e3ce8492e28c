---- MODULE MCShaping ----
(* Three threads and three paragraphs; texts in one family and the other, in *)
(* two sizes, some of it in neither family as a whole.                       *)
EXTENDS Shaping
CONSTANTS w1, w2, w3, small, large, a, b, c

R(o, x) == [options |-> o, clusters |-> x]

\* The last takes two fonts for its only run.
Texts_ == {<<R(small, <<b, a>>), R(large, <<c>>)>>, <<R(small, <<a, b>>)>>}

\* Both families have a part of c, and only the second all of b.
Status_(cluster, family) ==
    CASE cluster = a /\ family \in {0, default_font} -> "Complete"
      [] cluster = b /\ family = 1 -> "Complete"
      [] cluster = c -> "Keep"
      [] OTHER -> "Discard"
====

-------------------------- MODULE GlyphCache_proofs --------------------------
(***************************************************************************)
(* What the packer promises, for rectangles of any size: taking a tile     *)
(* from a free rectangle keeps tiles and free rectangles apart and loses   *)
(* nothing.  From it, for an atlas of any size, glyphs of any extent and   *)
(* any texts: the invariants of the glyph cache hold in every state, and   *)
(* what is painted and cleared in the texels leaves every glyph that       *)
(* vertices point at as it is.                                             *)
(***************************************************************************)
EXTENDS GlyphTexture, TLAPS, WellFoundedInduction, FiniteSetTheorems

Packer(p) ==
    /\ p.rects \in Seq(Rect)
    /\ \A k \in DOMAIN p.cached : p.cached[k] \in Rect

(* Everything lies in the whole and apart. *)
TilesAre(cached, whole) ==
    /\ \A k \in DOMAIN cached : Within(cached[k], whole)
    /\ \A k, l \in DOMAIN cached : k # l => Apart(cached[k], cached[l])
RectsAre(rects, cached, whole) ==
    /\ \A i \in DOMAIN rects : Within(rects[i], whole)
    /\ \A i \in DOMAIN rects, k \in DOMAIN cached : Apart(rects[i], cached[k])
    /\ \A i, j \in DOMAIN rects : i # j => Apart(rects[i], rects[j])
Somewhere(p, x, y) ==
    \/ \E k \in DOMAIN p.cached : Covers(p.cached[k], x, y)
    \/ \E i \in DOMAIN p.rects : Covers(p.rects[i], x, y)

(* The i-th rectangle is cut into tile t and some of the new rectangles;   *)
(* from says which old rectangle a new one is a part of.                   *)
Cut(old, i, t, new, from) ==
    /\ new \in Seq(Rect)
    /\ t \in Rect /\ Within(t, old[i])
    /\ \A j \in DOMAIN new :
         /\ from[j] \in DOMAIN old
         /\ Within(new[j], old[from[j]])
         /\ from[j] = i => Apart(new[j], t)
    /\ \A j, k \in DOMAIN new : j # k => from[j] # from[k] \/ Apart(new[j], new[k])
    /\ \A n \in DOMAIN old : \A x, y \in Nat : Covers(old[n], x, y) =>
         Covers(t, x, y) \/ \E j \in DOMAIN new : Covers(new[j], x, y)

(* A set of numbers has a least one. *)
LEMMA Least ==
    ASSUME NEW S, S \subseteq Nat, S # {}
    PROVE  \E i \in S : \A j \in S : i <= j
<1> DEFINE R == {p \in Nat \X Nat : p[1] < p[2]}
<1>1. R = OpToRel(<, Nat)
  BY DEF OpToRel
<1>2. IsWellFoundedOn(R, Nat)
  BY <1>1, NatLessThanWellFounded
<1> HIDE DEF R
<1>3. PICK i \in S : \A j \in S : ~(<<j, i>> \in R)
  BY <1>2, WFMin
<1>4. ASSUME NEW j \in S PROVE i <= j
  <2>1. <<j, i>> \notin R
    BY <1>3
  <2>2. <<j, i>> \in Nat \X Nat /\ <<j, i>>[1] = j /\ <<j, i>>[2] = i
    OBVIOUS
  <2>3. ~(j < i)
    BY <2>1, <2>2 DEF R
  <2> QED BY <2>3
<1> QED BY <1>4

(* best_candidate_index finds a rectangle the tile fits in, if there is    *)
(* one.                                                                    *)
LEMMA BestCandidateFits ==
    ASSUME NEW rects \in Seq(Rect), NEW w \in Nat, NEW h \in Nat,
           Candidates(rects, w, h) # {}
    PROVE  BestCandidate(rects, w, h) \in Candidates(rects, w, h)
<1> DEFINE fitting == Candidates(rects, w, h)
           exact == {i \in fitting : rects[i].w = w /\ rects[i].h = h}
           least == {i \in fitting : \A j \in fitting :
                                        Waste(rects[i], w, h) <= Waste(rects[j], w, h)}
           chosen == IF exact # {} THEN exact ELSE least
<1>1. fitting \subseteq Nat
  BY DEF Candidates
<1>2. ASSUME NEW i \in fitting
      PROVE  Waste(rects[i], w, h) \in Nat
  <2>1. rects[i] \in Rect /\ w <= rects[i].w /\ h <= rects[i].h
    BY DEF Candidates, Fits
  <2>2. rects[i].w \in Nat /\ rects[i].h \in Nat
    BY <2>1 DEF Rect
  <2> QED BY <2>1, <2>2 DEF Waste
<1>3. least # {}
  <2> DEFINE W == {Waste(rects[i], w, h) : i \in fitting}
  <2>1. W \subseteq Nat /\ W # {}
    BY <1>2
  <2> HIDE DEF W
  <2>2. PICK m \in W : \A n \in W : m <= n
    BY <2>1, Least
  <2>3. PICK i \in fitting : m = Waste(rects[i], w, h)
    BY <2>2 DEF W
  <2>4. i \in least
    BY <2>2, <2>3 DEF W
  <2> QED BY <2>4
<1>4. chosen \subseteq fitting /\ chosen # {}
  BY <1>3
<1>5. BestCandidate(rects, w, h) = CHOOSE i \in chosen : \A j \in chosen : i <= j
  BY DEF BestCandidate
<1> HIDE DEF chosen
<1>6. chosen \subseteq Nat
  BY <1>1, <1>4
<1>7. \E i \in chosen : \A j \in chosen : i <= j
  BY <1>4, <1>6, Least
<1> QED BY <1>4, <1>5, <1>7

(* What lies in one of two rectangles that are apart is apart from what    *)
(* lies in the other.                                                      *)
LEMMA PartsApart ==
    ASSUME NEW a \in Rect, NEW b \in Rect, NEW c \in Rect, NEW d \in Rect,
           Within(a, b), Within(c, d), Apart(b, d)
    PROVE  Apart(a, c) /\ Apart(c, a)
BY DEF Rect, Within, Apart

LEMMA WithinTransitive ==
    ASSUME NEW a \in Rect, NEW b \in Rect, NEW c \in Rect, Within(a, b), Within(b, c)
    PROVE  Within(a, c)
BY DEF Rect, Within

LEMMA WithinReflexive ==
    ASSUME NEW a \in Rect
    PROVE  Within(a, a)
BY DEF Rect, Within

LEMMA ApartSymmetric ==
    ASSUME NEW a \in Rect, NEW b \in Rect, Apart(a, b)
    PROVE  Apart(b, a)
BY DEF Rect, Apart

(***************************************************************************)
(* Each of the four ways to take a tile from a rectangle is a cut.         *)
(***************************************************************************)
LEMMA TakesAll ==
    ASSUME NEW old \in Seq(Rect), NEW i \in DOMAIN old
    PROVE  Cut(old, i, old[i], SwapRemove(old, i),
               [j \in DOMAIN SwapRemove(old, i) |-> IF j = i THEN Len(old) ELSE j])
<1> DEFINE new == SwapRemove(old, i)
           n == Len(old)
           from == [j \in DOMAIN new |-> IF j = i THEN n ELSE j]
<1>1. n \in Nat /\ DOMAIN old = 1 .. n /\ \A j \in 1 .. n : old[j] \in Rect
  OBVIOUS
<1>2. new = [j \in 1 .. n - 1 |-> IF j = i THEN old[n] ELSE old[j]]
  BY DEF SwapRemove
<1>3. /\ DOMAIN new = 1 .. n - 1
      /\ \A j \in 1 .. n - 1 : new[j] = IF j = i THEN old[n] ELSE old[j]
  BY <1>2
<1>4. new \in Seq(Rect)
  BY <1>1, <1>2
<1> HIDE DEF new
<1>5. \A j \in 1 .. n - 1 :
         /\ from[j] \in 1 .. n /\ from[j] # i
         /\ new[j] = old[from[j]]
  BY <1>1, <1>3
<1>6. \A j, k \in 1 .. n - 1 : j # k => from[j] # from[k]
  BY <1>1, <1>3
<1>7. \A k \in 1 .. n : k # i => \E j \in 1 .. n - 1 : from[j] = k
  <2>1. ASSUME NEW k \in 1 .. n, k # i, k = n
        PROVE  \E j \in 1 .. n - 1 : from[j] = k
    <3>1. i \in 1 .. n - 1 /\ from[i] = n
      BY <1>1, <1>3, <2>1
    <3> QED BY <2>1, <3>1
  <2>2. ASSUME NEW k \in 1 .. n, k # i, k # n
        PROVE  \E j \in 1 .. n - 1 : from[j] = k
    <3>1. n \in Nat /\ k \in 1 .. n /\ k # n => k \in 1 .. n - 1
      BY SMT
    <3>2. k \in 1 .. n - 1
      BY <1>1, <2>2, <3>1
    <3>3. from[k] = k
      BY <1>3, <2>2, <3>2
    <3> QED BY <3>2, <3>3, SMTT(40)
  <2> QED BY <2>1, <2>2
<1> HIDE DEF from
<1>8. \A j \in 1 .. n : Within(old[j], old[j])
  BY <1>1, WithinReflexive
<1>9. \A k \in 1 .. n : \A x, y \in Nat : Covers(old[k], x, y) =>
        Covers(old[i], x, y) \/ \E j \in 1 .. n - 1 : Covers(new[j], x, y)
  BY <1>5, <1>7
<1>10. Cut(old, i, old[i], new, from)
  BY <1>1, <1>3, <1>4, <1>5, <1>6, <1>8, <1>9 DEF Cut
<1> QED BY <1>10 DEF new, from

LEMMA LeavesOne ==
    ASSUME NEW old \in Seq(Rect), NEW i \in DOMAIN old, NEW t \in Rect, NEW part \in Rect,
           Within(t, old[i]), Within(part, old[i]), Apart(part, t),
           \A x, y \in Nat : Covers(old[i], x, y) => Covers(t, x, y) \/ Covers(part, x, y)
    PROVE  Cut(old, i, t, [old EXCEPT ![i] = part], [j \in DOMAIN old |-> j])
<1> DEFINE new == [old EXCEPT ![i] = part]
           from == [j \in DOMAIN old |-> j]
<1>1. /\ new \in Seq(Rect) /\ DOMAIN new = DOMAIN old
      /\ new[i] = part /\ \A j \in DOMAIN old : j # i => new[j] = old[j]
  OBVIOUS
<1>2. \A j \in DOMAIN old : from[j] = j
  OBVIOUS
<1> HIDE DEF new, from
<1>3. \A j \in DOMAIN old : old[j] \in Rect /\ Within(old[j], old[j])
  BY WithinReflexive
<1>4. \A n \in DOMAIN old : \A x, y \in Nat : Covers(old[n], x, y) =>
         Covers(t, x, y) \/ \E j \in DOMAIN new : Covers(new[j], x, y)
  BY <1>1
<1>5. Cut(old, i, t, new, from)
  BY <1>1, <1>2, <1>3, <1>4 DEF Cut
<1> QED BY <1>5 DEF new, from

LEMMA LeavesTwo ==
    ASSUME NEW old \in Seq(Rect), NEW i \in DOMAIN old, NEW t \in Rect,
           NEW first \in Rect, NEW second \in Rect,
           Within(t, old[i]), Within(first, old[i]), Within(second, old[i]),
           Apart(first, t), Apart(second, t), Apart(first, second),
           \A x, y \in Nat : Covers(old[i], x, y) =>
               Covers(t, x, y) \/ Covers(first, x, y) \/ Covers(second, x, y)
    PROVE  Cut(old, i, t, Append([old EXCEPT ![i] = first], second),
               [j \in 1 .. Len(old) + 1 |-> IF j = Len(old) + 1 THEN i ELSE j])
<1> DEFINE n == Len(old)
           new == Append([old EXCEPT ![i] = first], second)
           from == [j \in 1 .. n + 1 |-> IF j = n + 1 THEN i ELSE j]
<1>1. n \in Nat /\ DOMAIN old = 1 .. n /\ i \in 1 .. n /\ \A j \in 1 .. n : old[j] \in Rect
  OBVIOUS
<1>2. [old EXCEPT ![i] = first] \in Seq(Rect) /\ Len([old EXCEPT ![i] = first]) = n
  BY <1>1
<1>3. /\ new \in Seq(Rect) /\ DOMAIN new = 1 .. n + 1
      /\ new[n + 1] = second /\ new[i] = first
      /\ \A j \in 1 .. n : j # i => new[j] = old[j]
  BY <1>1, <1>2
<1>4. from[n + 1] = i /\ \A j \in 1 .. n : from[j] = j
  BY <1>1
<1>5. \A j \in 1 .. n + 1 : j = n + 1 \/ j \in 1 .. n
  BY <1>1
<1>6. n + 1 \in 1 .. n + 1 /\ n + 1 \notin 1 .. n /\ 1 .. n \subseteq 1 .. n + 1
  BY <1>1
<1> HIDE DEF n, new, from
<1>7. \A j \in 1 .. n : Within(old[j], old[j])
  BY <1>1, WithinReflexive
<1>8. \A j \in 1 .. n + 1 :
         /\ from[j] \in 1 .. n
         /\ Within(new[j], old[from[j]])
         /\ from[j] = i => Apart(new[j], t)
  BY <1>1, <1>3, <1>4, <1>5, <1>7
<1>9. ASSUME NEW j \in 1 .. n + 1, NEW k \in 1 .. n + 1, j # k
      PROVE  from[j] # from[k] \/ Apart(new[j], new[k])
  <2>1. Apart(second, first)
    BY ApartSymmetric
  <2>2. CASE j \in 1 .. n /\ k \in 1 .. n
    BY <1>4, <1>9, <2>2
  <2>3. CASE j = n + 1 \/ k = n + 1
    BY <1>1, <1>3, <1>4, <1>5, <1>9, <2>1, <2>3
  <2> QED BY <1>5, <2>2, <2>3
<1>10. \A k \in 1 .. n : \A x, y \in Nat : Covers(old[k], x, y) =>
         Covers(t, x, y) \/ \E j \in 1 .. n + 1 : Covers(new[j], x, y)
  BY <1>1, <1>3, <1>6
<1>11. Cut(old, i, t, new, from)
  BY <1>1, <1>3, <1>8, <1>9, <1>10 DEF Cut
<1> QED BY <1>11 DEF n, new, from

(***************************************************************************)
(* raw_insert_inner cuts its candidate.                                    *)
(***************************************************************************)
LEMMA RectFields ==
    ASSUME NEW r \in Rect
    PROVE  r.x \in Nat /\ r.y \in Nat /\ r.w \in Nat /\ r.h \in Nat
BY DEF Rect

(* The two ways to cut, by the coordinates. *)
LEMMA CutInTwo ==
    ASSUME NEW r \in Rect, NEW t \in Rect, NEW part \in Rect,
           t.x = r.x, t.y = r.y,
           \/ /\ t.w = r.w /\ t.h <= r.h
              /\ part.x = r.x /\ part.y = r.y + t.h /\ part.w = r.w /\ part.h = r.h - t.h
           \/ /\ t.h = r.h /\ t.w <= r.w
              /\ part.x = r.x + t.w /\ part.y = r.y /\ part.w = r.w - t.w /\ part.h = r.h
    PROVE  /\ Within(t, r) /\ Within(part, r) /\ Apart(part, t)
           /\ \A x, y \in Nat : Covers(r, x, y) => Covers(t, x, y) \/ Covers(part, x, y)
<1>1. Within(t, r) /\ Within(part, r) /\ Apart(part, t)
  BY RectFields DEF Within, Apart
<1>2. \A x, y \in Nat : Covers(r, x, y) => Covers(t, x, y) \/ Covers(part, x, y)
  BY RectFields DEF Covers
<1> QED BY <1>1, <1>2

LEMMA CutInThree ==
    ASSUME NEW r \in Rect, NEW t \in Rect, NEW right \in Rect, NEW below \in Rect,
           t.x = r.x, t.y = r.y, t.w <= r.w, t.h <= r.h,
           right.x = r.x + t.w, right.y = r.y, right.w = r.w - t.w,
           below.x = r.x, below.y = r.y + t.h, below.h = r.h - t.h,
           \/ right.h = t.h /\ below.w = r.w
           \/ right.h = r.h /\ below.w = t.w
    PROVE  /\ Within(t, r) /\ Within(right, r) /\ Within(below, r)
           /\ Apart(right, t) /\ Apart(below, t) /\ Apart(right, below) /\ Apart(below, right)
           /\ \A x, y \in Nat : Covers(r, x, y) =>
                 Covers(t, x, y) \/ Covers(right, x, y) \/ Covers(below, x, y)
<1>1. Within(t, r) /\ Within(right, r) /\ Within(below, r)
  BY RectFields DEF Within
<1>2. Apart(right, t) /\ Apart(below, t) /\ Apart(right, below) /\ Apart(below, right)
  BY RectFields DEF Apart
<1>3. \A x, y \in Nat : Covers(r, x, y) =>
                 Covers(t, x, y) \/ Covers(right, x, y) \/ Covers(below, x, y)
  BY RectFields DEF Covers
<1> QED BY <1>1, <1>2, <1>3

LEMMA RectsAfterCuts ==
    ASSUME NEW old \in Seq(Rect), NEW w \in Nat, NEW h \in Nat,
           NEW i \in Candidates(old, w, h)
    PROVE  \E from : Cut(old, i, At(old[i].x, old[i].y, w, h), RectsAfter(old, i, w, h), from)
<1> DEFINE r == old[i]
           t == At(r.x, r.y, w, h)
           right == RemainsRight(r, w, h)
           below == RemainsBelow(r, w, h)
           new == RectsAfter(old, i, w, h)
<1>1. i \in DOMAIN old /\ r \in Rect /\ w <= r.w /\ h <= r.h
  BY DEF Candidates, Fits
<1>2. r.x \in Nat /\ r.y \in Nat /\ r.w \in Nat /\ r.h \in Nat
  BY <1>1, RectFields
<1>3. t \in Rect /\ t.x = r.x /\ t.y = r.y /\ t.w = w /\ t.h = h
  BY <1>2 DEF At, Rect
<1>4. CASE r.w = w /\ r.h = h
  <2>1. t = r
    BY <1>1, <1>4 DEF At, Rect
  <2>2. new = SwapRemove(old, i)
    BY <1>4 DEF RectsAfter
  <2> QED BY <1>1, <2>1, <2>2, TakesAll
<1>5. CASE r.w = w /\ r.h # h
  <2> DEFINE part == At(r.x, r.y + h, r.w, r.h - h)
  <2>1. new = [old EXCEPT ![i] = part]
    BY <1>5 DEF RectsAfter
  <2>2. r.y + h \in Nat /\ r.h - h \in Nat
    BY <1>1, <1>2
  <2>3. part \in Rect /\ part.x = r.x /\ part.y = r.y + h /\ part.w = r.w /\ part.h = r.h - h
    BY <1>2, <2>2 DEF At, Rect
  <2> HIDE DEF new, part, t
  <2>4. /\ Within(t, old[i]) /\ Within(part, old[i]) /\ Apart(part, t)
        /\ \A x, y \in Nat : Covers(old[i], x, y) => Covers(t, x, y) \/ Covers(part, x, y)
    BY <1>1, <1>3, <1>5, <2>3, CutInTwo
  <2>5. Cut(old, i, t, new, [j \in DOMAIN old |-> j])
    BY <1>1, <1>3, <2>1, <2>3, <2>4, LeavesOne
  <2> QED BY <2>5 DEF new, t
<1>6. CASE r.w # w /\ r.h = h
  <2> DEFINE part == At(r.x + w, r.y, r.w - w, r.h)
  <2>1. new = [old EXCEPT ![i] = part]
    BY <1>6 DEF RectsAfter
  <2>2. r.x + w \in Nat /\ r.w - w \in Nat
    BY <1>1, <1>2
  <2>3. part \in Rect /\ part.x = r.x + w /\ part.y = r.y /\ part.w = r.w - w /\ part.h = r.h
    BY <1>2, <2>2 DEF At, Rect
  <2> HIDE DEF new, part, t
  <2>4. /\ Within(t, old[i]) /\ Within(part, old[i]) /\ Apart(part, t)
        /\ \A x, y \in Nat : Covers(old[i], x, y) => Covers(t, x, y) \/ Covers(part, x, y)
    BY <1>1, <1>3, <1>6, <2>3, CutInTwo
  <2>5. Cut(old, i, t, new, [j \in DOMAIN old |-> j])
    BY <1>1, <1>3, <2>1, <2>3, <2>4, LeavesOne
  <2> QED BY <2>5 DEF new, t
<1>7. CASE r.w # w /\ r.h # h
  <2>1. \/ /\ right = At(r.x + w, r.y, r.w - w, h)
           /\ below = At(r.x, r.y + h, r.w, r.h - h)
        \/ /\ right = At(r.x + w, r.y, r.w - w, r.h)
           /\ below = At(r.x, r.y + h, w, r.h - h)
    BY DEF RemainsRight, RemainsBelow
  <2>2. \/ new = Append([old EXCEPT ![i] = right], below)
        \/ new = Append([old EXCEPT ![i] = below], right)
    BY <1>7 DEF RectsAfter
  <2>3. /\ r.x + w \in Nat /\ r.w - w \in Nat
        /\ r.y + h \in Nat /\ r.h - h \in Nat
    <3>1. r.x + w \in Nat /\ r.w - w \in Nat
      BY <1>1, <1>2
    <3>2. r.y + h \in Nat /\ r.h - h \in Nat
      BY <1>1, <1>2
    <3> QED BY <3>1, <3>2
  <2> HIDE DEF right, below, t, new
  <2>4. /\ right \in Rect /\ right.x = r.x + w /\ right.y = r.y /\ right.w = r.w - w
        /\ below \in Rect /\ below.x = r.x /\ below.y = r.y + h /\ below.h = r.h - h
        /\ \/ right.h = h /\ below.w = r.w
           \/ right.h = r.h /\ below.w = w
    <3>1. CASE /\ right = At(r.x + w, r.y, r.w - w, h)
               /\ below = At(r.x, r.y + h, r.w, r.h - h)
      <4>1. right \in Rect /\ right.x = r.x + w /\ right.y = r.y /\ right.w = r.w - w /\ right.h = h
        BY <1>2, <2>3, <3>1 DEF At, Rect
      <4>2. below \in Rect /\ below.x = r.x /\ below.y = r.y + h /\ below.h = r.h - h /\ below.w = r.w
        BY <1>2, <2>3, <3>1 DEF At, Rect
      <4> QED BY <4>1, <4>2
    <3>2. CASE /\ right = At(r.x + w, r.y, r.w - w, r.h)
               /\ below = At(r.x, r.y + h, w, r.h - h)
      <4>1. right \in Rect /\ right.x = r.x + w /\ right.y = r.y /\ right.w = r.w - w /\ right.h = r.h
        BY <1>2, <2>3, <3>2 DEF At, Rect
      <4>2. below \in Rect /\ below.x = r.x /\ below.y = r.y + h /\ below.h = r.h - h /\ below.w = w
        BY <1>2, <2>3, <3>2 DEF At, Rect
      <4> QED BY <4>1, <4>2
    <3> QED BY <2>1, <3>1, <3>2
  <2>5. /\ Within(t, old[i]) /\ Within(right, old[i]) /\ Within(below, old[i])
        /\ Apart(right, t) /\ Apart(below, t) /\ Apart(right, below) /\ Apart(below, right)
        /\ \A x, y \in Nat : Covers(old[i], x, y) =>
              Covers(t, x, y) \/ Covers(right, x, y) \/ Covers(below, x, y)
    BY <1>1, <1>3, <2>4, CutInThree
  <2>6. \A x, y \in Nat : Covers(old[i], x, y) =>
              Covers(t, x, y) \/ Covers(below, x, y) \/ Covers(right, x, y)
    BY <2>5
  <2>7. \E from : Cut(old, i, t, new, from)
    <3>1. CASE new = Append([old EXCEPT ![i] = right], below)
      BY <1>1, <1>3, <2>4, <2>5, <3>1, LeavesTwo
    <3>2. CASE new = Append([old EXCEPT ![i] = below], right)
      BY <1>1, <1>3, <2>4, <2>5, <2>6, <3>2, LeavesTwo
    <3> QED BY <2>2, <3>1, <3>2
  <2> QED BY <2>7 DEF t, new
<1> QED BY <1>4, <1>5, <1>6, <1>7

(***************************************************************************)
(* insert: what was apart stays apart, and what was covered stays covered. *)
(***************************************************************************)
LEMMA InsertKeeps ==
    ASSUME NEW p, NEW k, NEW w \in Nat, NEW h \in Nat, NEW whole \in Rect,
           Packer(p), k \notin DOMAIN p.cached, HasRoom(p, w, h),
           TilesAre(p.cached, whole), RectsAre(p.rects, p.cached, whole)
    PROVE  LET q == Inserted(p, k, w, h) IN
           /\ Packer(q)
           /\ DOMAIN q.cached = DOMAIN p.cached \cup {k}
           /\ q.cached[k] = TileFor(p, w, h)
           /\ \A l \in DOMAIN p.cached : q.cached[l] = p.cached[l]
           /\ TilesAre(q.cached, whole)
           /\ RectsAre(q.rects, q.cached, whole)
           /\ \A x, y \in Nat : Somewhere(p, x, y) => Somewhere(q, x, y)
<1> DEFINE q == Inserted(p, k, w, h)
           i == BestCandidate(p.rects, w, h)
           old == p.rects
           new == q.rects
           t == TileFor(p, w, h)
<1>1. old \in Seq(Rect) /\ \A l \in DOMAIN p.cached : p.cached[l] \in Rect
  BY DEF Packer
<1>2. i \in Candidates(old, w, h)
  BY <1>1, BestCandidateFits DEF HasRoom
<1>3. i \in DOMAIN old
  BY <1>2 DEF Candidates
<1>4. /\ t = At(old[i].x, old[i].y, w, h)
      /\ new = RectsAfter(old, i, w, h)
      /\ q.cached = With(p.cached, k, t)
  BY DEF Inserted, TileFor
<1>5. PICK from : Cut(old, i, t, new, from)
  BY <1>1, <1>2, <1>4, RectsAfterCuts
<1>6. /\ DOMAIN q.cached = DOMAIN p.cached \cup {k}
      /\ q.cached[k] = t
      /\ \A l \in DOMAIN p.cached : q.cached[l] = p.cached[l]
  BY <1>4 DEF With
<1> HIDE DEF q, i, old, new, t
<1>7. /\ new \in Seq(Rect) /\ t \in Rect /\ Within(t, old[i])
      /\ \A j \in DOMAIN new :
           /\ from[j] \in DOMAIN old
           /\ Within(new[j], old[from[j]])
           /\ from[j] = i => Apart(new[j], t)
      /\ \A j, n \in DOMAIN new : j # n => from[j] # from[n] \/ Apart(new[j], new[n])
  BY <1>5 DEF Cut
<1>8. /\ \A j \in DOMAIN old : old[j] \in Rect
      /\ \A j \in DOMAIN new : new[j] \in Rect
  BY <1>1, <1>7
<1>9. /\ \A j \in DOMAIN old : Within(old[j], whole)
      /\ \A j \in DOMAIN old, l \in DOMAIN p.cached : Apart(old[j], p.cached[l])
      /\ \A j, n \in DOMAIN old : j # n => Apart(old[j], old[n])
  BY DEF RectsAre, old
<1>10. Packer(q)
  BY <1>1, <1>6, <1>7 DEF Packer, new
<1>11. \A l \in DOMAIN p.cached : Apart(t, p.cached[l]) /\ Apart(p.cached[l], t)
  BY <1>1, <1>3, <1>7, <1>8, <1>9, PartsApart, WithinReflexive
<1>12. TilesAre(q.cached, whole)
  <2>1. Within(t, whole)
    BY <1>3, <1>7, <1>8, <1>9, WithinTransitive
  <2>2. /\ \A l \in DOMAIN p.cached : Within(p.cached[l], whole)
        /\ \A l, n \in DOMAIN p.cached : l # n => Apart(p.cached[l], p.cached[n])
    BY DEF TilesAre
  <2> QED BY <1>6, <1>11, <2>1, <2>2 DEF TilesAre
<1>13. \A j \in DOMAIN new : Within(new[j], whole)
  BY <1>7, <1>8, <1>9, WithinTransitive
<1>14. \A j \in DOMAIN new, l \in DOMAIN q.cached : Apart(new[j], q.cached[l])
  <2>1. ASSUME NEW j \in DOMAIN new, NEW l \in DOMAIN p.cached
        PROVE  Apart(new[j], p.cached[l])
    <3> DEFINE b == old[from[j]]
               c == p.cached[l]
    <3>1. new[j] \in Rect /\ b \in Rect /\ c \in Rect
      BY <1>1, <1>7, <1>8
    <3>2. Within(new[j], b) /\ Within(c, c) /\ Apart(b, c)
      BY <1>7, <1>9, <3>1, WithinReflexive
    <3> HIDE DEF b, c
    <3>3. Apart(new[j], c)
      BY <3>1, <3>2, PartsApart
    <3> QED BY <3>3 DEF c
  <2>2. ASSUME NEW j \in DOMAIN new
        PROVE  Apart(new[j], t)
    <3>1. CASE from[j] = i
      BY <1>7, <3>1
    <3>2. CASE from[j] # i
      <4>1. Apart(old[from[j]], old[i])
        BY <1>3, <1>7, <1>9, <3>2
      <4> QED BY <1>3, <1>7, <1>8, <4>1, PartsApart
    <3> QED BY <3>1, <3>2
  <2> QED BY <1>6, <2>1, <2>2
<1>15. ASSUME NEW j \in DOMAIN new, NEW n \in DOMAIN new, j # n
       PROVE  Apart(new[j], new[n])
  <2>1. CASE from[j] # from[n]
    <3>1. Apart(old[from[j]], old[from[n]])
      BY <1>7, <1>9, <2>1
    <3> QED BY <1>7, <1>8, <3>1, PartsApart
  <2>2. CASE from[j] = from[n]
    BY <1>7, <1>15, <2>2
  <2> QED BY <2>1, <2>2
<1>16. RectsAre(new, q.cached, whole)
  BY <1>13, <1>14, <1>15 DEF RectsAre
<1>17. ASSUME NEW x \in Nat, NEW y \in Nat, Somewhere(p, x, y)
       PROVE  Somewhere(q, x, y)
  <2>1. CASE \E l \in DOMAIN p.cached : Covers(p.cached[l], x, y)
    BY <1>6, <2>1 DEF Somewhere
  <2>2. CASE \E n \in DOMAIN old : Covers(old[n], x, y)
    <3>1. Covers(t, x, y) \/ \E j \in DOMAIN new : Covers(new[j], x, y)
      BY <1>5, <2>2 DEF Cut
    <3> QED BY <1>6, <3>1 DEF Somewhere, new
  <2> QED BY <1>17, <2>1, <2>2 DEF Somewhere, old
<1> QED BY <1>6, <1>10, <1>12, <1>16, <1>17 DEF q, new, t

(* A new packer has the whole as its one free rectangle. *)
LEMMA NewKeeps ==
    ASSUME NEW w \in Nat, NEW h \in Nat
    PROVE  LET q == NewPacker(w, h)
               whole == At(0, 0, w, h) IN
           /\ Packer(q) /\ DOMAIN q.cached = {}
           /\ whole \in Rect
           /\ TilesAre(q.cached, whole)
           /\ RectsAre(q.rects, q.cached, whole)
           /\ \A x \in 0 .. w - 1, y \in 0 .. h - 1 : Somewhere(q, x, y)
<1> DEFINE q == NewPacker(w, h)
           whole == At(0, 0, w, h)
<1>1. whole \in Rect
  BY DEF At, Rect
<1>2. /\ q.rects = <<whole>> /\ DOMAIN q.cached = {}
      /\ DOMAIN q.rects = {1} /\ q.rects[1] = whole /\ q.rects \in Seq(Rect)
  BY <1>1 DEF NewPacker, NoTiles
<1>3. Within(whole, whole)
  BY <1>1, WithinReflexive
<1>4. \A x \in 0 .. w - 1, y \in 0 .. h - 1 : Covers(whole, x, y)
  BY DEF At, Covers
<1> HIDE DEF q, whole
<1>5. Packer(q) /\ TilesAre(q.cached, whole) /\ RectsAre(q.rects, q.cached, whole)
  BY <1>2, <1>3 DEF Packer, TilesAre, RectsAre
<1>6. \A x \in 0 .. w - 1, y \in 0 .. h - 1 : Somewhere(q, x, y)
  BY <1>2, <1>4 DEF Somewhere
<1> QED BY <1>1, <1>2, <1>5, <1>6 DEF q, whole

-----------------------------------------------------------------------------
(* The glyph cache.                                                        *)

Packing == TilesApart /\ FreeIsFree /\ NothingWasted

(* What the phases mean: outside an eviction nothing waits to be put back, *)
(* during one the glyph it is for has no tile yet, and no block has        *)
(* vertices of the update that is under way.                               *)
Phases ==
    /\ \A i, j \in DOMAIN readd : i # j => readd[i] # readd[j]
    /\ Elements(readd) \subseteq DOMAIN contents
    /\ phase \in {"idle", "update"} => readd = <<>>
    /\ phase = "evict" => /\ todo # <<>>
                          /\ Head(todo) \notin DOMAIN contents
                          /\ lastEviction = generation
    /\ phase \in {"update", "evict"} => \A b \in Blocks : runs[b].generation < generation

IInv ==
    /\ TypeOK
    /\ DOMAIN runs = Blocks
    /\ Packing
    /\ PackerAgrees
    /\ RunsStayRight
    /\ Phases

-----------------------------------------------------------------------------
LEMMA AtlasIsRect == Atlas \in Rect
BY AtlasAssumption DEF Atlas, At, Rect

LEMMA ExtentFields ==
    ASSUME NEW g \in Glyphs
    PROVE  Extent[g].w \in Nat /\ Extent[g].h \in Nat
<1>1. Extent[g] \in [w : Nat, h : Nat]
  BY GlyphsAssumption
<1> QED BY <1>1

LEMMA PaddedFields ==
    ASSUME NEW e, e.w \in Nat, e.h \in Nat
    PROVE  Padded(e).w \in Nat /\ Padded(e).h \in Nat
BY AtlasAssumption DEF Padded

LEMMA ElementsOfSequence ==
    ASSUME NEW s \in Seq(Glyphs)
    PROVE  Elements(s) \subseteq Glyphs /\ IsFiniteSet(Elements(s))
<1>1. Elements(s) \subseteq Glyphs
  BY DEF Elements
<1> QED BY <1>1, GlyphsAssumption, FS_Subset

(* An ordering of a set of glyphs has each of them once. *)
LEMMA OrderingIsSequence ==
    ASSUME NEW size, DOMAIN size \subseteq Glyphs, NEW s \in Orderings(size)
    PROVE  /\ s \in Seq(Glyphs) /\ Elements(s) = DOMAIN size
           /\ \A i, j \in DOMAIN s : i # j => s[i] # s[j]
<1> DEFINE S == DOMAIN size
<1>1. IsFiniteSet(S)
  BY GlyphsAssumption, FS_Subset
<1>2. Cardinality(S) \in Nat
  BY <1>1, FS_CardinalityType
<1>3. s \in [1 .. Cardinality(S) -> S]
  BY DEF Orderings
<1>4. s \in Seq(S)
  BY <1>2, <1>3
<1>5. s \in Seq(Glyphs)
  BY <1>4
<1>6. Elements(s) = S
  BY DEF Orderings
<1>7. \A i, j \in DOMAIN s : i < j => s[i] # s[j]
  BY DEF Orderings
<1>8. ASSUME NEW i \in DOMAIN s, NEW j \in DOMAIN s, i # j
      PROVE  s[i] # s[j]
  <2>1. i \in Nat /\ j \in Nat
    BY <1>2, <1>3
  <2>2. i < j \/ j < i
    BY <1>8, <2>1
  <2> QED BY <1>7, <2>2
<1> QED BY <1>5, <1>6, <1>8

(* A text that is found as a whole has all its glyphs in the contents. *)
LEMMA FoundIsPresent ==
    ASSUME NEW s \in Seq(Glyphs)
    PROVE  Found(s) \subseteq DOMAIN contents
<1>1. \A i \in DOMAIN s : i \in Nat /\ i \in 1 .. i
  OBVIOUS
<1> QED BY <1>1 DEF Found

LEMMA LookUpKeeps ==
    ASSUME TypeOK, NEW s, LookUp(s)
    PROVE  /\ DOMAIN contents' = DOMAIN contents
           /\ \A g \in DOMAIN contents :
                /\ contents'[g] \in [tile : Rect, generation : 0 .. generation]
                /\ contents'[g].tile = contents[g].tile
<1>1. generation \in 0 .. generation
  BY DEF TypeOK
<1>2. contents' = [g \in DOMAIN contents |->
                   IF g \in Found(s) THEN [contents[g] EXCEPT !.generation = generation]
                                     ELSE contents[g]]
  BY DEF LookUp
<1>3. ASSUME NEW g \in DOMAIN contents
      PROVE  /\ contents'[g] \in [tile : Rect, generation : 0 .. generation]
             /\ contents'[g].tile = contents[g].tile
  <2>1. contents[g] \in [tile : Rect, generation : 0 .. generation]
    BY DEF TypeOK
  <2>2. \/ contents'[g] = [contents[g] EXCEPT !.generation = generation]
        \/ contents'[g] = contents[g]
    BY <1>2
  <2> QED BY <1>1, <2>1, <2>2
<1> QED BY <1>2, <1>3

(* A new tile. *)
LEMMA PutTileKeeps ==
    ASSUME TypeOK, Packing, PackerAgrees, NEW g \in Glyphs, g \notin DOMAIN packer.cached,
           NEW e, e.w \in Nat, e.h \in Nat, Room(e), PutTile(g, e)
    PROVE  /\ Packer(packer') /\ Packing'
           /\ DOMAIN packer'.cached = DOMAIN packer.cached \cup {g}
           /\ \A o \in DOMAIN packer.cached : packer'.cached[o] = packer.cached[o]
           /\ packer'.cached[g] = contents'[g].tile
           /\ DOMAIN contents' = DOMAIN contents \cup {g}
           /\ contents'[g] \in [tile : Rect, generation : 0 .. generation]
           /\ \A o \in DOMAIN contents : o # g => contents'[o] = contents[o]
<1> DEFINE w == Padded(e).w
           h == Padded(e).h
           q == Inserted(packer, g, w, h)
           tile == TileFor(packer, w, h)
<1>1. w \in Nat /\ h \in Nat
  BY PaddedFields
<1>2. /\ packer' = q
      /\ contents' = With(contents, g, [tile |-> tile, generation |-> generation])
  BY DEF PutTile
<1>3. HasRoom(packer, w, h)
  BY DEF Room
<1>4. Packer(packer)
  BY DEF TypeOK, Packer
<1>5. TilesAre(packer.cached, Atlas) /\ RectsAre(packer.rects, packer.cached, Atlas)
  BY DEF Packing, TilesApart, FreeIsFree, TilesAre, RectsAre, Tiles, Free
<1> HIDE DEF w, h
<1>6. /\ Packer(q)
      /\ DOMAIN q.cached = DOMAIN packer.cached \cup {g}
      /\ q.cached[g] = tile
      /\ \A o \in DOMAIN packer.cached : q.cached[o] = packer.cached[o]
      /\ TilesAre(q.cached, Atlas)
      /\ RectsAre(q.rects, q.cached, Atlas)
      /\ \A x, y \in Nat : Somewhere(packer, x, y) => Somewhere(q, x, y)
  BY <1>1, <1>3, <1>4, <1>5, AtlasIsRect, InsertKeeps
<1> HIDE DEF q
<1>7. Packing'
  <2>1. TilesApart'
    BY <1>2, <1>6 DEF TilesApart, TilesAre, Tiles, Atlas
  <2>2. FreeIsFree'
    BY <1>2, <1>6 DEF FreeIsFree, RectsAre, Tiles, Free, Atlas
  <2>3. NothingWasted'
    <3>1. \A x, y \in 0 .. Side - 1 : x \in Nat /\ y \in Nat
      OBVIOUS
    <3>2. \A x, y \in 0 .. Side - 1 : Somewhere(packer, x, y)
      BY DEF Packing, NothingWasted, Somewhere, Tiles, Free
    <3>3. \A x, y \in 0 .. Side - 1 : Somewhere(q, x, y)
      BY <1>6, <3>1, <3>2
    <3> QED BY <1>2, <3>3 DEF NothingWasted, Somewhere, Tiles, Free
  <2> QED BY <2>1, <2>2, <2>3 DEF Packing
<1>8. tile \in Rect
  BY <1>6 DEF Packer
<1> HIDE DEF tile
<1>9. [tile |-> tile, generation |-> generation] \in [tile : Rect, generation : 0 .. generation]
  BY <1>8 DEF TypeOK
<1>10. /\ DOMAIN contents' = DOMAIN contents \cup {g}
       /\ contents'[g] = [tile |-> tile, generation |-> generation]
       /\ \A o \in DOMAIN contents : o # g => contents'[o] = contents[o]
  BY <1>2 DEF With
<1> QED BY <1>2, <1>6, <1>7, <1>9, <1>10

(* What a step that leaves the packer alone keeps of the packing. *)
LEMMA SamePacker ==
    ASSUME Packing, UNCHANGED packer
    PROVE  Packing'
BY DEF Packing, TilesApart, FreeIsFree, NothingWasted, Tiles, Free, Atlas

(* What a step keeps of the vertices that marks tiles as used, or gives a  *)
(* tile to a glyph that has none.                                          *)
LEMMA SameTiles ==
    ASSUME RunsStayRight, UNCHANGED runs, UNCHANGED lastEviction,
           DOMAIN contents \subseteq DOMAIN contents',
           \A g \in DOMAIN contents : contents'[g].tile = contents[g].tile
    PROVE  RunsStayRight'
BY DEF RunsStayRight, Unpadded

-----------------------------------------------------------------------------
LEMMA InitIInv == Init => IInv
<1> SUFFICES ASSUME Init PROVE IInv
  OBVIOUS
<1>1. Side \in Nat
  BY AtlasAssumption
<1>2. /\ Packer(packer) /\ DOMAIN packer.cached = {}
      /\ TilesAre(packer.cached, Atlas)
      /\ RectsAre(packer.rects, packer.cached, Atlas)
      /\ \A x \in 0 .. Side - 1, y \in 0 .. Side - 1 : Somewhere(packer, x, y)
  BY <1>1, NewKeeps DEF Init, Atlas
<1>3. \A b \in Blocks : runs[b] = NoRun
  BY DEF Init
<1>4. DOMAIN contents = {} /\ readd = <<>> /\ Elements(readd) = {}
  BY DEF Init, Elements
<1>5. TypeOK
  <2>1. packer.rects \in Seq(Rect) /\ DOMAIN packer.cached = {}
    BY <1>2 DEF Packer
  <2>2. \A b \in Blocks : runs[b].generation \in 0 .. generation
    BY <1>3 DEF Init, NoRun
  <2> QED BY <1>4, <2>1, <2>2 DEF Init, TypeOK
<1>6. DOMAIN runs = Blocks
  BY DEF Init
<1>7. Packing
  BY <1>2 DEF Packing, TilesApart, FreeIsFree, NothingWasted, TilesAre, RectsAre, Somewhere,
              Tiles, Free
<1>8. PackerAgrees
  BY <1>2, <1>4 DEF PackerAgrees, Tiles
<1>9. RunsStayRight
  BY <1>3 DEF RunsStayRight, NoRun, Elements
<1>10. Phases
  BY <1>4 DEF Init, Phases
<1> QED BY <1>5, <1>6, <1>7, <1>8, <1>9, <1>10 DEF IInv

-----------------------------------------------------------------------------
(***************************************************************************)
(* One lemma for every action.                                             *)
(***************************************************************************)
LEMMA FilledRuns ==
    ASSUME IInv, NEW drawn, NEW s \in Seq(Glyphs), AllFound(s), LookUp(s), Filled(drawn, s),
           UNCHANGED <<generation, lastEviction>>
    PROVE  /\ DOMAIN runs' = Blocks
           /\ \A b \in Blocks : runs'[b].generation \in 0 .. generation
           /\ RunsStayRight'
<1> DEFINE run == [spec |-> s, generation |-> generation,
                   squares |-> [g \in Elements(s) |-> Unpadded(contents[g].tile)]]
<1>1. /\ DOMAIN contents' = DOMAIN contents
      /\ \A g \in DOMAIN contents : contents'[g].tile = contents[g].tile
  BY LookUpKeeps DEF IInv
<1>2. Elements(s) \subseteq DOMAIN contents
  BY FoundIsPresent DEF AllFound
<1>3. runs' = [b \in Blocks |-> IF b \in drawn THEN run ELSE runs[b]]
  BY DEF Filled
<1>4. /\ run.spec = s /\ run.generation = generation
      /\ \A g \in Elements(s) : run.squares[g] = Unpadded(contents[g].tile)
  OBVIOUS
<1> HIDE DEF run
<1>5. \A b \in Blocks : runs'[b].generation \in 0 .. generation
  BY <1>3, <1>4 DEF IInv, TypeOK
<1>6. ASSUME NEW b \in Blocks, runs'[b].generation >= lastEviction,
             NEW g \in Elements(runs'[b].spec)
      PROVE  g \in DOMAIN contents' /\ runs'[b].squares[g] = Unpadded(contents'[g].tile)
  <2>1. CASE b \in drawn
    <3>1. runs'[b] = run
      BY <1>3, <2>1
    <3>2. g \in Elements(s)
      BY <1>4, <1>6, <3>1
    <3>3. g \in DOMAIN contents /\ contents'[g].tile = contents[g].tile
      BY <1>1, <1>2, <3>2
    <3> QED BY <1>1, <1>4, <3>1, <3>2, <3>3 DEF Unpadded
  <2>2. CASE b \notin drawn
    <3>1. runs'[b] = runs[b]
      BY <1>3, <2>2
    <3>2. g \in DOMAIN contents /\ runs[b].squares[g] = Unpadded(contents[g].tile)
      BY <1>6, <3>1 DEF IInv, RunsStayRight
    <3> QED BY <1>1, <3>1, <3>2 DEF Unpadded
  <2> QED BY <2>1, <2>2
<1>7. RunsStayRight'
  BY <1>6 DEF RunsStayRight
<1> QED BY <1>3, <1>5, <1>7

(* The contents are typed after a look-up, and agree with the packer.      *)
LEMMA LookUpAgrees ==
    ASSUME IInv, NEW s, LookUp(s), UNCHANGED <<packer, readd>>
    PROVE  PackerAgrees' /\ DOMAIN contents' = DOMAIN contents
<1>1. /\ DOMAIN contents' = DOMAIN contents
      /\ \A g \in DOMAIN contents : contents'[g].tile = contents[g].tile
  BY LookUpKeeps DEF IInv
<1>2. Elements(readd)' = Elements(readd)
  BY DEF Elements
<1> QED BY <1>1, <1>2 DEF IInv, PackerAgrees, Tiles

LEMMA RenderRunKeeps ==
    ASSUME IInv, NEW b \in Blocks, NEW s \in Texts, RenderRun(b, s)
    PROVE  IInv'
<1>1. s \in Seq(Glyphs)
  BY GlyphsAssumption
<1>2. /\ LookUp(s) /\ AllFound(s) /\ Filled({b}, s) /\ phase = "idle"
      /\ UNCHANGED <<packer, generation, phase, block, spec, todo, readd, lastEviction>>
  BY DEF RenderRun
<1>3. /\ DOMAIN runs' = Blocks
      /\ \A c \in Blocks : runs'[c].generation \in 0 .. generation
      /\ RunsStayRight'
  BY <1>1, <1>2, FilledRuns
<1>4. PackerAgrees' /\ DOMAIN contents' = DOMAIN contents
  BY <1>2, LookUpAgrees
<1>5. \A g \in DOMAIN contents : contents'[g] \in [tile : Rect, generation : 0 .. generation]
  BY <1>2, LookUpKeeps DEF IInv
<1>6. TypeOK'
  BY <1>2, <1>3, <1>4, <1>5 DEF IInv, TypeOK
<1>7. Packing'
  BY <1>2, SamePacker DEF IInv
<1>8. Phases'
  BY <1>2, <1>4 DEF IInv, Phases, Elements
<1> QED BY <1>3, <1>4, <1>6, <1>7, <1>8 DEF IInv

LEMMA FillAgainKeeps ==
    ASSUME IInv, FillAgain
    PROVE  IInv'
<1>1. spec \in Seq(Glyphs)
  BY DEF IInv, TypeOK
<1>2. /\ LookUp(spec) /\ AllFound(spec) /\ Filled(block, spec) /\ phase = "update"
      /\ phase' = "idle" /\ block' = {} /\ spec' = <<>>
      /\ UNCHANGED <<packer, generation, todo, readd, lastEviction>>
  BY DEF FillAgain
<1>3. /\ DOMAIN runs' = Blocks
      /\ \A c \in Blocks : runs'[c].generation \in 0 .. generation
      /\ RunsStayRight'
  BY <1>1, <1>2, FilledRuns
<1>4. PackerAgrees' /\ DOMAIN contents' = DOMAIN contents
  BY <1>2, LookUpAgrees
<1>5. \A g \in DOMAIN contents : contents'[g] \in [tile : Rect, generation : 0 .. generation]
  BY <1>2, LookUpKeeps DEF IInv
<1>6. TypeOK'
  BY <1>2, <1>3, <1>4, <1>5 DEF IInv, TypeOK
<1>7. Packing'
  BY <1>2, SamePacker DEF IInv
<1>8. Phases'
  BY <1>2, <1>4 DEF IInv, Phases, Elements
<1> QED BY <1>3, <1>4, <1>6, <1>7, <1>8 DEF IInv

LEMMA StartUpdateKeeps ==
    ASSUME IInv, NEW b \in Blocks, NEW s \in Texts, StartUpdate(b, s)
    PROVE  IInv'
<1> DEFINE size == [g \in Elements(s) |-> Extent[g]]
<1>1. s \in Seq(Glyphs)
  BY GlyphsAssumption
<1>2. /\ LookUp(s) /\ phase = "idle" /\ phase' = "update" /\ block' = {b} /\ spec' = s
      /\ generation' = generation + 1
      /\ runs' = [runs EXCEPT ![b] = NoRun]
      /\ todo' \in Orderings(size)
      /\ UNCHANGED <<packer, readd, lastEviction>>
  BY DEF StartUpdate
<1>3. todo' \in Seq(Glyphs)
  <2>1. DOMAIN size \subseteq Glyphs
    BY <1>1, ElementsOfSequence
  <2> HIDE DEF size
  <2> QED BY <1>2, <2>1, OrderingIsSequence
<1>4. generation \in Nat /\ 0 .. generation \subseteq 0 .. generation'
  BY <1>2 DEF IInv, TypeOK
<1>5. \A c \in Blocks : runs'[c] = runs[c] \/ runs'[c] = NoRun
  BY <1>2 DEF IInv
<1>6. DOMAIN runs' = Blocks
  BY <1>2 DEF IInv
<1>7. \A c \in Blocks : /\ runs'[c].generation \in 0 .. generation'
                        /\ runs'[c].generation < generation'
  BY <1>2, <1>4, <1>5 DEF IInv, TypeOK, NoRun
<1>8. PackerAgrees' /\ DOMAIN contents' = DOMAIN contents
  BY <1>2, LookUpAgrees
<1>9. \A g \in DOMAIN contents : /\ contents'[g] \in [tile : Rect, generation : 0 .. generation]
                                 /\ contents'[g].tile = contents[g].tile
  BY <1>2, LookUpKeeps DEF IInv
<1>10. \A g \in DOMAIN contents : contents'[g] \in [tile : Rect, generation : 0 .. generation']
  BY <1>4, <1>9
<1>11. TypeOK'
  <2>1. /\ generation' \in Nat /\ lastEviction' \in 0 .. generation'
        /\ {b} \subseteq Blocks
    BY <1>2, <1>4 DEF IInv, TypeOK
  <2> HIDE DEF size
  <2> QED BY <1>1, <1>2, <1>3, <1>7, <1>8, <1>10, <2>1 DEF IInv, TypeOK
<1>12. Packing'
  BY <1>2, SamePacker DEF IInv
<1>13. RunsStayRight'
  <2>1. ASSUME NEW c \in Blocks, runs'[c].generation >= lastEviction,
               NEW g \in Elements(runs'[c].spec)
        PROVE  g \in DOMAIN contents' /\ runs'[c].squares[g] = Unpadded(contents'[g].tile)
    <3>1. runs'[c] = runs[c]
      BY <1>5, <2>1 DEF NoRun, Elements
    <3>2. g \in DOMAIN contents /\ runs[c].squares[g] = Unpadded(contents[g].tile)
      BY <2>1, <3>1 DEF IInv, RunsStayRight
    <3> QED BY <1>8, <1>9, <3>1, <3>2 DEF Unpadded
  <2> QED BY <1>2, <2>1 DEF RunsStayRight
<1>14. Phases'
  BY <1>2, <1>7, <1>8 DEF IInv, Phases, Elements
<1> QED BY <1>6, <1>8, <1>11, <1>12, <1>13, <1>14 DEF IInv

LEMMA TailOfGlyphs ==
    ASSUME NEW s \in Seq(Glyphs), s # <<>>
    PROVE  /\ Head(s) \in Glyphs /\ Tail(s) \in Seq(Glyphs)
           /\ Elements(s) = {Head(s)} \cup Elements(Tail(s))
           /\ (\A i, j \in DOMAIN s : i # j => s[i] # s[j]) =>
                 /\ Head(s) \notin Elements(Tail(s))
                 /\ \A i, j \in DOMAIN Tail(s) : i # j => Tail(s)[i] # Tail(s)[j]
<1> DEFINE n == Len(s)
           t == Tail(s)
<1>1. n \in Nat /\ n > 0 /\ DOMAIN s = 1 .. n /\ \A i \in 1 .. n : s[i] \in Glyphs
  OBVIOUS
<1>2. Head(s) = s[1] /\ 1 \in 1 .. n
  BY <1>1
<1>3. t \in Seq(Glyphs) /\ DOMAIN t = 1 .. n - 1
  OBVIOUS
<1>4. \A i \in 1 .. n - 1 : t[i] = s[i + 1] /\ i + 1 \in 1 .. n /\ i + 1 # 1
  OBVIOUS
<1>5. \A i \in 1 .. n : i = 1 \/ (i - 1 \in 1 .. n - 1 /\ (i - 1) + 1 = i)
  BY <1>1
<1> HIDE DEF n, t
<1>6. Elements(s) = {Head(s)} \cup Elements(t)
  <2>1. ASSUME NEW i \in 1 .. n PROVE s[i] \in {Head(s)} \cup Elements(t)
    <3>1. CASE i = 1
      BY <1>2, <3>1
    <3>2. CASE i - 1 \in 1 .. n - 1 /\ (i - 1) + 1 = i
      BY <1>3, <1>4, <3>2 DEF Elements
    <3> QED BY <1>5, <3>1, <3>2
  <2>2. \A i \in 1 .. n - 1 : t[i] \in Elements(s)
    BY <1>1, <1>4 DEF Elements
  <2>3. Head(s) \in Elements(s)
    BY <1>1, <1>2 DEF Elements
  <2> QED BY <1>1, <1>3, <2>1, <2>2, <2>3 DEF Elements
<1>7. ASSUME \A i, j \in DOMAIN s : i # j => s[i] # s[j]
      PROVE  /\ Head(s) \notin Elements(t)
             /\ \A i, j \in DOMAIN t : i # j => t[i] # t[j]
  <2>1. Head(s) \notin Elements(t)
    BY <1>1, <1>2, <1>3, <1>4, <1>7 DEF Elements
  <2>2. ASSUME NEW i \in DOMAIN t, NEW j \in DOMAIN t, i # j
        PROVE  t[i] # t[j]
    <3>1. i + 1 # j + 1
      BY <1>3, <2>2
    <3>2. i + 1 \in DOMAIN s /\ j + 1 \in DOMAIN s /\ t[i] = s[i + 1] /\ t[j] = s[j + 1]
      BY <1>1, <1>3, <1>4
    <3> QED BY <1>7, <3>1, <3>2
  <2> QED BY <2>1, <2>2
<1> QED BY <1>1, <1>2, <1>3, <1>6, <1>7 DEF t

LEMMA AlreadyPresentKeeps ==
    ASSUME IInv, AlreadyPresent
    PROVE  IInv'
<1>1. /\ phase = "update" /\ todo # <<>> /\ todo' = Tail(todo)
      /\ UNCHANGED <<packer, contents, generation, phase, block, spec, readd, lastEviction, runs>>
  BY DEF AlreadyPresent
<1>2. todo' \in Seq(Glyphs)
  BY <1>1, TailOfGlyphs DEF IInv, TypeOK
<1>3. TypeOK'
  BY <1>1, <1>2 DEF IInv, TypeOK
<1>4. Packing'
  BY <1>1, SamePacker DEF IInv
<1>5. PackerAgrees' /\ RunsStayRight'
  BY <1>1 DEF IInv, PackerAgrees, RunsStayRight, Elements, Tiles
<1>6. Phases'
  BY <1>1 DEF IInv, Phases, Elements
<1> QED BY <1>1, <1>3, <1>4, <1>5, <1>6 DEF IInv

(* The glyph that update_cache has come to gets its tile: in one step when *)
(* there is room, or after an eviction.                                    *)
LEMMA InsertionKeeps ==
    ASSUME IInv, phase' = "update", todo # <<>>, todo' = Tail(todo), readd = <<>>,
           \A b \in Blocks : runs[b].generation < generation,
           Head(todo) \notin DOMAIN contents,
           Room(Extent[Head(todo)]), PutTile(Head(todo), Extent[Head(todo)]),
           UNCHANGED <<generation, block, spec, readd, lastEviction, runs>>
    PROVE  IInv'
<1> DEFINE g == Head(todo)
<1>1. g \in Glyphs /\ todo' \in Seq(Glyphs)
  BY TailOfGlyphs DEF IInv, TypeOK
<1>2. Extent[g].w \in Nat /\ Extent[g].h \in Nat
  BY <1>1, ExtentFields
<1>3. Elements(readd) = {} /\ Elements(readd)' = {}
  BY DEF Elements
<1>4. g \notin DOMAIN packer.cached
  BY <1>3 DEF IInv, PackerAgrees, Tiles
<1> HIDE DEF g
<1>5. /\ Packer(packer') /\ Packing'
      /\ DOMAIN packer'.cached = DOMAIN packer.cached \cup {g}
      /\ \A o \in DOMAIN packer.cached : packer'.cached[o] = packer.cached[o]
      /\ packer'.cached[g] = contents'[g].tile
      /\ DOMAIN contents' = DOMAIN contents \cup {g}
      /\ contents'[g] \in [tile : Rect, generation : 0 .. generation]
      /\ \A o \in DOMAIN contents : o # g => contents'[o] = contents[o]
  BY <1>1, <1>2, <1>4, PutTileKeeps DEF IInv, g
<1>6. TypeOK'
  <2>1. /\ packer'.rects \in Seq(Rect)
        /\ \A o \in DOMAIN packer'.cached : packer'.cached[o] \in Rect
    BY <1>5 DEF Packer
  <2>2. DOMAIN packer'.cached \subseteq Glyphs /\ DOMAIN contents' \subseteq Glyphs
    BY <1>1, <1>5 DEF IInv, TypeOK
  <2>3. \A o \in DOMAIN contents' : contents'[o] \in [tile : Rect, generation : 0 .. generation]
    BY <1>5 DEF IInv, TypeOK
  <2> QED BY <1>1, <2>1, <2>2, <2>3 DEF IInv, TypeOK
<1>7. PackerAgrees'
  <2>1. DOMAIN packer.cached = DOMAIN contents
    BY <1>3 DEF IInv, PackerAgrees, Tiles
  <2>2. \A o \in DOMAIN packer.cached : contents[o].tile = packer.cached[o]
    BY DEF IInv, PackerAgrees, Tiles
  <2>3. \A o \in DOMAIN packer'.cached : contents'[o].tile = packer'.cached[o]
    BY <1>5, <2>1, <2>2
  <2> QED BY <1>3, <1>5, <2>1, <2>3 DEF PackerAgrees, Tiles
<1>8. RunsStayRight'
  <2>1. g \notin DOMAIN contents
    BY DEF g
  <2>2. \A o \in DOMAIN contents : contents'[o].tile = contents[o].tile
    BY <1>5, <2>1
  <2> QED BY <1>5, <2>2, SameTiles DEF IInv
<1>9. Phases'
  BY <1>3 DEF Phases, Elements
<1>10. DOMAIN runs' = Blocks
  BY DEF IInv
<1> QED BY <1>5, <1>6, <1>7, <1>8, <1>9, <1>10 DEF IInv

LEMMA InsertGlyphKeeps ==
    ASSUME IInv, InsertGlyph
    PROVE  IInv'
<1>1. /\ phase = "update" /\ phase' = "update" /\ todo # <<>> /\ todo' = Tail(todo)
      /\ Head(todo) \notin DOMAIN contents
      /\ Room(Extent[Head(todo)]) /\ PutTile(Head(todo), Extent[Head(todo)])
      /\ UNCHANGED <<generation, block, spec, readd, lastEviction, runs>>
  BY DEF InsertGlyph
<1>2. readd = <<>> /\ \A b \in Blocks : runs[b].generation < generation
  BY <1>1 DEF IInv, Phases
<1> QED BY <1>1, <1>2, InsertionKeeps

LEMMA EvictedKeeps ==
    ASSUME IInv, Evicted
    PROVE  IInv'
<1>1. /\ phase = "evict" /\ phase' = "update" /\ readd = <<>> /\ todo' = Tail(todo)
      /\ Room(Extent[Head(todo)]) /\ PutTile(Head(todo), Extent[Head(todo)])
      /\ UNCHANGED <<generation, block, spec, readd, lastEviction, runs>>
  BY DEF Evicted
<1>2. /\ todo # <<>> /\ Head(todo) \notin DOMAIN contents
      /\ \A b \in Blocks : runs[b].generation < generation
  BY <1>1 DEF IInv, Phases
<1> QED BY <1>1, <1>2, InsertionKeeps

(* While an eviction is under way every block's vertices are older.        *)
LEMMA NoRunsYet ==
    ASSUME \A b \in Blocks : runs'[b].generation \in Nat /\ runs'[b].generation < lastEviction',
           lastEviction' \in Nat
    PROVE  RunsStayRight'
BY DEF RunsStayRight

LEMMA EvictKeeps ==
    ASSUME IInv, NEW victims \in SUBSET DOMAIN contents, Evict(victims)
    PROVE  IInv'
<1> DEFINE rest == DOMAIN contents \ victims
           size == [g \in rest |-> contents[g].tile]
<1>1. /\ phase = "update" /\ todo # <<>> /\ Head(todo) \notin DOMAIN contents
      /\ packer' = NewPacker(Side, Side)
      /\ contents' = [g \in rest |-> contents[g]]
      /\ readd' \in Orderings(size)
      /\ lastEviction' = generation /\ phase' = "evict"
      /\ UNCHANGED <<generation, block, spec, todo, runs>>
  BY DEF Evict
<1>2. DOMAIN size = rest /\ rest \subseteq Glyphs
  BY DEF IInv, TypeOK
<1>3. DOMAIN contents' = rest /\ \A g \in rest : contents'[g] = contents[g]
  BY <1>1
<1> HIDE DEF size
<1>4. /\ readd' \in Seq(Glyphs) /\ Elements(readd') = rest
      /\ \A i, j \in DOMAIN readd' : i # j => readd'[i] # readd'[j]
  BY <1>1, <1>2, OrderingIsSequence
<1>5. Elements(readd)' = Elements(readd')
  BY DEF Elements
<1>6. Side \in Nat
  BY AtlasAssumption
<1>7. /\ Packer(packer') /\ DOMAIN packer'.cached = {}
      /\ TilesAre(packer'.cached, Atlas)
      /\ RectsAre(packer'.rects, packer'.cached, Atlas)
      /\ \A x \in 0 .. Side - 1, y \in 0 .. Side - 1 : Somewhere(packer', x, y)
  BY <1>1, <1>6, NewKeeps DEF Atlas
<1>8. Packing'
  BY <1>7 DEF Packing, TilesApart, FreeIsFree, NothingWasted, TilesAre, RectsAre, Somewhere,
              Tiles, Free, Atlas
<1>9. TypeOK'
  <2>1. /\ packer'.rects \in Seq(Rect)
        /\ DOMAIN packer'.cached \subseteq Glyphs
        /\ \A g \in DOMAIN packer'.cached : packer'.cached[g] \in Rect
    BY <1>7 DEF Packer
  <2>2. \A g \in DOMAIN contents' : contents'[g] \in [tile : Rect, generation : 0 .. generation]
    BY <1>3 DEF IInv, TypeOK
  <2>3. generation \in 0 .. generation
    BY DEF IInv, TypeOK
  <2> QED BY <1>1, <1>2, <1>3, <1>4, <2>1, <2>2, <2>3 DEF IInv, TypeOK
<1>10. PackerAgrees'
  BY <1>3, <1>4, <1>5, <1>7 DEF PackerAgrees, Tiles
<1>11. \A b \in Blocks : runs'[b].generation \in Nat /\ runs'[b].generation < lastEviction'
  BY <1>1 DEF IInv, TypeOK, Phases
<1>12. RunsStayRight'
  BY <1>1, <1>11, NoRunsYet DEF IInv, TypeOK
<1>13. Phases'
  BY <1>1, <1>3, <1>4, <1>5, <1>11 DEF Phases
<1> QED BY <1>1, <1>8, <1>9, <1>10, <1>12, <1>13 DEF IInv

LEMMA PutBackKeeps ==
    ASSUME IInv, PutBack
    PROVE  IInv'
<1> DEFINE g == Head(readd)
           old == contents[g].tile
<1>1. /\ phase = "evict" /\ readd # <<>> /\ readd' = Tail(readd)
      /\ Room(old) /\ PutTile(g, old)
      /\ UNCHANGED <<generation, phase, block, spec, todo, lastEviction, runs>>
  BY DEF PutBack
<1>2. /\ readd \in Seq(Glyphs) /\ \A i, j \in DOMAIN readd : i # j => readd[i] # readd[j]
      /\ Elements(readd) \subseteq DOMAIN contents
  BY DEF IInv, TypeOK, Phases
<1>3. /\ g \in Glyphs /\ readd' \in Seq(Glyphs)
      /\ Elements(readd) = {g} \cup Elements(readd')
      /\ g \notin Elements(readd')
      /\ \A i, j \in DOMAIN readd' : i # j => readd'[i] # readd'[j]
  BY <1>1, <1>2, TailOfGlyphs
<1>4. Elements(readd)' = Elements(readd')
  BY DEF Elements
<1>5. g \in DOMAIN contents /\ g \notin DOMAIN packer.cached
  BY <1>2, <1>3 DEF IInv, PackerAgrees, Tiles
<1>6. old \in Rect
  BY <1>5 DEF IInv, TypeOK
<1> HIDE DEF g, old
<1>7. old.w \in Nat /\ old.h \in Nat
  BY <1>6, RectFields
<1>8. /\ Packer(packer') /\ Packing'
      /\ DOMAIN packer'.cached = DOMAIN packer.cached \cup {g}
      /\ \A o \in DOMAIN packer.cached : packer'.cached[o] = packer.cached[o]
      /\ packer'.cached[g] = contents'[g].tile
      /\ DOMAIN contents' = DOMAIN contents \cup {g}
      /\ contents'[g] \in [tile : Rect, generation : 0 .. generation]
      /\ \A o \in DOMAIN contents : o # g => contents'[o] = contents[o]
  BY <1>1, <1>3, <1>5, <1>7, PutTileKeeps DEF IInv
<1>9. DOMAIN contents' = DOMAIN contents
  BY <1>5, <1>8
<1>10. TypeOK'
  <2>1. /\ packer'.rects \in Seq(Rect)
        /\ \A o \in DOMAIN packer'.cached : packer'.cached[o] \in Rect
    BY <1>8 DEF Packer
  <2>2. DOMAIN packer'.cached \subseteq Glyphs /\ DOMAIN contents' \subseteq Glyphs
    BY <1>3, <1>8, <1>9 DEF IInv, TypeOK
  <2>3. \A o \in DOMAIN contents' : contents'[o] \in [tile : Rect, generation : 0 .. generation]
    BY <1>8 DEF IInv, TypeOK
  <2> QED BY <1>1, <1>3, <2>1, <2>2, <2>3 DEF IInv, TypeOK
<1>11. PackerAgrees'
  <2>1. DOMAIN packer.cached = DOMAIN contents \ Elements(readd)
    BY DEF IInv, PackerAgrees, Tiles
  <2>2. \A o \in DOMAIN packer.cached : contents[o].tile = packer.cached[o]
    BY DEF IInv, PackerAgrees, Tiles
  <2>3. DOMAIN packer'.cached = DOMAIN contents' \ Elements(readd')
    BY <1>3, <1>5, <1>8, <1>9, <2>1
  <2>4. \A o \in DOMAIN packer'.cached : contents'[o].tile = packer'.cached[o]
    BY <1>5, <1>8, <2>1, <2>2
  <2> QED BY <1>4, <2>3, <2>4 DEF PackerAgrees, Tiles
<1>12. \A b \in Blocks : runs'[b].generation \in Nat /\ runs'[b].generation < lastEviction'
  BY <1>1 DEF IInv, TypeOK, Phases
<1>13. RunsStayRight'
  BY <1>1, <1>12, NoRunsYet DEF IInv, TypeOK
<1>14. Phases'
  BY <1>1, <1>2, <1>3, <1>4, <1>9 DEF IInv, Phases
<1>15. DOMAIN runs' = Blocks
  BY <1>1 DEF IInv
<1> QED BY <1>8, <1>10, <1>11, <1>13, <1>14, <1>15 DEF IInv

LEMMA PanicKeeps ==
    ASSUME IInv, Panic
    PROVE  IInv'
<1>1. /\ phase' = "panicked"
      /\ UNCHANGED <<packer, contents, generation, block, spec, todo, readd, lastEviction, runs>>
  BY DEF Panic
<1>2. TypeOK'
  BY <1>1 DEF IInv, TypeOK
<1>3. Packing'
  BY <1>1, SamePacker DEF IInv
<1>4. PackerAgrees' /\ RunsStayRight'
  BY <1>1 DEF IInv, PackerAgrees, RunsStayRight, Elements, Tiles
<1>5. Phases'
  BY <1>1 DEF IInv, Phases, Elements
<1> QED BY <1>1, <1>2, <1>3, <1>4, <1>5 DEF IInv

LEMMA StepIInv == IInv /\ [Next]_vars => IInv'
<1> SUFFICES ASSUME IInv, [Next]_vars PROVE IInv'
  OBVIOUS
<1>1. ASSUME NEW b \in Blocks, NEW s \in Texts, RenderRun(b, s) PROVE IInv'
  BY <1>1, RenderRunKeeps
<1>2. ASSUME NEW b \in Blocks, NEW s \in Texts, StartUpdate(b, s) PROVE IInv'
  BY <1>2, StartUpdateKeeps
<1>3. CASE AlreadyPresent
  BY <1>3, AlreadyPresentKeeps
<1>4. CASE InsertGlyph
  BY <1>4, InsertGlyphKeeps
<1>5. ASSUME NEW victims \in SUBSET DOMAIN contents, Evict(victims) PROVE IInv'
  BY <1>5, EvictKeeps
<1>6. CASE PutBack
  BY <1>6, PutBackKeeps
<1>7. CASE Evicted
  BY <1>7, EvictedKeeps
<1>8. CASE Panic
  BY <1>8, PanicKeeps
<1>9. CASE FillAgain
  BY <1>9, FillAgainKeeps
<1>10. CASE UNCHANGED vars
  <2>1. TypeOK' /\ Packing'
    BY <1>10, SamePacker DEF IInv, TypeOK, vars
  <2>2. PackerAgrees' /\ RunsStayRight' /\ Phases' /\ DOMAIN runs' = Blocks
    BY <1>10 DEF IInv, PackerAgrees, RunsStayRight, Phases, Elements, Tiles, vars
  <2> QED BY <2>1, <2>2 DEF IInv
<1> QED BY <1>1, <1>2, <1>3, <1>4, <1>5, <1>6, <1>7, <1>8, <1>9, <1>10 DEF Next

-----------------------------------------------------------------------------
LEMMA Invariance == Spec => []IInv
BY InitIInv, StepIInv, PTL DEF Spec

(* The state of font cache, atlas and blocks always has its type.          *)
THEOREM TypeCorrect == Spec => []TypeOK
<1>1. IInv => TypeOK
  BY DEF IInv
<1> QED BY <1>1, Invariance, PTL

(* Tiles with their padding never overlap and never leave the atlas,       *)
(* through any number of insertions and evictions.                         *)
THEOREM TilesNeverOverlap == Spec => []TilesApart
<1>1. IInv => TilesApart
  BY DEF IInv, Packing
<1> QED BY <1>1, Invariance, PTL

(* What the packer takes for free is free, and is listed once.             *)
THEOREM FreeStaysFree == Spec => []FreeIsFree
<1>1. IInv => FreeIsFree
  BY DEF IInv, Packing
<1> QED BY <1>1, Invariance, PTL

(* Every texel of the atlas is in a tile or free.                          *)
THEOREM NoTexelIsLost == Spec => []NothingWasted
<1>1. IInv => NothingWasted
  BY DEF IInv, Packing
<1> QED BY <1>1, Invariance, PTL

(* Contents and packer give a glyph the same tile, but for the glyphs an   *)
(* eviction has not put back yet.                                          *)
THEOREM ContentsMatchPacker == Spec => []PackerAgrees
<1>1. IInv => PackerAgrees
  BY DEF IInv
<1> QED BY <1>1, Invariance, PTL

(* Vertices made since the last eviction show the right part of the        *)
(* texture.                                                                *)
THEOREM VerticesStayRight == Spec => []RunsStayRight
<1>1. IInv => RunsStayRight
  BY DEF IInv
<1> QED BY <1>1, Invariance, PTL

-----------------------------------------------------------------------------
(* The texels behind the cache.                                            *)

(* Two rows of a texture meet nowhere: a texel that is not in the first    *)
(* column is in one row and one column.  (One column behind the last is    *)
(* the first of the next row.)                                             *)
LEMMA OneRowOneColumn ==
    ASSUME NEW a \in Nat, NEW b \in Nat, NEW c \in 0 .. Side, NEW d \in 1 .. Side - 1,
           a * Side + c = b * Side + d
    PROVE  a = b /\ c = d
<1>1. Side \in Nat \ {0}
  BY AtlasAssumption
<1>2. ASSUME NEW m \in Nat, NEW n \in Nat, m < n
      PROVE  n * Side >= m * Side + Side
  <2>1. n = m + (n - m) /\ n - m >= 1 /\ n - m \in Nat
    BY <1>2
  <2>2. n * Side = m * Side + (n - m) * Side
    BY <1>1, <2>1
  <2>3. (n - m) * Side >= Side
    BY <1>1, <2>1
  <2>4. n * Side \in Int /\ m * Side \in Int /\ (n - m) * Side \in Int
    BY <1>1
  <2> QED BY <1>1, <2>2, <2>3, <2>4
<1>3. a * Side \in Int /\ b * Side \in Int
  BY <1>1
<1>4. ~(a < b)
  BY <1>1, <1>2, <1>3
<1>5. ~(b < a)
  BY <1>1, <1>2, <1>3
<1>6. a = b
  BY <1>4, <1>5
<1> QED BY <1>3, <1>6

LEMMA TexelInside ==
    ASSUME NEW a \in 0 .. Side - 1, NEW b \in 0 .. Side - 1
    PROVE  a * Side + b \in Texel
<1>1. Side \in Nat \ {0} /\ a \in Nat /\ Side - 1 - a \in Nat
  BY AtlasAssumption
<1>2. a * Side \in Nat /\ (Side - 1 - a) * Side \in Nat /\ Side * Side \in Nat
  BY <1>1
<1>3. Side * Side = a * Side + (Side - 1 - a) * Side + Side
  BY <1>1
<1> QED BY <1>1, <1>2, <1>3 DEF Texel

(* The place of the point at column i and row j of the glyph in a tile.    *)
Point(tile, i, j) == (Unpadded(tile).y + j) * Side + Unpadded(tile).x + i

Inside(tile, i, j) ==
    /\ i \in 0 .. Unpadded(tile).w - 1
    /\ j \in 0 .. Unpadded(tile).h - 1

(* Where a point is, row and column. *)
LEMMA PointPlace ==
    ASSUME NEW t \in Rect, Within(t, Atlas), NEW i, NEW j, Inside(t, i, j)
    PROVE  /\ t.y + Padding + j \in 0 .. Side - 1
           /\ t.x + Padding + i \in 1 .. Side - 1
           /\ i \in Nat /\ i < t.w - 2 * Padding
           /\ j \in Nat /\ j < t.h - 2 * Padding
           /\ Point(t, i, j) = (t.y + Padding + j) * Side + (t.x + Padding + i)
           /\ Point(t, i, j) \in Texel
<1>1. /\ t.x \in Nat /\ t.y \in Nat /\ t.w \in Nat /\ t.h \in Nat
      /\ Padding \in Nat \ {0} /\ Side \in Nat \ {0}
  BY AtlasAssumption DEF Rect
<1>2. t.x + t.w =< Side /\ t.y + t.h =< Side
  BY <1>1 DEF Within, Atlas, At
<1>3. /\ i \in 0 .. t.w - 2 * Padding - 1
      /\ j \in 0 .. t.h - 2 * Padding - 1
      /\ Point(t, i, j) = (t.y + Padding + j) * Side + (t.x + Padding) + i
  BY DEF Inside, Point, Unpadded, At
<1>4. /\ t.y + Padding + j \in 0 .. Side - 1
      /\ t.x + Padding + i \in 1 .. Side - 1
      /\ i \in Nat /\ i < t.w - 2 * Padding
      /\ j \in Nat /\ j < t.h - 2 * Padding
  BY <1>1, <1>2, <1>3
<1>5. (t.y + Padding + j) * Side \in Int
  BY <1>1, <1>4
<1>6. Point(t, i, j) = (t.y + Padding + j) * Side + (t.x + Padding + i)
  BY <1>1, <1>3, <1>4, <1>5
<1>7. t.x + Padding + i \in 0 .. Side - 1
  BY <1>4
<1>8. (t.y + Padding + j) * Side + (t.x + Padding + i) \in Texel
  BY <1>4, <1>7, TexelInside
<1> QED BY <1>4, <1>6, <1>8

(* The points of a tile are different places.                              *)
LEMMA PointsDiffer ==
    ASSUME NEW t \in Rect, Within(t, Atlas), NEW i, NEW j, Inside(t, i, j),
           NEW k, NEW l, Inside(t, k, l), Point(t, i, j) = Point(t, k, l)
    PROVE  i = k /\ j = l
<1>1. t.x \in Nat /\ t.y \in Nat /\ Padding \in Nat /\ Side \in Nat
  BY AtlasAssumption DEF Rect
<1> DEFINE a == t.y + Padding + j
           b == t.y + Padding + l
           c == t.x + Padding + i
           d == t.x + Padding + k
<1>2. a \in 0 .. Side - 1 /\ c \in 1 .. Side - 1 /\ i \in Nat /\ j \in Nat
  BY PointPlace
<1>3. b \in 0 .. Side - 1 /\ d \in 1 .. Side - 1 /\ k \in Nat /\ l \in Nat
  BY PointPlace
<1>4. a * Side + c = b * Side + d
  BY PointPlace
<1> HIDE DEF a, b, c, d
<1>5. a \in Nat /\ b \in Nat /\ c \in 0 .. Side
  BY <1>1, <1>2, <1>3
<1>6. a = b /\ c = d
  BY <1>3, <1>4, <1>5, OneRowOneColumn
<1> QED BY <1>1, <1>2, <1>3, <1>6 DEF a, b, c, d

(* What clear_location clears of the texture from inside one tile, is not  *)
(* in the place of a glyph in another: what it clears too much lies in the *)
(* padding of its neighbours.                                              *)
LEMMA ClearsNoOther ==
    ASSUME NEW t \in Rect, Within(t, Atlas), NEW o \in Rect, Within(o, Atlas), Apart(t, o),
           NEW i, NEW j, Inside(o, i, j)
    PROVE  Point(o, i, j) \notin Rows(t.x + 1, t.y + Padding, t.w, t.h)
<1> SUFFICES ASSUME Point(o, i, j) \in Rows(t.x + 1, t.y + Padding, t.w, t.h)
             PROVE  FALSE
  OBVIOUS
<1>1. /\ t.x \in Nat /\ t.y \in Nat /\ t.w \in Nat /\ t.h \in Nat
      /\ o.x \in Nat /\ o.y \in Nat /\ o.w \in Nat /\ o.h \in Nat
      /\ Padding \in Nat \ {0} /\ Side \in Nat \ {0}
  BY AtlasAssumption DEF Rect
<1>2. t.x + t.w =< Side
  BY <1>1 DEF Within, Atlas, At
<1>3. PICK r \in 0 .. t.h - 1 : Point(o, i, j) \in Row(t.x + 1, t.y + Padding + r, t.w)
  BY DEF Rows
<1>4. PICK n \in 0 .. t.w - 1 : Point(o, i, j) = (t.y + Padding + r) * Side + (t.x + 1) + n
  BY <1>3 DEF Row
<1> DEFINE a == t.y + Padding + r
           c == t.x + 1 + n
           b == o.y + Padding + j
           d == o.x + Padding + i
<1>5. a \in Nat /\ c \in 0 .. Side
  BY <1>1, <1>2
<1>6. /\ b \in 0 .. Side - 1 /\ d \in 1 .. Side - 1
      /\ i \in Nat /\ i < o.w - 2 * Padding
      /\ j \in Nat /\ j < o.h - 2 * Padding
      /\ Point(o, i, j) = b * Side + d
  BY PointPlace
<1>7. a * Side + c = b * Side + d
  <2>1. a * Side \in Int
    BY <1>1, <1>5
  <2> QED BY <1>1, <1>4, <1>6, <2>1
<1>8. a = b /\ c = d
  <2> HIDE DEF a, b, c, d
  <2>1. b \in Nat
    BY <1>1, <1>6
  <2> QED BY <1>5, <1>6, <1>7, <2>1, OneRowOneColumn
<1> QED BY <1>1, <1>6, <1>8 DEF Apart

(* It clears the place of its own glyph.                                   *)
LEMMA ClearsItsOwn ==
    ASSUME NEW t \in Rect, Within(t, Atlas), NEW i, NEW j, Inside(t, i, j)
    PROVE  Point(t, i, j) \in Rows(t.x + 1, t.y + Padding, t.w, t.h)
<1>1. /\ t.x \in Nat /\ t.y \in Nat /\ t.w \in Nat /\ t.h \in Nat
      /\ Padding \in Nat \ {0} /\ Side \in Nat \ {0}
  BY AtlasAssumption DEF Rect
<1>2. /\ i \in Nat /\ i < t.w - 2 * Padding
      /\ j \in Nat /\ j < t.h - 2 * Padding
      /\ Point(t, i, j) = (t.y + Padding + j) * Side + (t.x + Padding + i)
  BY PointPlace
<1>3. Padding - 1 + i \in 0 .. t.w - 1 /\ j \in 0 .. t.h - 1
  BY <1>1, <1>2
<1>4. Point(t, i, j) = (t.y + Padding + j) * Side + (t.x + 1) + (Padding - 1 + i)
  <2>1. (t.y + Padding + j) * Side \in Int
    BY <1>1, <1>2
  <2> QED BY <1>1, <1>2, <2>1
<1>5. Point(t, i, j) \in Row(t.x + 1, t.y + Padding + j, t.w)
  BY <1>3, <1>4 DEF Row
<1> QED BY <1>3, <1>5 DEF Rows

(* Rendering paints the points of the glyph, and no others of the tile.    *)
Painted(g, tile) == Rows(Unpadded(tile).x, Unpadded(tile).y, Extent[g].w, Extent[g].h)

FitsIn(g, tile) ==
    /\ Extent[g].w + 2 * Padding =< tile.w
    /\ Extent[g].h + 2 * Padding =< tile.h

LEMMA PaintedPoints ==
    ASSUME NEW g \in Glyphs, NEW t \in Rect, FitsIn(g, t), NEW p \in Painted(g, t)
    PROVE  \E i \in 0 .. Extent[g].w - 1, j \in 0 .. Extent[g].h - 1 :
                Inside(t, i, j) /\ p = Point(t, i, j)
<1>1. /\ t.x \in Nat /\ t.y \in Nat /\ t.w \in Nat /\ t.h \in Nat
      /\ Padding \in Nat \ {0} /\ Side \in Nat \ {0}
      /\ Extent[g].w \in Nat /\ Extent[g].h \in Nat
  BY AtlasAssumption, ExtentFields DEF Rect
<1>2. PICK j \in 0 .. Extent[g].h - 1 :
          p \in Row(Unpadded(t).x, Unpadded(t).y + j, Extent[g].w)
  BY DEF Painted, Rows
<1>3. PICK i \in 0 .. Extent[g].w - 1 :
          p = (Unpadded(t).y + j) * Side + Unpadded(t).x + i
  BY <1>2 DEF Row
<1>4. Inside(t, i, j)
  BY <1>1 DEF Inside, Unpadded, At, FitsIn
<1> QED BY <1>3, <1>4 DEF Point

LEMMA PointsPainted ==
    ASSUME NEW g \in Glyphs, NEW t \in Rect,
           NEW i \in 0 .. Extent[g].w - 1, NEW j \in 0 .. Extent[g].h - 1
    PROVE  Point(t, i, j) \in Painted(g, t)
<1>1. Point(t, i, j) \in Row(Unpadded(t).x, Unpadded(t).y + j, Extent[g].w)
  BY DEF Row, Point
<1> QED BY <1>1 DEF Painted, Rows

(* The place of a glyph in a tile shows it, and nothing beside it.         *)
Picture(g, i, j) == IF i < Extent[g].w /\ j < Extent[g].h THEN g ELSE Clear

Shows(image, g, tile) ==
    \A i \in 0 .. Unpadded(tile).w - 1, j \in 0 .. Unpadded(tile).h - 1 :
        image[Point(tile, i, j)] = Picture(g, i, j)

(* Rendering a glyph into its tile. *)
LEMMA RenderedShows ==
    ASSUME NEW image, NEW g \in Glyphs, NEW t \in Rect, Within(t, Atlas), FitsIn(g, t),
           \A i, j : Inside(t, i, j) => \/ image[Point(t, i, j)] = Clear
                                        \/ i < Extent[g].w /\ j < Extent[g].h
    PROVE  Shows(Rendered(image, g, t), g, t)
<1> SUFFICES ASSUME NEW i, NEW j, Inside(t, i, j)
             PROVE  Rendered(image, g, t)[Point(t, i, j)] = Picture(g, i, j)
  BY DEF Shows, Inside
<1>1. Point(t, i, j) \in Texel /\ i \in Nat /\ j \in Nat
  BY PointPlace
<1>2. Extent[g].w \in Nat /\ Extent[g].h \in Nat
  BY ExtentFields
<1>3. Rendered(image, g, t)[Point(t, i, j)] =
          IF Point(t, i, j) \in Painted(g, t) THEN g ELSE image[Point(t, i, j)]
  BY <1>1 DEF Rendered, Painted
<1>4. CASE i < Extent[g].w /\ j < Extent[g].h
  <2>1. i \in 0 .. Extent[g].w - 1 /\ j \in 0 .. Extent[g].h - 1
    BY <1>1, <1>2, <1>4
  <2>2. Point(t, i, j) \in Painted(g, t)
    BY <2>1, PointsPainted
  <2> QED BY <1>3, <1>4, <2>2 DEF Picture
<1>5. CASE ~(i < Extent[g].w /\ j < Extent[g].h)
  <2>1. ASSUME Point(t, i, j) \in Painted(g, t) PROVE FALSE
    <3>1. PICK k \in 0 .. Extent[g].w - 1, l \in 0 .. Extent[g].h - 1 :
              Inside(t, k, l) /\ Point(t, i, j) = Point(t, k, l)
      BY <2>1, PaintedPoints
    <3>2. i = k /\ j = l
      BY <3>1, PointsDiffer
    <3> QED BY <1>2, <1>5, <3>2
  <2>2. image[Point(t, i, j)] = Clear
    BY <1>5
  <2> QED BY <1>3, <1>5, <2>1, <2>2 DEF Picture
<1> QED BY <1>4, <1>5

(* What is painted lies in what would be cleared. *)
LEMMA PaintsWhatIsCleared ==
    ASSUME NEW g \in Glyphs, NEW t \in Rect, Within(t, Atlas), FitsIn(g, t)
    PROVE  Painted(g, t) \subseteq Rows(t.x + 1, t.y + Padding, t.w, t.h)
<1> SUFFICES ASSUME NEW p \in Painted(g, t)
             PROVE  p \in Rows(t.x + 1, t.y + Padding, t.w, t.h)
  OBVIOUS
<1>1. PICK i \in 0 .. Extent[g].w - 1, j \in 0 .. Extent[g].h - 1 :
          Inside(t, i, j) /\ p = Point(t, i, j)
  BY PaintedPoints
<1> QED BY <1>1, ClearsItsOwn

(* The picture of another glyph stays. *)
LEMMA RenderedKeeps ==
    ASSUME NEW image, NEW g \in Glyphs, NEW t \in Rect, Within(t, Atlas), FitsIn(g, t),
           NEW o, NEW u \in Rect, Within(u, Atlas), Apart(t, u), Shows(image, o, u)
    PROVE  Shows(Rendered(image, g, t), o, u)
<1> SUFFICES ASSUME NEW i, NEW j, Inside(u, i, j)
             PROVE  Rendered(image, g, t)[Point(u, i, j)] = Picture(o, i, j)
  BY DEF Shows, Inside
<1>1. Point(u, i, j) \in Texel
  BY PointPlace
<1>2. Point(u, i, j) \notin Painted(g, t)
  BY ClearsNoOther, PaintsWhatIsCleared
<1>3. Rendered(image, g, t)[Point(u, i, j)] = image[Point(u, i, j)]
  BY <1>1, <1>2 DEF Rendered, Painted
<1> QED BY <1>3 DEF Shows, Inside

LEMMA ClearedKeeps ==
    ASSUME NEW image, NEW t \in Rect, Within(t, Atlas),
           NEW o, NEW u \in Rect, Within(u, Atlas), Apart(t, u), Shows(image, o, u)
    PROVE  Shows(Cleared(image, t), o, u)
<1> SUFFICES ASSUME NEW i, NEW j, Inside(u, i, j)
             PROVE  Cleared(image, t)[Point(u, i, j)] = Picture(o, i, j)
  BY DEF Shows, Inside
<1>1. Point(u, i, j) \in Texel
  BY PointPlace
<1>2. Point(u, i, j) \notin Rows(t.x + 1, t.y + Padding, t.w, t.h)
  BY ClearsNoOther
<1>3. Cleared(image, t)[Point(u, i, j)] = image[Point(u, i, j)]
  BY <1>1, <1>2 DEF Cleared
<1> QED BY <1>3 DEF Shows, Inside

LEMMA ClearedIsClear ==
    ASSUME NEW image, NEW t \in Rect, Within(t, Atlas), NEW i, NEW j, Inside(t, i, j)
    PROVE  Cleared(image, t)[Point(t, i, j)] = Clear
<1>1. Point(t, i, j) \in Texel
  BY PointPlace
<1>2. Point(t, i, j) \in Rows(t.x + 1, t.y + Padding, t.w, t.h)
  BY ClearsItsOwn
<1> QED BY <1>1, <1>2 DEF Cleared

-----------------------------------------------------------------------------
(* What the texels have to do with the cache: a tile is as large as its    *)
(* glyph and shows it, and while glyphs wait to be put back, no block has  *)
(* vertices that count.                                                    *)
TilesFit == \A g \in DOMAIN contents : FitsIn(g, contents[g].tile)
TilesShow == \A g \in DOMAIN Tiles : Shows(texels, g, Tiles[g])
WaitingIsUnseen == readd # <<>> => \A b \in Blocks : runs[b].generation < lastEviction

PictureInv == TilesFit /\ TilesShow /\ WaitingIsUnseen

(* The tile of a glyph that is put into the atlas. *)
LEMMA NewTile ==
    ASSUME TypeOK, Packing, PackerAgrees, NEW g \in Glyphs, g \notin DOMAIN packer.cached,
           NEW e, e.w \in Nat, e.h \in Nat, Room(e), PutTile(g, e)
    PROVE  /\ contents'[g].tile \in Rect /\ Within(contents'[g].tile, Atlas)
           /\ contents'[g].tile.w = e.w + 2 * Padding
           /\ contents'[g].tile.h = e.h + 2 * Padding
           /\ \A o \in DOMAIN packer.cached :
                /\ packer.cached[o] \in Rect /\ Within(packer.cached[o], Atlas)
                /\ Apart(contents'[g].tile, packer.cached[o])
<1>1. /\ Packing'
      /\ DOMAIN packer'.cached = DOMAIN packer.cached \cup {g}
      /\ \A o \in DOMAIN packer.cached : packer'.cached[o] = packer.cached[o]
      /\ packer'.cached[g] = contents'[g].tile
      /\ contents'[g] \in [tile : Rect, generation : 0 .. generation]
  BY PutTileKeeps
<1>2. contents'[g].tile \in Rect
  BY <1>1
<1>3. contents'[g].tile = TileFor(packer, Padded(e).w, Padded(e).h)
  BY DEF PutTile, With
<1>4. contents'[g].tile.w = Padded(e).w /\ contents'[g].tile.h = Padded(e).h
  BY <1>3 DEF TileFor, At
<1>5. Padded(e).w = e.w + 2 * Padding /\ Padded(e).h = e.h + 2 * Padding
  BY DEF Padded
<1>6. g \in DOMAIN packer'.cached /\ \A o \in DOMAIN packer.cached : o \in DOMAIN packer'.cached
  BY <1>1
<1>7. /\ \A o \in DOMAIN packer'.cached : Within(packer'.cached[o], Atlas)
      /\ \A o, p \in DOMAIN packer'.cached : o # p => Apart(packer'.cached[o], packer'.cached[p])
  BY <1>1 DEF Packing, TilesApart, Tiles, Atlas
<1>8. Within(contents'[g].tile, Atlas)
  BY <1>1, <1>6, <1>7
<1>9. ASSUME NEW o \in DOMAIN packer.cached
      PROVE  /\ packer.cached[o] \in Rect /\ Within(packer.cached[o], Atlas)
             /\ Apart(contents'[g].tile, packer.cached[o])
  <2>1. o # g /\ o \in DOMAIN packer'.cached /\ packer'.cached[o] = packer.cached[o]
    BY <1>1, <1>6
  <2>2. packer.cached[o] \in Rect
    BY DEF TypeOK
  <2> QED BY <1>1, <1>6, <1>7, <2>1, <2>2
<1> QED BY <1>2, <1>4, <1>5, <1>8, <1>9

(* A glyph is rendered into its new tile, over a texture that shows the    *)
(* other glyphs and in which the place of the glyph is clear, unless the   *)
(* glyph covers it.                                                        *)
LEMMA PutTileShows ==
    ASSUME TypeOK, Packing, PackerAgrees, NEW g \in Glyphs, g \notin DOMAIN packer.cached,
           NEW e, e.w \in Nat, e.h \in Nat, Room(e), PutTile(g, e),
           Extent[g].w =< e.w, Extent[g].h =< e.h, TilesFit,
           NEW image, \A o \in DOMAIN packer.cached : Shows(image, o, packer.cached[o]),
           \A i, j : Inside(contents'[g].tile, i, j) =>
                        \/ image[Point(contents'[g].tile, i, j)] = Clear
                        \/ i < Extent[g].w /\ j < Extent[g].h,
           texels' = Rendered(image, g, contents'[g].tile)
    PROVE  TilesFit' /\ TilesShow'
<1> DEFINE tile == contents'[g].tile
<1>1. /\ DOMAIN packer'.cached = DOMAIN packer.cached \cup {g}
      /\ \A o \in DOMAIN packer.cached : packer'.cached[o] = packer.cached[o]
      /\ packer'.cached[g] = tile
      /\ DOMAIN contents' = DOMAIN contents \cup {g}
      /\ \A o \in DOMAIN contents : o # g => contents'[o] = contents[o]
  BY PutTileKeeps
<1>2. /\ tile \in Rect /\ Within(tile, Atlas)
      /\ tile.w = e.w + 2 * Padding /\ tile.h = e.h + 2 * Padding
      /\ \A o \in DOMAIN packer.cached :
           /\ packer.cached[o] \in Rect /\ Within(packer.cached[o], Atlas)
           /\ Apart(tile, packer.cached[o])
  BY NewTile
<1> HIDE DEF tile
<1>3. FitsIn(g, tile)
  BY <1>2, ExtentFields, AtlasAssumption DEF FitsIn
<1>4. TilesFit'
  <2>1. \A o \in DOMAIN contents' : FitsIn(o, contents'[o].tile)
    BY <1>1, <1>3 DEF TilesFit, tile
  <2> QED BY <2>1 DEF TilesFit, FitsIn
<1>5. Shows(texels', g, tile)
  <2>1. \A i, j : Inside(tile, i, j) => \/ image[Point(tile, i, j)] = Clear
                                        \/ i < Extent[g].w /\ j < Extent[g].h
    BY DEF tile
  <2>2. Shows(Rendered(image, g, tile), g, tile)
    BY <1>2, <1>3, <2>1, RenderedShows
  <2> QED BY <2>2 DEF tile
<1>6. ASSUME NEW o \in DOMAIN packer.cached
      PROVE  Shows(texels', o, packer.cached[o])
  <2>1. Shows(Rendered(image, g, tile), o, packer.cached[o])
    BY <1>2, <1>3, RenderedKeeps
  <2> QED BY <2>1 DEF tile
<1>7. \A o \in DOMAIN packer'.cached : Shows(texels', o, packer'.cached[o])
  BY <1>1, <1>5, <1>6, SMTT(40)
<1>8. TilesShow'
  BY <1>7 DEF TilesShow, Shows, Tiles, Point, Picture, Unpadded
<1> QED BY <1>4, <1>8

(* A glyph of its own size leaves nothing to be cleared.                   *)
LEMMA InsertionShows ==
    ASSUME IInv, PictureInv, todo # <<>>, readd = <<>>, readd' = <<>>,
           Head(todo) \notin DOMAIN contents,
           Room(Extent[Head(todo)]), PutTile(Head(todo), Extent[Head(todo)]),
           Inserts(Head(todo))
    PROVE  PictureInv'
<1> DEFINE g == Head(todo)
<1>1. g \in Glyphs
  BY TailOfGlyphs DEF IInv, TypeOK
<1>2. Extent[g].w \in Nat /\ Extent[g].h \in Nat /\ Padding \in Nat
  BY <1>1, ExtentFields, AtlasAssumption
<1>3. g \notin DOMAIN packer.cached
  BY DEF IInv, PackerAgrees, Tiles, Elements
<1>4. /\ TypeOK /\ Packing /\ PackerAgrees /\ TilesFit
      /\ Room(Extent[g]) /\ PutTile(g, Extent[g])
      /\ \A o \in DOMAIN packer.cached : Shows(texels, o, packer.cached[o])
      /\ texels' = Rendered(texels, g, contents'[g].tile)
  BY DEF IInv, PictureInv, TilesShow, Tiles, Inserts
<1> HIDE DEF g
<1>5. /\ contents'[g].tile.w = Extent[g].w + 2 * Padding
      /\ contents'[g].tile.h = Extent[g].h + 2 * Padding
  BY <1>1, <1>2, <1>3, <1>4, NewTile
<1>6. \A i, j : Inside(contents'[g].tile, i, j) =>
                   \/ texels[Point(contents'[g].tile, i, j)] = Clear
                   \/ i < Extent[g].w /\ j < Extent[g].h
  <2> DEFINE tile == contents'[g].tile
             w == Extent[g].w
             h == Extent[g].h
  <2>1. tile.w - 2 * Padding = w /\ tile.h - 2 * Padding = h /\ w \in Nat /\ h \in Nat
    BY <1>2, <1>5
  <2> HIDE DEF tile, w, h
  <2>2. Unpadded(tile).w = w /\ Unpadded(tile).h = h
    BY <2>1 DEF Unpadded, At
  <2>3. \A i, j : Inside(tile, i, j) => i < w /\ j < h
    BY <2>1, <2>2 DEF Inside
  <2> QED BY <2>3 DEF tile, w, h
<1> DEFINE e == Extent[g]
<1>7. TilesFit' /\ TilesShow'
  <2>1. /\ e.w \in Nat /\ e.h \in Nat /\ Room(e) /\ PutTile(g, e)
        /\ Extent[g].w =< e.w /\ Extent[g].h =< e.h
    BY <1>2, <1>4
  <2> HIDE DEF e
  <2> QED BY <1>1, <1>3, <1>4, <1>6, <2>1, PutTileShows
<1> QED BY <1>7 DEF PictureInv, WaitingIsUnseen

(* A glyph that is put back into a larger tile is drawn over what was      *)
(* cleared for it.                                                         *)
LEMMA PutBackShows ==
    ASSUME IInv, PictureInv, PutBack, Redrawn(Head(readd))
    PROVE  PictureInv'
<1> DEFINE g == Head(readd)
           old == contents[g].tile
           tile == contents'[g].tile
           image == Cleared(texels, tile)
<1>1. /\ readd # <<>> /\ Room(old) /\ PutTile(g, old)
      /\ UNCHANGED <<lastEviction, runs>>
  BY DEF PutBack
<1>2. readd \in Seq(Glyphs) /\ Elements(readd) \subseteq DOMAIN contents
  BY DEF IInv, TypeOK, Phases
<1>3. g \in Glyphs /\ g \in Elements(readd)
  BY <1>1, <1>2, TailOfGlyphs
<1>4. g \in DOMAIN contents /\ g \notin DOMAIN packer.cached
  BY <1>2, <1>3 DEF IInv, PackerAgrees, Tiles
<1>5. old \in Rect /\ FitsIn(g, old)
  BY <1>4 DEF IInv, TypeOK, PictureInv, TilesFit
<1>6. texels' = Rendered(image, g, tile)
  BY DEF Redrawn
<1>7. TypeOK /\ Packing /\ PackerAgrees /\ TilesFit
  BY DEF IInv, PictureInv
<1>8. \A o \in DOMAIN packer.cached : Shows(texels, o, packer.cached[o])
  BY DEF PictureInv, TilesShow, Tiles
<1> HIDE DEF g, old
<1>9. old.w \in Nat /\ old.h \in Nat
  BY <1>5, RectFields
<1>10. Extent[g].w =< old.w /\ Extent[g].h =< old.h
  BY <1>3, <1>5, <1>9, ExtentFields, AtlasAssumption DEF FitsIn
<1>11. /\ tile \in Rect /\ Within(tile, Atlas)
       /\ \A o \in DOMAIN packer.cached :
            /\ packer.cached[o] \in Rect /\ Within(packer.cached[o], Atlas)
            /\ Apart(tile, packer.cached[o])
  BY <1>1, <1>3, <1>4, <1>7, <1>9, NewTile
<1> HIDE DEF tile
<1>12. \A o \in DOMAIN packer.cached : Shows(image, o, packer.cached[o])
  BY <1>8, <1>11, ClearedKeeps
<1>13. \A i, j : Inside(tile, i, j) => image[Point(tile, i, j)] = Clear
  BY <1>11, ClearedIsClear
<1> HIDE DEF image
<1>14. TilesFit' /\ TilesShow'
  BY <1>1, <1>3, <1>4, <1>6, <1>7, <1>9, <1>10, <1>12, <1>13, PutTileShows DEF tile
<1>15. WaitingIsUnseen'
  BY <1>1 DEF PictureInv, WaitingIsUnseen
<1> QED BY <1>14, <1>15 DEF PictureInv

(* Steps that leave texels and tiles alone. *)
LEMMA SamePictures ==
    ASSUME PictureInv, UNCHANGED <<texels, packer>>, DOMAIN contents' = DOMAIN contents,
           \A g \in DOMAIN contents : contents'[g].tile = contents[g].tile,
           WaitingIsUnseen'
    PROVE  PictureInv'
<1>1. TilesFit'
  BY DEF PictureInv, TilesFit, FitsIn
<1>2. TilesShow'
  BY DEF PictureInv, TilesShow, Tiles, Shows, Point, Picture, Unpadded
<1> QED BY <1>1, <1>2 DEF PictureInv

LEMMA OtherStepsShow ==
    ASSUME IInv, PictureInv, UNCHANGED texels,
           \/ \E b \in Blocks, s \in Texts : RenderRun(b, s) \/ StartUpdate(b, s)
           \/ AlreadyPresent \/ Panic \/ FillAgain
    PROVE  PictureInv'
<1>1. ASSUME NEW b \in Blocks, NEW s \in Texts, RenderRun(b, s) PROVE PictureInv'
  <2>1. LookUp(s) /\ UNCHANGED packer /\ readd' = <<>>
    BY <1>1 DEF RenderRun, IInv, Phases
  <2>2. WaitingIsUnseen'
    BY <2>1 DEF WaitingIsUnseen
  <2> QED BY <2>1, <2>2, LookUpKeeps, SamePictures DEF IInv
<1>2. ASSUME NEW b \in Blocks, NEW s \in Texts, StartUpdate(b, s) PROVE PictureInv'
  <2>1. LookUp(s) /\ UNCHANGED packer /\ readd' = <<>>
    BY <1>2 DEF StartUpdate, IInv, Phases
  <2>2. WaitingIsUnseen'
    BY <2>1 DEF WaitingIsUnseen
  <2> QED BY <2>1, <2>2, LookUpKeeps, SamePictures DEF IInv
<1>3. CASE AlreadyPresent \/ Panic
  <2>1. UNCHANGED <<packer, contents, readd, runs, lastEviction>>
    BY <1>3 DEF AlreadyPresent, Panic
  <2>2. WaitingIsUnseen'
    BY <2>1 DEF PictureInv, WaitingIsUnseen
  <2> QED BY <2>1, <2>2, SamePictures
<1>4. CASE FillAgain
  <2>1. LookUp(spec) /\ UNCHANGED packer /\ readd' = <<>>
    BY <1>4 DEF FillAgain, IInv, Phases
  <2>2. WaitingIsUnseen'
    BY <2>1 DEF WaitingIsUnseen
  <2> QED BY <2>1, <2>2, LookUpKeeps, SamePictures DEF IInv
<1> QED BY <1>1, <1>2, <1>3, <1>4

(* When all is evicted there is no tile to show anything. *)
LEMMA EvictShows ==
    ASSUME IInv, PictureInv, NEW victims \in SUBSET DOMAIN contents, Evict(victims),
           UNCHANGED texels
    PROVE  PictureInv'
<1>1. /\ phase = "update" /\ packer' = NewPacker(Side, Side)
      /\ contents' = [g \in DOMAIN contents \ victims |-> contents[g]]
      /\ lastEviction' = generation /\ UNCHANGED runs
  BY DEF Evict
<1>2. TilesFit'
  BY <1>1 DEF PictureInv, TilesFit, FitsIn
<1>3. DOMAIN packer'.cached = {}
  BY <1>1 DEF NewPacker, NoTiles
<1>4. TilesShow'
  BY <1>3 DEF TilesShow, Tiles
<1>5. WaitingIsUnseen'
  BY <1>1 DEF IInv, Phases, WaitingIsUnseen
<1> QED BY <1>2, <1>4, <1>5 DEF PictureInv

LEMMA TextureStepIsStep == [TextureNext]_textureVars => [Next]_vars
BY DEF TextureNext, textureVars, Next, vars

LEMMA StepPictureInv == IInv /\ PictureInv /\ [TextureNext]_textureVars => PictureInv'
<1> SUFFICES ASSUME IInv, PictureInv, [TextureNext]_textureVars PROVE PictureInv'
  OBVIOUS
<1>1. CASE /\ \/ \E b \in Blocks, s \in Texts : RenderRun(b, s) \/ StartUpdate(b, s)
              \/ AlreadyPresent \/ Panic \/ FillAgain
           /\ UNCHANGED texels
  BY <1>1, OtherStepsShow
<1>2. ASSUME NEW victims \in SUBSET DOMAIN contents, Evict(victims), UNCHANGED texels
      PROVE  PictureInv'
  BY <1>2, EvictShows
<1>3. CASE InsertGlyph /\ Inserts(Head(todo))
  <2>1. /\ phase = "update" /\ todo # <<>> /\ Head(todo) \notin DOMAIN contents
        /\ Room(Extent[Head(todo)]) /\ PutTile(Head(todo), Extent[Head(todo)])
        /\ UNCHANGED readd
    BY <1>3 DEF InsertGlyph
  <2>2. readd = <<>> /\ readd' = <<>>
    BY <2>1 DEF IInv, Phases
  <2> QED BY <1>3, <2>1, <2>2, InsertionShows
<1>4. CASE PutBack /\ Redrawn(Head(readd))
  BY <1>4, PutBackShows
<1>5. CASE Evicted /\ Inserts(Head(todo))
  <2>1. /\ phase = "evict" /\ readd = <<>> /\ readd' = <<>>
        /\ Room(Extent[Head(todo)]) /\ PutTile(Head(todo), Extent[Head(todo)])
    BY <1>5 DEF Evicted
  <2>2. todo # <<>> /\ Head(todo) \notin DOMAIN contents
    BY <2>1 DEF IInv, Phases
  <2> QED BY <1>5, <2>1, <2>2, InsertionShows
<1>6. CASE UNCHANGED textureVars
  <2>1. UNCHANGED <<texels, packer, contents, readd, runs, lastEviction>>
    BY <1>6 DEF textureVars, vars
  <2>2. WaitingIsUnseen'
    BY <2>1 DEF PictureInv, WaitingIsUnseen
  <2> QED BY <2>1, <2>2, SamePictures
<1> QED BY <1>1, <1>2, <1>3, <1>4, <1>5, <1>6 DEF TextureNext

LEMMA InitPictureInv == TextureInit => PictureInv
<1> SUFFICES ASSUME TextureInit PROVE PictureInv
  OBVIOUS
<1>1. /\ DOMAIN contents = {} /\ readd = <<>> /\ packer = NewPacker(Side, Side)
  BY DEF TextureInit, Init
<1>2. DOMAIN packer.cached = {}
  BY <1>1 DEF NewPacker, NoTiles
<1> QED BY <1>1, <1>2 DEF PictureInv, TilesFit, TilesShow, WaitingIsUnseen, Tiles

LEMMA PicturesFollow == IInv /\ PictureInv => PicturesAreRight
<1> SUFFICES ASSUME IInv, PictureInv,
                    NEW b \in Blocks, runs[b].generation >= lastEviction,
                    NEW g \in Elements(runs[b].spec),
                    NEW i \in 0 .. runs[b].squares[g].w - 1,
                    NEW j \in 0 .. runs[b].squares[g].h - 1
             PROVE  Sampled(runs[b].squares[g], i, j) = Picture(g, i, j)
  BY DEF PicturesAreRight, Picture
<1>1. g \in DOMAIN contents /\ runs[b].squares[g] = Unpadded(contents[g].tile)
  BY DEF IInv, RunsStayRight
<1>2. runs[b].generation \in Nat /\ lastEviction \in Nat
  BY DEF IInv, TypeOK
<1>3. readd = <<>>
  BY <1>2 DEF PictureInv, WaitingIsUnseen
<1>4. g \in DOMAIN Tiles /\ Tiles[g] = contents[g].tile
  BY <1>1, <1>3 DEF IInv, PackerAgrees, Elements
<1>5. Shows(texels, g, contents[g].tile)
  BY <1>4 DEF PictureInv, TilesShow
<1>6. Sampled(runs[b].squares[g], i, j) = texels[Point(contents[g].tile, i, j)]
  BY <1>1 DEF Sampled, Point
<1> QED BY <1>1, <1>5, <1>6 DEF Shows

(* The vertices a block made since the last eviction take from the texture *)
(* the picture of their glyph and nothing else, although an eviction       *)
(* clears beyond the tile it has made room for: as far as the padding of   *)
(* the neighbours, and not further.                                        *)
THEOREM PicturesStayRight == TextureSpec => []PicturesAreRight
<1>1. TextureInit => IInv /\ PictureInv
  BY InitIInv, InitPictureInv DEF TextureInit
<1>2. IInv /\ PictureInv /\ [TextureNext]_textureVars => (IInv /\ PictureInv)'
  BY TextureStepIsStep, StepIInv, StepPictureInv
<1>3. IInv /\ PictureInv => PicturesAreRight
  BY PicturesFollow
<1> QED BY <1>1, <1>2, <1>3, PTL DEF TextureSpec

=============================================================================

----------------------------- MODULE TextureMap -----------------------------
(***************************************************************************)
(* Packing of rectangles into a texture (texture_map.rs).  A packer holds  *)
(* a list of free rectangles, and the tiles it has given out by key.       *)
(***************************************************************************)
EXTENDS Integers, Sequences

Rect == [x : Nat, y : Nat, w : Nat, h : Nat]
At(x, y, w, h) == [x |-> x, y |-> y, w |-> w, h |-> h]
Area(r) == r.w * r.h

NoTiles == [k \in {} |-> At(0, 0, 0, 0)]
NewPacker(w, h) == [rects |-> <<At(0, 0, w, h)>>, cached |-> NoTiles]

Fits(r, w, h) == w <= r.w /\ h <= r.h

(* What is left over in the direction that fits better. *)
Waste(r, w, h) == IF r.w - w < r.h - h THEN r.w - w ELSE r.h - h

(* best_candidate_index: the first rectangle of the very size, else the    *)
(* first of those that waste least.                                        *)
Candidates(rects, w, h) == {i \in DOMAIN rects : Fits(rects[i], w, h)}
BestCandidate(rects, w, h) ==
    LET fitting == Candidates(rects, w, h)
        exact == {i \in fitting : rects[i].w = w /\ rects[i].h = h}
        least == {i \in fitting : \A j \in fitting :
                                     Waste(rects[i], w, h) <= Waste(rects[j], w, h)}
        First(S) == CHOOSE i \in S : \A j \in S : i <= j
    IN First(IF exact # {} THEN exact ELSE least)

SwapRemove(s, i) ==
    [j \in 1 .. Len(s) - 1 |-> IF j = i THEN s[Len(s)] ELSE s[j]]

Distance(a, b) == IF a < b THEN b - a ELSE a - b

(* The tile goes to the corner of the candidate; what remains is cut along *)
(* the tile's lower or right edge.                                         *)
RemainsRight(r, w, h) ==
    LET cutBelow == Distance(r.w - w, w) < Distance(r.h - h, h)
    IN At(r.x + w, r.y, r.w - w, IF cutBelow THEN h ELSE r.h)
RemainsBelow(r, w, h) ==
    LET cutBelow == Distance(r.w - w, w) < Distance(r.h - h, h)
    IN At(r.x, r.y + h, IF cutBelow THEN r.w ELSE w, r.h - h)

\* Mutant: the two cuts cross.
RectsAfter_Overlap(rects, i, w, h) ==
    LET r == rects[i]
        right == At(r.x + w, r.y, r.w - w, r.h)
        below == At(r.x, r.y + h, r.w, r.h - h)
    IN CASE r.w = w /\ r.h = h -> SwapRemove(rects, i)
         [] r.w = w /\ r.h # h -> [rects EXCEPT ![i] = below]
         [] r.w # w /\ r.h = h -> [rects EXCEPT ![i] = right]
         [] OTHER -> Append([rects EXCEPT ![i] = right], below)

\* Mutant: the smaller remainder is forgotten.
RectsAfter_Forgets(rects, i, w, h) ==
    LET r == rects[i]
        right == RemainsRight(r, w, h)
        below == RemainsBelow(r, w, h)
    IN CASE r.w = w /\ r.h = h -> SwapRemove(rects, i)
         [] r.w = w /\ r.h # h -> [rects EXCEPT ![i] = At(r.x, r.y + h, r.w, r.h - h)]
         [] r.w # w /\ r.h = h -> [rects EXCEPT ![i] = At(r.x + w, r.y, r.w - w, r.h)]
         [] OTHER -> [rects EXCEPT ![i] = IF Area(right) > Area(below) THEN right ELSE below]

(* raw_insert_inner: the free rectangles after a tile was taken from the   *)
(* i-th.                                                                   *)
RectsAfter(rects, i, w, h) ==
    LET r == rects[i]
        right == RemainsRight(r, w, h)
        below == RemainsBelow(r, w, h)
    IN CASE r.w = w /\ r.h = h -> SwapRemove(rects, i)
         [] r.w = w /\ r.h # h -> [rects EXCEPT ![i] = At(r.x, r.y + h, r.w, r.h - h)]
         [] r.w # w /\ r.h = h -> [rects EXCEPT ![i] = At(r.x + w, r.y, r.w - w, r.h)]
         [] OTHER -> IF Area(right) > Area(below)
                     THEN Append([rects EXCEPT ![i] = right], below)
                     ELSE Append([rects EXCEPT ![i] = below], right)

HasRoom(p, w, h) == Candidates(p.rects, w, h) # {}

TileFor(p, w, h) ==
    LET r == p.rects[BestCandidate(p.rects, w, h)] IN At(r.x, r.y, w, h)

With(f, k, v) == [j \in DOMAIN f \cup {k} |-> IF j = k THEN v ELSE f[j]]

(* insert, of a key that has no tile yet and where there is room. *)
Inserted(p, k, w, h) ==
    [rects |-> RectsAfter(p.rects, BestCandidate(p.rects, w, h), w, h),
     cached |-> With(p.cached, k, TileFor(p, w, h))]

(* insert_order: the larger shorter side first, then the larger area. *)
Shorter(w, h) == IF w < h THEN w ELSE h
GoesBefore(a, b) ==
    \/ Shorter(a.w, a.h) > Shorter(b.w, b.h)
    \/ Shorter(a.w, a.h) = Shorter(b.w, b.h) /\ Area(a) >= Area(b)

-----------------------------------------------------------------------------
(* How rectangles lie, for the properties. *)
Apart(a, b) ==
    \/ a.x + a.w <= b.x \/ b.x + b.w <= a.x
    \/ a.y + a.h <= b.y \/ b.y + b.h <= a.y
Within(a, b) ==
    /\ b.x <= a.x /\ a.x + a.w <= b.x + b.w
    /\ b.y <= a.y /\ a.y + a.h <= b.y + b.h
Covers(r, x, y) ==
    /\ r.x <= x /\ x < r.x + r.w
    /\ r.y <= y /\ y < r.y + r.h
=============================================================================

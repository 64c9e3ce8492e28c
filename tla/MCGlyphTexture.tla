---------------------------- MODULE MCGlyphTexture ----------------------------
(* The instance TLC checks: three tall glyphs, of which two fit, and two   *)
(* small ones that fit below them.                                         *)
EXTENDS GlyphTexture

CONSTANTS a, b, c, d, e

MCExtent == [g \in {a, b, c, d, e} |-> IF g \in {d, e} THEN [w |-> 1, h |-> 1] ELSE [w |-> 1, h |-> 3]]
MCTexts == {<<a>>, <<b>>, <<c, a>>, <<d, b>>, <<e, d>>}
=============================================================================

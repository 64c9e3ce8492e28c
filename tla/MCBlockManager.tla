---------------------------- MODULE MCBlockManager ----------------------------
(* A window box with two children, one of which may be a box with a child.  *)
EXTENDS BlockManager

CONSTANTS window, left, right, deep, text, box

MCBlock == {window, left, right, deep}

MCParent ==
    [b \in MCBlock |-> CASE b = window -> Top
                         [] b = deep   -> left
                         [] OTHER      -> window]

MCAncestors ==
    [b \in MCBlock |-> CASE b = window -> {}
                         [] b = deep   -> {window, left}
                         [] OTHER      -> {window}]

MCWire == {text, box}
MCMetaWire == {box}
==============================================================================

---- MODULE MCEditorView ----
(* The editor view in a window that may be moved to a screen of another     *)
(* scale factor, alone or with a change of its size, and that may be so     *)
(* narrow that no text is in it.                                            *)
EXTENDS EditorView

Window_ == {[width |-> 6, height |-> 14, scale_factor |-> 1],
            [width |-> 6, height |-> 14, scale_factor |-> 2],
            [width |-> 0, height |-> 9, scale_factor |-> 2]}

Text_ == (Words \cup {Blank}) \X {Size(v.scale_factor) : v \in Window}
====

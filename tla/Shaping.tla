------------------------------- MODULE Shaping -------------------------------
(***************************************************************************)
(* The shaping of the paragraphs of a frame (helicoid-helixserver,         *)
(* center.rs) with the caching shaper (helicoid-protocol,                  *)
(* caching_shaper.rs).  More than a few paragraphs are shaped by a pool of *)
(* threads, each with a clone of the shaper; the clones share the fonts    *)
(* that are loaded, behind a lock that is held for reading while a text is *)
(* shaped, and upgraded from an upgradable read to load a font that is not *)
(* there.                                                                  *)
(*                                                                         *)
(* A run of a text is some clusters, in the options (size, underline) they *)
(* are to be shaped with; what fonts have for a cluster is a constant.     *)
(***************************************************************************)
EXTENDS Naturals, Sequences, FiniteSets

CONSTANTS
    Worker, FrameTask,  \* the pool, and the thread that makes the frame
    Slot, NoSlot,       \* the slots of rendered_paragraphs, and none of them
    PARALLEL_OVER,      \* "if updated_contents.len() > 8"
    font_names_len,     \* how many families are registered
    default_font,       \* the font that stands in for one that is not loaded
    Options, Cluster,   \* what the runs of a text are made of
    Texts,
    Status(_, _)        \* of a cluster in a family: Complete, Keep or Discard

Run == [options : Options, clusters : Seq(Cluster)]

ASSUME ShapingAssumption ==
    /\ FrameTask \in Worker
    /\ PARALLEL_OVER \in Nat /\ font_names_len \in Nat
    /\ Texts \subseteq Seq(Run)

VARIABLES
    contents,       \* of a slot: nothing, a source, or what it was rendered to
    unshaped,       \* the slots the threads have not come to yet
    pool,           \* the threads that shape this frame
    font_cache,     \* the fonts loaded
    readers,        \* the threads that hold the lock for reading
    upgradable,     \* the ones that hold it for an upgradable read
    pc,             \* where each thread is
    job             \* what it shapes: slot, runs and fonts still to be seen to

lockVars == <<readers, upgradable>>
vars == <<contents, unshaped, pool, font_cache, readers, upgradable, pc, job>>

Family == 0 .. font_names_len - 1
Font == [family : Family, options : Options]
FontOf(family, run) == [family |-> family, options |-> run.options]

NoContents == [kind |-> "None", text |-> <<>>, fonts |-> <<>>, runs |-> <<>>]
Source(text) == [NoContents EXCEPT !.kind = "Source", !.text = text]

NoJob == [slot |-> NoSlot, runs |-> <<>>, fonts |-> <<>>]

Init ==
    /\ contents = [s \in Slot |-> NoContents]
    /\ unshaped = {}
    /\ pool = {}
    /\ font_cache = {}
    /\ readers = {}
    /\ upgradable = {}
    /\ pc = [w \in Worker |-> "idle"]
    /\ job = [w \in Worker |-> NoJob]

-----------------------------------------------------------------------------
(* The lock.  A thread that is about to upgrade keeps new readers out.     *)

Upgrading == \E w \in Worker : pc[w] = "upgrade"

CanRead == ~Upgrading

\* Mutant: the check for the font takes the lock for reading only.
CanReadUpgradable_Shared == ~Upgrading

CanReadUpgradable == ~Upgrading /\ upgradable = {}

-----------------------------------------------------------------------------
(* The frame.                                                              *)

\* Mutant: the last paragraph falls off the end.
HandedOut_AllButOne(S) == IF S = {} THEN {} ELSE S \ {CHOOSE s \in S : TRUE}

HandedOut(S) == S

\* sync_client_view has the new paragraphs of a frame shaped.  The frame before
\* is finished when they are.
sync_client_view ==
    /\ unshaped = {} /\ \A w \in Worker : pc[w] = "idle"
    /\ \E S \in SUBSET Slot : \E text \in [S -> Texts] :
        /\ contents' = [s \in Slot |-> IF s \in S THEN Source(text[s]) ELSE contents[s]]
        /\ unshaped' = HandedOut(S)
        /\ pool' = IF Cardinality(S) > PARALLEL_OVER THEN Worker ELSE {FrameTask}
    /\ UNCHANGED <<font_cache, lockVars, pc, job>>

\* ensure_rendered; shape starts with a look at the current size.
ensure_rendered(w) ==
    /\ pc[w] = "idle" /\ w \in pool
    /\ CanRead
    /\ \E s \in unshaped :
        /\ unshaped' = unshaped \ {s}
        /\ job' = [job EXCEPT ![w] = [slot |-> s, runs |-> contents[s].text, fonts |-> <<>>]]
    /\ pc' = [pc EXCEPT ![w] = "cache"]
    /\ UNCHANGED <<contents, pool, font_cache, lockVars>>

-----------------------------------------------------------------------------
(* cache_fonts: for every run its own font, and that of every family.      *)

\* Mutant: the family of the run, without the others it may need.
FontsFor_OwnOnly(run) == <<FontOf(0, run)>>

FontsFor(run) ==
    <<FontOf(0, run)>> \o
    [i \in 1 .. font_names_len |-> FontOf(i - 1, run)]

\* The next run: the families are counted under a lock of its own.
cache_fonts(w) ==
    /\ pc[w] = "cache" /\ job[w].fonts = <<>> /\ job[w].runs # <<>>
    /\ CanRead
    /\ job' = [job EXCEPT ![w].fonts = FontsFor(Head(job[w].runs)),
                          ![w].runs = Tail(@)]
    /\ UNCHANGED <<contents, unshaped, pool, font_cache, lockVars, pc>>

Wanted(w) == Head(job[w].fonts)

\* The font is there, or there is no such family.
cache_font_for_index(w) ==
    /\ pc[w] = "cache" /\ job[w].fonts # <<>>
    /\ CanReadUpgradable
    /\ Wanted(w) \in font_cache \/ Wanted(w).family \notin Family
    /\ job' = [job EXCEPT ![w].fonts = Tail(@)]
    /\ UNCHANGED <<contents, unshaped, pool, font_cache, lockVars, pc>>

\* It is not there, and is loaded from its file while others may go on reading.
load_keyed(w) ==
    /\ pc[w] = "cache" /\ job[w].fonts # <<>>
    /\ CanReadUpgradable
    /\ Wanted(w) \notin font_cache /\ Wanted(w).family \in Family
    /\ upgradable' = upgradable \cup {w}
    /\ pc' = [pc EXCEPT ![w] = "load"]
    /\ UNCHANGED <<contents, unshaped, pool, font_cache, readers, job>>

upgrade(w) ==
    /\ pc[w] = "load" /\ ~Upgrading
    /\ pc' = [pc EXCEPT ![w] = "upgrade"]
    /\ UNCHANGED <<contents, unshaped, pool, font_cache, lockVars, job>>

\* The readers have left.
insert(w) ==
    /\ pc[w] = "upgrade" /\ readers = {}
    /\ font_cache' = font_cache \cup {Wanted(w)}
    /\ upgradable' = upgradable \ {w}
    /\ job' = [job EXCEPT ![w].fonts = Tail(@)]
    /\ pc' = [pc EXCEPT ![w] = "cache"]
    /\ UNCHANGED <<contents, unshaped, pool, readers>>

-----------------------------------------------------------------------------
(* build_clusters: the family of the font a cluster is to be shaped with.  *)

\* The families whose fonts are there for a run.
Loaded(run, cache) == {f \in Family : FontOf(f, run) \in cache}

\* Whose glyphs they are: the default font stands in for a font that is not there.
GlyphsOf(family, loaded) == IF family \in loaded THEN family ELSE default_font

\* The fonts are tried in this order: that of the run, which is of family 0, and
\* those of all families that are there.
Tried(loaded) == {0} \cup {f + 1 : f \in loaded}
FamilyOf(try) == IF try = 0 THEN 0 ELSE try - 1

First(S) == CHOOSE t \in S : \A u \in S : t =< u
Last(S) == CHOOSE t \in S : \A u \in S : u =< t

\* The first font that has all of the cluster, else the last that has some of
\* it; else that of the run, and a dummy takes the place of the cluster.
Best == [cluster \in Cluster, loaded \in SUBSET Family |->
    LET Having(status) ==
            {t \in Tried(loaded) : Status(cluster, GlyphsOf(FamilyOf(t), loaded)) = status}
    IN  FamilyOf(CASE Having("Complete") # {} -> First(Having("Complete"))
                   [] Having("Complete") = {} /\ Having("Keep") # {} -> Last(Having("Keep"))
                   [] OTHER -> 0)]

BestOf(run, cache) ==
    [k \in DOMAIN run.clusters |-> Best[run.clusters[k], Loaded(run, cache)]]

\* Pushed to the runs of a text, what is there already gets the place it has: the
\* place of x among those of s is after all that come before its first time.
Place(x, s) == 1 + Cardinality({s[i] : i \in {j \in DOMAIN s : \A k \in 1 .. j : s[k] # x}})

-----------------------------------------------------------------------------
(* shape: the fonts of the glyphs, and the runs that are recorded of them. *)

\* The glyphs are of the font chosen for their cluster.
Shaped(text, cache) ==
    [i \in DOMAIN text |->
        LET best == BestOf(text[i], cache)
        IN  [k \in DOMAIN best |-> GlyphsOf(best[k], Loaded(text[i], cache))]]

OptionsIn(text) == [i \in DOMAIN text |-> text[i].options]

\* The runs of the text, each once.
RunsOf(text) == {text[i].options : i \in DOMAIN text}

\* With the glyphs goes the run of the text that has the place their font has
\* among the fonts of their own run.
Recorded(text, cache) ==
    [i \in DOMAIN text |->
        LET best == BestOf(text[i], cache)
        IN  [k \in DOMAIN best |->
                {o \in RunsOf(text) : Place(o, OptionsIn(text)) = Place(best[k], best)}]]

\* There is one at every such place when no run takes more fonts than there are
\* runs.
InRange(text, cache) ==
    \A i \in DOMAIN text :
        LET best == BestOf(text[i], cache)
        IN  Cardinality({best[k] : k \in DOMAIN best}) =< Cardinality(RunsOf(text))

Rendered(text, cache) ==
    [kind |-> "Rendered", text |-> text,
     fonts |-> Shaped(text, cache), runs |-> Recorded(text, cache)]

shape(w) ==
    /\ pc[w] = "cache" /\ job[w].fonts = <<>> /\ job[w].runs = <<>>
    /\ CanRead
    /\ readers' = readers \cup {w}
    /\ pc' = [pc EXCEPT ![w] = "shape"]
    /\ UNCHANGED <<contents, unshaped, pool, font_cache, upgradable, job>>

rendered(w) ==
    /\ pc[w] = "shape" /\ InRange(contents[job[w].slot].text, font_cache)
    /\ contents' = [contents EXCEPT ![job[w].slot] = Rendered(@.text, font_cache)]
    /\ readers' = readers \ {w}
    /\ job' = [job EXCEPT ![w] = NoJob]
    /\ pc' = [pc EXCEPT ![w] = "idle"]
    /\ UNCHANGED <<unshaped, pool, font_cache, upgradable>>

\* The text has no run at the place of a font: the thread panics, and lets go of
\* the lock.
out_of_range(w) ==
    /\ pc[w] = "shape" /\ ~InRange(contents[job[w].slot].text, font_cache)
    /\ readers' = readers \ {w}
    /\ job' = [job EXCEPT ![w] = NoJob]
    /\ pc' = [pc EXCEPT ![w] = "panicked"]
    /\ UNCHANGED <<contents, unshaped, pool, font_cache, upgradable>>

\* Its panic reaches the thread that makes the frame when the others are through,
\* and with it the task of the connection, which is unwound.  The next connection
\* has paragraphs and a shaper of its own.
next_connection ==
    /\ \E w \in Worker : pc[w] = "panicked"
    /\ \A w \in Worker : pc[w] \in {"idle", "panicked"}
    /\ contents' = [s \in Slot |-> NoContents]
    /\ unshaped' = {}
    /\ pool' = {}
    /\ font_cache' = {}
    /\ pc' = [w \in Worker |-> "idle"]
    /\ UNCHANGED <<lockVars, job>>

-----------------------------------------------------------------------------

Thread(w) ==
    \/ ensure_rendered(w)
    \/ cache_fonts(w)
    \/ cache_font_for_index(w)
    \/ load_keyed(w)
    \/ upgrade(w)
    \/ insert(w)
    \/ shape(w)
    \/ rendered(w)
    \/ out_of_range(w)

Next == sync_client_view \/ next_connection \/ \E w \in Worker : Thread(w)

\* The threads of the pool run, and the lock is fair in the end.
Spec == Init /\ [][Next]_vars /\ \A w \in Worker : WF_vars(Thread(w))

-----------------------------------------------------------------------------

\* What texts are rendered to, and which have a run that takes too many fonts,
\* when all that can be loaded is there.
RenderedWithAll == [text \in Texts |-> Rendered(text, Font)]

TooManyFonts == {text \in Texts : ~InRange(text, Font)}

\* assert!(inner_write.font_cache.insert(..).is_none()): whoever writes is alone,
\* and nobody has loaded the font since it was found missing.
InsertedOnce ==
    \A w \in Worker : pc[w] = "upgrade" =>
        /\ Wanted(w) \notin font_cache
        /\ \A v \in Worker \ {w} : pc[v] \notin {"load", "upgrade"}

\* Whatever the other threads load or shape in the meantime, and whatever was
\* loaded for earlier frames: a text is shaped with the fonts, and gets the runs
\* recorded, that it would if all that can be loaded were there.
FontsOfTheText ==
    \A s \in Slot : contents[s].kind = "Rendered" =>
        contents[s] = RenderedWithAll[contents[s].text]

\* A frame that has paragraphs shaped gets all of them, and the unwrap of their
\* contents in sync_client_view finds a shaped text, unless a text among them
\* takes too many fonts.
AllRendered ==
    \A s \in Slot : contents[s].kind = "Source" ~>
        \/ contents[s].kind = "Rendered"
        \/ \E t \in Slot : contents[t].kind = "Source" /\ contents[t].text \in TooManyFonts
=============================================================================

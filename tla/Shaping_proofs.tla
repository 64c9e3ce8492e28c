--------------------------- MODULE Shaping_proofs ---------------------------
(* What threads that shape together do to the fonts they share: no font is  *)
(* inserted twice, and no text is shaped before its fonts are there, for any *)
(* number of threads, paragraphs, families and texts.                        *)
EXTENDS Shaping, SequenceTheorems, TLAPS

Elems(s) == {s[i] : i \in DOMAIN s}

FontKey == [family : Nat, options : Options]

TypeInv ==
    /\ DOMAIN contents = Slot
    /\ \A s \in Slot : contents[s].text \in Seq(Run)
    /\ unshaped \subseteq Slot
    /\ pc \in [Worker -> {"idle", "cache", "load", "upgrade", "shape", "panicked"}]
    /\ job \in [Worker -> [slot : Slot \cup {NoSlot}, runs : Seq(Run), fonts : Seq(FontKey)]]

\* Whoever loads a font holds the lock for it, alone, and it is still missing.
LockInv ==
    /\ \A v, w \in upgradable : v = w
    /\ \A w \in Worker : pc[w] \in {"load", "upgrade"} =>
        w \in upgradable /\ job[w].fonts # <<>> /\ Wanted(w) \notin font_cache

\* What a thread has still to do, and what it has done, are the fonts of all
\* runs of its text.
SeenTo(run, w) ==
    \/ run \in Elems(job[w].runs)
    \/ \A f \in Family : FontOf(f, run) \in font_cache \cup Elems(job[w].fonts)

ProgressInv ==
    /\ \A s \in unshaped : contents[s].text \in Texts
    /\ \A w \in Worker : pc[w] \notin {"idle", "panicked"} =>
        /\ job[w].slot \in Slot
        /\ contents[job[w].slot].text \in Texts
        /\ \A run \in Elems(contents[job[w].slot].text) : SeenTo(run, w)
    /\ \A w \in Worker : pc[w] = "shape" => job[w].runs = <<>> /\ job[w].fonts = <<>>

IInv == TypeInv /\ LockInv /\ ProgressInv /\ FontsOfTheText

-----------------------------------------------------------------------------

\* The elements of a sequence are its first and those of the rest.
LEMMA HeadAndTail ==
    ASSUME NEW S, NEW s \in Seq(S), s # <<>>
    PROVE  /\ Head(s) \in S
           /\ Tail(s) \in Seq(S)
           /\ Elems(s) = {Head(s)} \cup Elems(Tail(s))
<1>1. Head(s) \in S /\ Tail(s) \in Seq(S)
  OBVIOUS
<1>2. Len(s) \in Nat \ {0} /\ DOMAIN s = 1 .. Len(s) /\ Head(s) = s[1]
  OBVIOUS
<1>3. /\ DOMAIN Tail(s) = 1 .. Len(s) - 1
      /\ \A i \in 1 .. Len(s) - 1 : Tail(s)[i] = s[i + 1]
  OBVIOUS
<1>4. ASSUME NEW x \in Elems(s) PROVE x \in {Head(s)} \cup Elems(Tail(s))
  <2>1. PICK i \in 1 .. Len(s) : x = s[i]
    BY <1>2 DEF Elems
  <2>2. CASE i = 1
    BY <2>1, <2>2, <1>2
  <2>3. CASE i # 1
    <3>1. i - 1 \in 1 .. Len(s) - 1 /\ Tail(s)[i - 1] = x
      BY <2>1, <2>3, <1>2, <1>3
    <3> QED BY <3>1, <1>3 DEF Elems
  <2> QED BY <2>2, <2>3
<1>5. ASSUME NEW x \in Elems(Tail(s)) PROVE x \in Elems(s)
  <2>1. PICK i \in 1 .. Len(s) - 1 : x = Tail(s)[i]
    BY <1>3 DEF Elems
  <2>2. i + 1 \in 1 .. Len(s) /\ s[i + 1] = x
    BY <2>1, <1>2, <1>3
  <2> QED BY <2>2, <1>2 DEF Elems
<1>6. Head(s) \in Elems(s)
  BY <1>2 DEF Elems
<1> QED BY <1>1, <1>4, <1>5, <1>6

LEMMA EmptyElems == Elems(<<>>) = {}
BY DEF Elems

LEMMA RunOf ==
    ASSUME NEW s \in Seq(Run), NEW run \in Elems(s)
    PROVE  run \in Run
BY DEF Elems

\* What is cached for a run: fonts by their keys, that of every family among them.
LEMMA FontsForEveryFamily ==
    ASSUME NEW run \in Run
    PROVE  /\ FontsFor(run) \in Seq(FontKey)
           /\ \A f \in Family : FontOf(f, run) \in Elems(FontsFor(run))
<1> DEFINE own == <<FontOf(0, run)>>
           all == [i \in 1 .. font_names_len |-> FontOf(i - 1, run)]
<1>0. font_names_len \in Nat /\ run.options \in Options
  BY ShapingAssumption DEF Run
<1>1. own \in Seq(FontKey) /\ Len(own) = 1
  BY <1>0 DEF FontOf, FontKey
<1>2. \A i \in 1 .. font_names_len : FontOf(i - 1, run) \in FontKey
  BY <1>0 DEF FontOf, FontKey
<1>3. all \in Seq(FontKey) /\ Len(all) = font_names_len
  BY <1>0, <1>2
<1>4. FontsFor(run) = own \o all
  BY DEF FontsFor
<1>5. ASSUME NEW f \in Family PROVE FontOf(f, run) \in Elems(FontsFor(run))
  <2>1. f \in Nat /\ f + 1 \in 1 .. font_names_len /\ (f + 1) - 1 = f
    BY <1>0 DEF Family
  <2>2. all[f + 1] = FontOf(f, run)
    BY <2>1
  <2> HIDE DEF own, all
  <2>3. /\ Len(own \o all) = 1 + font_names_len
        /\ DOMAIN (own \o all) = 1 .. Len(own \o all)
        /\ \A i \in 1 .. Len(own \o all) :
            (own \o all)[i] = IF i =< 1 THEN own[i] ELSE all[i - 1]
    <3>1. /\ own \o all \in Seq(FontKey)
          /\ Len(own \o all) = Len(own) + Len(all)
          /\ \A i \in 1 .. Len(own) + Len(all) :
              (own \o all)[i] = IF i =< Len(own) THEN own[i] ELSE all[i - Len(own)]
      BY <1>1, <1>3, ConcatProperties
    <3>2. DOMAIN (own \o all) = 1 .. Len(own \o all)
      BY <3>1, LenProperties
    <3> QED BY <1>0, <1>1, <1>3, <3>1, <3>2
  <2>4. f + 2 \in 1 .. 1 + font_names_len /\ f + 2 > 1 /\ (f + 2) - 1 = f + 1
    BY <1>0, <2>1
  <2>5. f + 2 \in DOMAIN (own \o all) /\ (own \o all)[f + 2] = all[f + 1]
    BY <1>0, <2>3, <2>4
  <2> QED BY <1>4, <2>2, <2>5 DEF Elems
<1>6. FontsFor(run) \in Seq(FontKey)
  <2> HIDE DEF own, all
  <2> QED BY <1>1, <1>3, <1>4
<1> QED BY <1>5, <1>6

\* With the fonts of all its runs loaded a text is rendered as it is with all.
LEMMA RenderedWithEnough ==
    ASSUME NEW text \in Seq(Run), NEW cache,
           \A run \in Elems(text) : \A f \in Family : FontOf(f, run) \in cache
    PROVE  Rendered(text, cache) = Rendered(text, Font)
<1>1. ASSUME NEW i \in DOMAIN text
      PROVE  Loaded(text[i], cache) = Loaded(text[i], Font)
  <2>1. text[i] \in Elems(text) /\ text[i] \in Run
    BY DEF Elems
  <2>2. \A f \in Family : FontOf(f, text[i]) \in cache /\ FontOf(f, text[i]) \in Font
    BY <2>1 DEF FontOf, Font, Run
  <2> QED BY <2>2 DEF Loaded
<1>2. \A i \in DOMAIN text : BestOf(text[i], cache) = BestOf(text[i], Font)
  BY <1>1 DEF BestOf
<1>3. Shaped(text, cache) = Shaped(text, Font)
  BY <1>1, <1>2 DEF Shaped
<1>4. Recorded(text, cache) = Recorded(text, Font)
  BY <1>2 DEF Recorded
<1> QED BY <1>3, <1>4 DEF Rendered

-----------------------------------------------------------------------------

LEMMA InitIInv == Init => IInv
<1> SUFFICES ASSUME Init PROVE IInv
  OBVIOUS
<1>1. <<>> \in Seq(Run) /\ <<>> \in Seq(FontKey)
  OBVIOUS
<1>2. TypeInv
  BY <1>1 DEF Init, TypeInv, NoJob, NoContents
<1>3. LockInv
  BY DEF Init, LockInv
<1>4. ProgressInv
  BY DEF Init, ProgressInv
<1>5. FontsOfTheText
  BY DEF Init, FontsOfTheText, NoContents
<1> QED BY <1>2, <1>3, <1>4, <1>5 DEF IInv

\* A new frame, made while no thread shapes.
LEMMA FrameStep ==
    ASSUME IInv, sync_client_view
    PROVE  IInv'
<1> USE DEF IInv
<1>1. \A w \in Worker : pc'[w] = "idle"
  BY DEF sync_client_view
<1>2. PICK S \in SUBSET Slot : \E text \in [S -> Texts] :
        /\ contents' = [s \in Slot |-> IF s \in S THEN Source(text[s]) ELSE contents[s]]
        /\ unshaped' = HandedOut(S)
  BY DEF sync_client_view
<1>3. PICK text \in [S -> Texts] :
        /\ contents' = [s \in Slot |-> IF s \in S THEN Source(text[s]) ELSE contents[s]]
        /\ unshaped' = HandedOut(S)
  BY <1>2
<1>4. ASSUME NEW s \in Slot
      PROVE  /\ contents'[s].text \in Seq(Run)
             /\ s \in S => contents'[s].text \in Texts
             /\ contents'[s].kind = "Rendered" => contents'[s] = contents[s]
  <2>1. CASE s \in S
    <3>1. contents'[s] = Source(text[s]) /\ text[s] \in Texts /\ text[s] \in Seq(Run)
      BY <1>3, <2>1, ShapingAssumption
    <3> QED BY <3>1, <2>1 DEF Source, NoContents
  <2>2. CASE s \notin S
    BY <1>3, <2>2 DEF TypeInv
  <2> QED BY <2>1, <2>2
<1>5. TypeInv'
  BY <1>3, <1>4 DEF TypeInv, sync_client_view, HandedOut, lockVars
<1>6. LockInv'
  BY <1>1 DEF LockInv, sync_client_view, lockVars
<1>7. ProgressInv'
  BY <1>1, <1>3, <1>4 DEF ProgressInv, HandedOut
<1>8. FontsOfTheText'
  BY <1>4 DEF FontsOfTheText
<1> QED BY <1>5, <1>6, <1>7, <1>8

\* After a panic everything starts again.
LEMMA RestartStep ==
    ASSUME IInv, next_connection
    PROVE  IInv'
<1> USE DEF IInv
<1>1. /\ contents' = [s \in Slot |-> NoContents] /\ unshaped' = {} /\ job' = job
      /\ pc' = [w \in Worker |-> "idle"] /\ upgradable' = upgradable
  BY DEF next_connection, lockVars
<1>2. TypeInv'
  <2>1. NoContents.text = <<>> /\ <<>> \in Seq(Run)
    BY DEF NoContents
  <2> QED BY <1>1, <2>1 DEF TypeInv
<1>3. LockInv'
  BY <1>1 DEF LockInv
<1>4. ProgressInv'
  BY <1>1 DEF ProgressInv
<1>5. FontsOfTheText'
  BY <1>1 DEF FontsOfTheText, NoContents
<1> QED BY <1>2, <1>3, <1>4, <1>5

\* A thread takes a paragraph: all its runs are still to be seen to.
LEMMA TakeStep ==
    ASSUME IInv, NEW w \in Worker, ensure_rendered(w)
    PROVE  IInv'
<1> USE DEF IInv
<1>1. PICK s \in unshaped :
        job' = [job EXCEPT ![w] = [slot |-> s, runs |-> contents[s].text, fonts |-> <<>>]]
  BY DEF ensure_rendered
<1>2. /\ s \in Slot /\ contents[s].text \in Seq(Run) /\ contents[s].text \in Texts
      /\ <<>> \in Seq(FontKey)
  BY DEF TypeInv, ProgressInv
<1>3. /\ pc'[w] = "cache"
      /\ \A v \in Worker \ {w} : pc'[v] = pc[v] /\ job'[v] = job[v]
      /\ job'[w] = [slot |-> s, runs |-> contents[s].text, fonts |-> <<>>]
  BY <1>1 DEF ensure_rendered, TypeInv
<1>4. TypeInv'
  BY <1>1, <1>2 DEF TypeInv, ensure_rendered
<1>5. LockInv'
  BY <1>3 DEF LockInv, ensure_rendered, lockVars, Wanted
<1>6. ProgressInv'
  <2>1. ASSUME NEW v \in Worker, pc'[v] \notin {"idle", "panicked"}
        PROVE  /\ job'[v].slot \in Slot
               /\ contents'[job'[v].slot].text \in Texts
               /\ \A run \in Elems(contents'[job'[v].slot].text) : SeenTo(run, v)'
    <3>1. CASE v = w
      BY <3>1, <1>2, <1>3 DEF ensure_rendered, SeenTo
    <3>2. CASE v # w
      BY <3>2, <2>1, <1>3 DEF ensure_rendered, ProgressInv, SeenTo
    <3> QED BY <3>1, <3>2
  <2>2. \A v \in Worker : pc'[v] = "shape" => job'[v].runs = <<>> /\ job'[v].fonts = <<>>
    BY <1>3 DEF ProgressInv
  <2>3. \A t \in unshaped' : contents'[t].text \in Texts
    BY DEF ProgressInv, ensure_rendered
  <2> QED BY <2>1, <2>2, <2>3 DEF ProgressInv
<1>7. FontsOfTheText'
  BY DEF FontsOfTheText, ensure_rendered
<1> QED BY <1>4, <1>5, <1>6, <1>7

\* The next run: from now on its fonts are to be seen to.
LEMMA RunStep ==
    ASSUME IInv, NEW w \in Worker, cache_fonts(w)
    PROVE  IInv'
<1> USE DEF IInv
<1>1. job[w].runs \in Seq(Run) /\ job[w].runs # <<>>
  BY DEF cache_fonts, TypeInv
<1> DEFINE run == Head(job[w].runs)
<1>2. /\ run \in Run /\ Tail(job[w].runs) \in Seq(Run)
      /\ Elems(job[w].runs) = {run} \cup Elems(Tail(job[w].runs))
  BY <1>1, HeadAndTail
<1>3. /\ FontsFor(run) \in Seq(FontKey)
      /\ \A f \in Family : FontOf(f, run) \in Elems(FontsFor(run))
  BY <1>2, FontsForEveryFamily
<1> HIDE DEF run
<1>4. /\ pc' = pc /\ contents' = contents /\ font_cache' = font_cache
      /\ \A v \in Worker \ {w} : job'[v] = job[v]
      /\ job'[w] = [slot |-> job[w].slot, runs |-> Tail(job[w].runs), fonts |-> FontsFor(run)]
      /\ pc[w] = "cache" /\ job[w].fonts = <<>>
  BY DEF cache_fonts, TypeInv, run
<1>5. TypeInv'
  <2>1. job' \in [Worker -> [slot : Slot \cup {NoSlot}, runs : Seq(Run), fonts : Seq(FontKey)]]
    BY <1>2, <1>3 DEF cache_fonts, TypeInv, run
  <2> QED BY <2>1 DEF TypeInv, cache_fonts
<1>6. LockInv'
  BY <1>4 DEF LockInv, cache_fonts, lockVars, Wanted
<1>7. ProgressInv'
  <2>1. ASSUME NEW v \in Worker, pc'[v] \notin {"idle", "panicked"}
        PROVE  /\ job'[v].slot \in Slot
               /\ contents'[job'[v].slot].text \in Texts
               /\ \A r \in Elems(contents'[job'[v].slot].text) : SeenTo(r, v)'
    <3>1. CASE v = w
      <4>1. ASSUME NEW r \in Elems(contents[job[w].slot].text) PROVE SeenTo(r, w)'
        <5>1. SeenTo(r, w)
          BY <1>4 DEF ProgressInv
        <5>2. CASE r = run
          BY <5>2, <1>3, <1>4 DEF SeenTo
        <5>3. CASE r # run
          BY <5>1, <5>3, <1>2, <1>4, EmptyElems DEF SeenTo
        <5> QED BY <5>2, <5>3
      <4> QED BY <3>1, <4>1, <1>4 DEF ProgressInv
    <3>2. CASE v # w
      BY <3>2, <2>1, <1>4 DEF ProgressInv, SeenTo
    <3> QED BY <3>1, <3>2
  <2>2. \A v \in Worker : pc'[v] = "shape" => job'[v].runs = <<>> /\ job'[v].fonts = <<>>
    BY <1>4 DEF ProgressInv
  <2>3. \A s \in unshaped' : contents'[s].text \in Texts
    BY DEF ProgressInv, cache_fonts
  <2> QED BY <2>1, <2>2, <2>3 DEF ProgressInv
<1>8. FontsOfTheText'
  BY <1>4 DEF FontsOfTheText
<1> QED BY <1>5, <1>6, <1>7, <1>8

\* The next font of a run has been seen to when it is loaded, and when there is
\* no such family.
LEMMA NextFont ==
    ASSUME IInv, NEW w \in Worker, pc[w] \notin {"idle", "panicked"}, job[w].fonts # <<>>,
           NEW cache, font_cache \subseteq cache,
           Wanted(w) \in cache \/ Wanted(w).family \notin Family,
           NEW after \in [slot : Slot \cup {NoSlot}, runs : Seq(Run), fonts : Seq(FontKey)],
           after = [job[w] EXCEPT !.fonts = Tail(@)],
           NEW run \in Elems(contents[job[w].slot].text)
    PROVE  \/ run \in Elems(after.runs)
           \/ \A f \in Family : FontOf(f, run) \in cache \cup Elems(after.fonts)
<1> USE DEF IInv
<1>1. job[w] \in [slot : Slot \cup {NoSlot}, runs : Seq(Run), fonts : Seq(FontKey)]
  BY DEF TypeInv
<1>2. after.runs = job[w].runs /\ after.fonts = Tail(job[w].fonts)
  BY <1>1
<1>3. Elems(job[w].fonts) = {Wanted(w)} \cup Elems(after.fonts)
  BY <1>1, <1>2, HeadAndTail DEF Wanted
<1>4. SeenTo(run, w)
  BY DEF ProgressInv
<1>5. CASE run \in Elems(job[w].runs)
  BY <1>5, <1>2
<1>6. CASE \A f \in Family : FontOf(f, run) \in font_cache \cup Elems(job[w].fonts)
  <2>1. ASSUME NEW f \in Family PROVE FontOf(f, run) \in cache \cup Elems(after.fonts)
    <3>1. FontOf(f, run).family = f
      BY DEF FontOf
    <3>2. CASE FontOf(f, run) = Wanted(w)
      BY <3>1, <3>2
    <3>3. CASE FontOf(f, run) # Wanted(w)
      BY <3>3, <1>3, <1>6
    <3> QED BY <3>2, <3>3
  <2> QED BY <2>1
<1> QED BY <1>4, <1>5, <1>6 DEF SeenTo

\* A font that is there is ticked off.
LEMMA HitStep ==
    ASSUME IInv, NEW w \in Worker, cache_font_for_index(w)
    PROVE  IInv'
<1> USE DEF IInv
<1>1. job[w] \in [slot : Slot \cup {NoSlot}, runs : Seq(Run), fonts : Seq(FontKey)]
  BY DEF TypeInv
<1>2. Tail(job[w].fonts) \in Seq(FontKey)
  BY <1>1, HeadAndTail DEF cache_font_for_index
<1>3. /\ pc' = pc /\ contents' = contents /\ font_cache' = font_cache
      /\ \A v \in Worker \ {w} : job'[v] = job[v]
      /\ job'[w] = [job[w] EXCEPT !.fonts = Tail(@)]
      /\ pc[w] = "cache"
  BY DEF cache_font_for_index, TypeInv
<1>4. TypeInv'
  <2>1. job' \in [Worker -> [slot : Slot \cup {NoSlot}, runs : Seq(Run), fonts : Seq(FontKey)]]
    BY <1>1, <1>2 DEF cache_font_for_index, TypeInv
  <2> QED BY <2>1 DEF TypeInv, cache_font_for_index
<1>5. LockInv'
  BY <1>3 DEF LockInv, cache_font_for_index, lockVars, Wanted
<1>6. ProgressInv'
  <2>1. ASSUME NEW v \in Worker, pc'[v] \notin {"idle", "panicked"}
        PROVE  /\ job'[v].slot \in Slot
               /\ contents'[job'[v].slot].text \in Texts
               /\ \A r \in Elems(contents'[job'[v].slot].text) : SeenTo(r, v)'
    <3>1. CASE v = w
      <4>1. job'[w].slot = job[w].slot
            /\ job'[w] \in [slot : Slot \cup {NoSlot}, runs : Seq(Run), fonts : Seq(FontKey)]
        BY <1>1, <1>2, <1>3
      <4>2. \A r \in Elems(contents[job[w].slot].text) :
              \/ r \in Elems(job'[w].runs)
              \/ \A f \in Family : FontOf(f, r) \in font_cache \cup Elems(job'[w].fonts)
        BY <1>3, <4>1, NextFont DEF cache_font_for_index
      <4> QED BY <3>1, <4>1, <4>2, <1>3 DEF ProgressInv, SeenTo
    <3>2. CASE v # w
      BY <3>2, <2>1, <1>3 DEF ProgressInv, SeenTo
    <3> QED BY <3>1, <3>2
  <2>2. \A v \in Worker : pc'[v] = "shape" => job'[v].runs = <<>> /\ job'[v].fonts = <<>>
    BY <1>3 DEF ProgressInv
  <2>3. \A s \in unshaped' : contents'[s].text \in Texts
    BY DEF ProgressInv, cache_font_for_index
  <2> QED BY <2>1, <2>2, <2>3 DEF ProgressInv
<1>7. FontsOfTheText'
  BY <1>3 DEF FontsOfTheText
<1> QED BY <1>4, <1>5, <1>6, <1>7

\* A font that is missing is loaded, by a thread that no other one runs into.
LEMMA LoadStep ==
    ASSUME IInv, NEW w \in Worker, load_keyed(w) \/ upgrade(w)
    PROVE  IInv'
<1> USE DEF IInv
<1>1. /\ contents' = contents /\ unshaped' = unshaped /\ font_cache' = font_cache
      /\ job' = job
      /\ \A v \in Worker \ {w} : pc'[v] = pc[v]
      /\ pc[w] \in {"cache", "load"} /\ pc'[w] \in {"load", "upgrade"}
      /\ pc' \in [Worker -> {"idle", "cache", "load", "upgrade", "shape", "panicked"}]
  BY DEF load_keyed, upgrade, TypeInv, lockVars
<1>2. TypeInv'
  BY <1>1 DEF TypeInv
<1>3. LockInv'
  <2>1. CASE load_keyed(w)
    <3>1. upgradable = {} /\ upgradable' = {w}
      BY <2>1 DEF load_keyed, CanReadUpgradable
    <3>2. \A v \in Worker \ {w} : pc'[v] \notin {"load", "upgrade"}
      BY <3>1, <1>1 DEF LockInv
    <3>3. job[w].fonts # <<>> /\ Wanted(w) \notin font_cache
      BY <2>1 DEF load_keyed
    <3> QED BY <3>1, <3>2, <3>3, <1>1 DEF LockInv, Wanted
  <2>2. CASE upgrade(w)
    <3>1. upgradable' = upgradable /\ pc[w] = "load"
      BY <2>2 DEF upgrade, lockVars
    <3> QED BY <3>1, <1>1 DEF LockInv, Wanted
  <2> QED BY <2>1, <2>2
<1>4. ProgressInv'
  BY <1>1 DEF ProgressInv, SeenTo
<1>5. FontsOfTheText'
  BY <1>1 DEF FontsOfTheText
<1> QED BY <1>2, <1>3, <1>4, <1>5

\* The font is inserted; nobody else is about to.
LEMMA InsertStep ==
    ASSUME IInv, NEW w \in Worker, insert(w)
    PROVE  IInv'
<1> USE DEF IInv
<1>1. /\ job[w] \in [slot : Slot \cup {NoSlot}, runs : Seq(Run), fonts : Seq(FontKey)]
      /\ job[w].fonts # <<>> /\ w \in upgradable
  BY DEF TypeInv, LockInv, insert
<1>2. Tail(job[w].fonts) \in Seq(FontKey)
  BY <1>1, HeadAndTail
<1>3. /\ contents' = contents /\ unshaped' = unshaped
      /\ font_cache' = font_cache \cup {Wanted(w)}
      /\ upgradable' = upgradable \ {w}
      /\ \A v \in Worker \ {w} : job'[v] = job[v] /\ pc'[v] = pc[v]
      /\ job'[w] = [job[w] EXCEPT !.fonts = Tail(@)]
      /\ pc[w] = "upgrade" /\ pc'[w] = "cache"
  BY DEF insert, TypeInv
<1>4. TypeInv'
  <2>1. job' \in [Worker -> [slot : Slot \cup {NoSlot}, runs : Seq(Run), fonts : Seq(FontKey)]]
    BY <1>1, <1>2 DEF insert, TypeInv
  <2>2. pc' \in [Worker -> {"idle", "cache", "load", "upgrade", "shape", "panicked"}]
    BY DEF insert, TypeInv
  <2> QED BY <1>3, <2>1, <2>2 DEF TypeInv
<1>5. LockInv'
  <2>1. \A v \in Worker : pc'[v] \notin {"load", "upgrade"}
    BY <1>1, <1>3 DEF LockInv
  <2> QED BY <2>1, <1>3 DEF LockInv
<1>6. ProgressInv'
  <2>1. ASSUME NEW v \in Worker, pc'[v] \notin {"idle", "panicked"}
        PROVE  /\ job'[v].slot \in Slot
               /\ contents'[job'[v].slot].text \in Texts
               /\ \A r \in Elems(contents'[job'[v].slot].text) : SeenTo(r, v)'
    <3>1. CASE v = w
      <4>1. job'[w].slot = job[w].slot
            /\ job'[w] \in [slot : Slot \cup {NoSlot}, runs : Seq(Run), fonts : Seq(FontKey)]
        BY <1>1, <1>2, <1>3
      <4>2. \A r \in Elems(contents[job[w].slot].text) :
              \/ r \in Elems(job'[w].runs)
              \/ \A f \in Family : FontOf(f, r) \in font_cache' \cup Elems(job'[w].fonts)
        <5>1. pc[w] \notin {"idle", "panicked"} /\ font_cache \subseteq font_cache' /\ Wanted(w) \in font_cache'
          BY <1>3
        <5> QED BY <5>1, <1>1, <1>3, <4>1, NextFont
      <4> QED BY <3>1, <4>1, <4>2, <1>3 DEF ProgressInv, SeenTo
    <3>2. CASE v # w
      BY <3>2, <2>1, <1>3 DEF ProgressInv, SeenTo
    <3> QED BY <3>1, <3>2
  <2>2. \A v \in Worker : pc'[v] = "shape" => job'[v].runs = <<>> /\ job'[v].fonts = <<>>
    BY <1>3 DEF ProgressInv
  <2>3. \A s \in unshaped' : contents'[s].text \in Texts
    BY DEF ProgressInv, insert
  <2> QED BY <2>1, <2>2, <2>3 DEF ProgressInv
<1>7. FontsOfTheText'
  BY <1>3 DEF FontsOfTheText
<1> QED BY <1>4, <1>5, <1>6, <1>7

\* A thread that has nothing left to load may shape.
LEMMA ShapeStep ==
    ASSUME IInv, NEW w \in Worker, shape(w)
    PROVE  IInv'
<1> USE DEF IInv
<1>1. /\ contents' = contents /\ unshaped' = unshaped /\ font_cache' = font_cache
      /\ job' = job /\ upgradable' = upgradable
      /\ \A v \in Worker \ {w} : pc'[v] = pc[v]
      /\ pc[w] = "cache" /\ pc'[w] = "shape"
      /\ pc' \in [Worker -> {"idle", "cache", "load", "upgrade", "shape", "panicked"}]
      /\ job[w].runs = <<>> /\ job[w].fonts = <<>>
  BY DEF shape, TypeInv
<1>2. TypeInv'
  BY <1>1 DEF TypeInv
<1>3. LockInv'
  BY <1>1 DEF LockInv, Wanted
<1>4. ProgressInv'
  BY <1>1 DEF ProgressInv, SeenTo
<1>5. FontsOfTheText'
  BY <1>1 DEF FontsOfTheText
<1> QED BY <1>2, <1>3, <1>4, <1>5

\* It has the fonts of all its runs when it does.
LEMMA RenderedStep ==
    ASSUME IInv, NEW w \in Worker, rendered(w)
    PROVE  IInv'
<1> USE DEF IInv
<1> DEFINE slot == job[w].slot
           text == contents[slot].text
<1>1. slot \in Slot /\ text \in Seq(Run) /\ text \in Texts
  BY DEF rendered, ProgressInv, TypeInv
<1>2. \A run \in Elems(text) : \A f \in Family : FontOf(f, run) \in font_cache
  BY EmptyElems DEF rendered, ProgressInv, SeenTo
<1>3. Rendered(text, font_cache) = RenderedWithAll[text]
  BY <1>1, <1>2, RenderedWithEnough DEF RenderedWithAll
<1>4. Rendered(text, font_cache).text = text
  BY DEF Rendered
<1> HIDE DEF slot, text
<1>5. /\ contents' = [contents EXCEPT ![slot] = Rendered(text, font_cache)]
      /\ unshaped' = unshaped /\ font_cache' = font_cache /\ upgradable' = upgradable
      /\ \A v \in Worker \ {w} : pc'[v] = pc[v] /\ job'[v] = job[v]
      /\ pc'[w] = "idle"
      /\ pc' \in [Worker -> {"idle", "cache", "load", "upgrade", "shape", "panicked"}]
      /\ job' \in [Worker -> [slot : Slot \cup {NoSlot}, runs : Seq(Run), fonts : Seq(FontKey)]]
  <2>1. NoJob \in [slot : Slot \cup {NoSlot}, runs : Seq(Run), fonts : Seq(FontKey)]
    BY DEF NoJob
  <2> QED BY <2>1, <1>1 DEF rendered, TypeInv, slot, text
<1>6. /\ DOMAIN contents' = Slot
      /\ contents'[slot] = RenderedWithAll[text] /\ contents'[slot].text = text
      /\ \A s \in Slot \ {slot} : contents'[s] = contents[s]
  BY <1>1, <1>3, <1>4, <1>5 DEF TypeInv
<1>7. \A s \in Slot : contents'[s].text = contents[s].text
  BY <1>6 DEF text
<1>8. TypeInv'
  BY <1>5, <1>6, <1>7 DEF TypeInv
<1>9. LockInv'
  BY <1>5 DEF LockInv, Wanted
<1>10. ProgressInv'
  BY <1>5, <1>7, ZenonT(60) DEF ProgressInv, SeenTo, TypeInv
<1>11. FontsOfTheText'
  BY <1>6 DEF FontsOfTheText
<1> QED BY <1>8, <1>9, <1>10, <1>11

\* A thread that panics leaves the text as it is.
LEMMA PanicStep ==
    ASSUME IInv, NEW w \in Worker, out_of_range(w)
    PROVE  IInv'
<1> USE DEF IInv
<1>1. /\ contents' = contents /\ unshaped' = unshaped /\ font_cache' = font_cache
      /\ upgradable' = upgradable
      /\ \A v \in Worker \ {w} : pc'[v] = pc[v] /\ job'[v] = job[v]
      /\ pc'[w] = "panicked"
      /\ pc' \in [Worker -> {"idle", "cache", "load", "upgrade", "shape", "panicked"}]
      /\ job' \in [Worker -> [slot : Slot \cup {NoSlot}, runs : Seq(Run), fonts : Seq(FontKey)]]
  <2>1. NoJob \in [slot : Slot \cup {NoSlot}, runs : Seq(Run), fonts : Seq(FontKey)]
    BY DEF NoJob
  <2> QED BY <2>1 DEF out_of_range, TypeInv
<1>2. TypeInv'
  BY <1>1 DEF TypeInv
<1>3. LockInv'
  BY <1>1 DEF LockInv, Wanted
<1>4. ProgressInv'
  BY <1>1, ZenonT(60) DEF ProgressInv, SeenTo
<1>5. FontsOfTheText'
  BY <1>1 DEF FontsOfTheText
<1> QED BY <1>2, <1>3, <1>4, <1>5

LEMMA NextIInv == IInv /\ [Next]_vars => IInv'
<1> SUFFICES ASSUME IInv, [Next]_vars PROVE IInv'
  OBVIOUS
<1>1. CASE sync_client_view
  BY <1>1, FrameStep
<1>4. CASE next_connection
  BY <1>4, RestartStep
<1>2. ASSUME NEW w \in Worker, Thread(w) PROVE IInv'
  BY <1>2, TakeStep, RunStep, HitStep, LoadStep, InsertStep, ShapeStep, RenderedStep,
        PanicStep
     DEF Thread
<1>3. CASE UNCHANGED vars
  BY <1>3 DEF vars, IInv, TypeInv, LockInv, ProgressInv, SeenTo, FontsOfTheText, Wanted
<1> QED BY <1>1, <1>2, <1>3, <1>4 DEF Next

-----------------------------------------------------------------------------

\* However many threads shape, a font is inserted where there was none, by one
\* thread at a time: the assertion of cache_font_for_index holds.
THEOREM FontsAreInsertedOnce == Spec => []InsertedOnce
<1>1. IInv => InsertedOnce
  BY DEF IInv, LockInv, InsertedOnce
<1> QED BY <1>1, InitIInv, NextIInv, PTL DEF Spec

\* Every text is rendered as it would be if all that can be loaded were there: in
\* the fonts of its glyphs, and in the runs recorded of them.
THEOREM TextsGetTheirFonts == Spec => []FontsOfTheText
<1>1. IInv => FontsOfTheText
  BY DEF IInv
<1> QED BY <1>1, InitIInv, NextIInv, PTL DEF Spec

=============================================================================

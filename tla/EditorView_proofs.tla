--------------------------- MODULE EditorView_proofs ---------------------------
(***************************************************************************)
(* Proofs about the editor view and the center in it: for windows of any   *)
(* sizes and scale factors, one after the other, any font, documents of    *)
(* any length in any number of texts, and any word size, what the frames   *)
(* show fits the window, and the model of the center is in step with what  *)
(* the client was told.                                                    *)
(*                                                                         *)
(* First the frames of the center.  A document is matched entry by entry,  *)
(* by a recursive function.  What holds after every entry is stated as an  *)
(* invariant of the matching, Matching below, and proved by induction on   *)
(* the number of entries; the induction is over the least number for which *)
(* it does not hold, which exists because the finite sets are well-founded *)
(* under inclusion.                                                        *)
(*                                                                         *)
(* Then the view around it, for the texts of the view, which come with a   *)
(* font size.  What has to be added is that the boxes are those of the     *)
(* window last seen, although they are only laid out again when its size   *)
(* differs from the one they were laid out for, and the enclosure and the  *)
(* shaper only follow when it differs from the one last sent.              *)
(***************************************************************************)
EXTENDS EditorView, FiniteSetTheorems, FunctionTheorems, SequenceTheorems, TLAPS

-----------------------------------------------------------------------------
(* Natural numbers.                                                        *)

\* A set of natural numbers that is not empty has a least element.
LEMMA LeastNumber ==
    ASSUME NEW S, S \subseteq Nat, S # {}
    PROVE  \E x \in S : \A y \in S : x =< y
<1> DEFINE Below == {0 .. n - 1 : n \in S}
<1> DEFINE Inside == StrictSubsetOrdering(Nat)
<1>1. \A n \in S : 0 .. n - 1 \in FiniteSubsetsOf(Nat)
    BY FS_Interval DEF FiniteSubsetsOf
<1>2. Below \subseteq FiniteSubsetsOf(Nat) /\ Below # {}
    BY <1>1
<1>3. IsWellFoundedOn(Inside, FiniteSubsetsOf(Nat))
    BY FS_StrictSubsetOrderingWellFounded
<1> HIDE DEF Below, Inside
<1>4. PICK X \in Below : \A Y \in Below : <<Y, X>> \notin Inside
    BY <1>2, <1>3, WFMin
<1>5. PICK x \in S : X = 0 .. x - 1
    BY DEF Below
<1>6. \A y \in S : <<0 .. y - 1, 0 .. x - 1>> \notin Inside
    BY <1>4, <1>5 DEF Below
<1>7. ASSUME NEW y \in S, y < x PROVE FALSE
    <2>1. 0 .. y - 1 \subseteq Nat /\ 0 .. x - 1 \subseteq Nat
        OBVIOUS
    <2>2. 0 .. y - 1 \subseteq 0 .. x - 1
        BY <1>7
    <2>3. y \in 0 .. x - 1 /\ y \notin 0 .. y - 1
        BY <1>7
    <2>. QED
        BY <2>1, <2>2, <2>3, <1>6 DEF Inside, StrictSubsetOrdering
<1>. QED
    BY <1>7

\* Induction up to N, for the set of the numbers that have the property.
LEMMA UpTo ==
    ASSUME NEW N \in Nat, NEW S, 0 \in S,
           \A n \in 0 .. N - 1 : n \in S => n + 1 \in S
    PROVE  \A n \in 0 .. N : n \in S
<1> DEFINE Others == {n \in 0 .. N : n \notin S}
<1>1. SUFFICES ASSUME Others # {} PROVE FALSE
    OBVIOUS
<1>2. Others \subseteq Nat
    OBVIOUS
<1> HIDE DEF Others
<1>3. PICK x \in Others : \A y \in Others : x =< y
    BY <1>1, <1>2, LeastNumber
<1>4. x \in 0 .. N /\ x # 0 /\ x - 1 \in 0 .. N - 1
    BY <1>3 DEF Others
<1>5. x - 1 \in S
    BY <1>3, <1>4 DEF Others
<1>. QED
    BY <1>3, <1>4, <1>5 DEF Others

-----------------------------------------------------------------------------
(* The age of a slot.                                                      *)

\* The remainder of a number that is less than one divisor out of range.
LEMMA RemainderIs ==
    ASSUME NEW m \in Nat \ {0}, NEW x \in Int, -m =< x, x < 2 * m
    PROVE  x % m = IF x < 0 THEN x + m ELSE IF x < m THEN x ELSE x - m
<1>1. CASE x < 0
    BY <1>1
<1>2. CASE x >= 0 /\ x < m
    BY <1>2
<1>3. CASE x >= m
    BY <1>3
<1>. QED
    BY <1>1, <1>2, <1>3

\* The quarter of a word.
LEMMA QuarterIs ==
    ASSUME NEW x \in Word, NEW k \in 0 .. 3
    PROVE  QuarterOf(x) = k <=> k * Quarter =< x /\ x < (k + 1) * Quarter
<1>1. QuarterOf(x) \in 0 .. 3
    BY QuarterAssumption DEF QuarterOf, Word
<1>2. QuarterOf(x) * Quarter =< x /\ x < (QuarterOf(x) + 1) * Quarter
    BY QuarterAssumption DEF QuarterOf, Word
<1>. QED
    BY <1>1, <1>2, QuarterAssumption DEF Word

\* The shift takes a word a quarter less one further.
LEMMA ShiftedIs ==
    ASSUME NEW x \in Word
    PROVE  WrappingAdd(x, Shift) = IF x + Quarter - 1 < 4 * Quarter THEN x + Quarter - 1
                                   ELSE x + Quarter - 1 - 4 * Quarter
<1>1. Shift = Quarter - 1
    BY QuarterAssumption DEF Shift
<1>2. 4 * Quarter \in Nat \ {0} /\ x \in Nat /\ x < 4 * Quarter
    BY QuarterAssumption DEF Word
<1>3. ASSUME NEW y \in Int, y = x + (Quarter - 1)
      PROVE  y % (4 * Quarter) = IF y < 4 * Quarter THEN y ELSE y - 4 * Quarter
    <2> DEFINE words == 4 * Quarter
    <2>1. words \in Nat \ {0} /\ -words =< y /\ 0 =< y /\ y < 2 * words
        BY <1>2, <1>3, QuarterAssumption
    <2> HIDE DEF words
    <2>2. y % words = IF y < 0 THEN y + words ELSE IF y < words THEN y ELSE y - words
        BY <2>1, RemainderIs
    <2>. QED
        BY <2>1, <2>2 DEF words
<1>. QED
    BY <1>1, <1>2, <1>3, QuarterAssumption DEF WrappingAdd

\* Shifted or not, a word stays the same distance from another one.
LEMMA ShiftIs ==
    ASSUME NEW x \in Word, NEW shifted \in BOOLEAN
    PROVE  LET y == IF shifted THEN x + Quarter - 1 ELSE x
           IN  Operand(x, shifted) = IF y < 4 * Quarter THEN y ELSE y - 4 * Quarter
    BY ShiftedIs, QuarterAssumption DEF Operand, Word

\* Up to a quarter of the words later, the age of a word can be told, and is
\* the difference: also next to the points where i16 or u16 wrap around.
LEMMA AgeIsDifference ==
    ASSUME NEW x \in Word, NEW y \in Word, x =< y, y - x =< Quarter
    PROVE  wrapping_age(x, y) = y - x
<1>1. Quarter \in Nat \ {0} /\ x \in 0 .. 4 * Quarter - 1 /\ y \in 0 .. 4 * Quarter - 1
    BY QuarterAssumption DEF Word
<1>2. Comparable(y, x)
    <2>1. PICK k \in 0 .. 3 : k = QuarterOf(x)
        BY <1>1 DEF QuarterOf
    <2>2. k * Quarter =< x /\ x < (k + 1) * Quarter
        BY <2>1, QuarterIs
    <2>3. CASE y < (k + 1) * Quarter
        <3>1. QuarterOf(y) = k
            BY <1>1, <2>2, <2>3, QuarterIs
        <3>. QED
            BY <2>1, <3>1 DEF Comparable
    <2>4. CASE y >= (k + 1) * Quarter
        <3>1. k + 1 \in 0 .. 3 /\ y < (k + 2) * Quarter
            BY <1>1, <2>2, <2>4
        <3>2. QuarterOf(y) = k + 1
            BY <2>4, <3>1, QuarterIs
        <3>. QED
            BY <2>1, <3>1, <3>2 DEF Comparable
    <2>. QED
        BY <1>1, <2>2, <2>3, <2>4
<1>3. PICK shifted \in BOOLEAN : shifted = NearWrap(y, x)
    BY DEF NearWrap
<1> DEFINE X == Operand(x, shifted)
           Y == Operand(y, shifted)
           D == Signed(Y) - Signed(X)
<1>4. /\ X \in {x, x + Quarter - 1, x - 3 * Quarter - 1} \cap Word
      /\ Y \in {y, y + Quarter - 1, y - 3 * Quarter - 1} \cap Word
      /\ Y - X \in {y - x, y - x - 4 * Quarter}
    BY <1>1, ShiftIs DEF Word
<1>5. /\ D \in {y - x, y - x - 4 * Quarter, y - x + 4 * Quarter}
      /\ D \in Int /\ -4 * Quarter < D /\ D < 4 * Quarter
    <2> HIDE DEF X, Y
    <2>. QED
        BY <1>1, <1>4 DEF Signed, Word
<1>6. D % (4 * Quarter) = y - x
    <2>1. 4 * Quarter \in Nat \ {0}
        BY <1>1
    <2> HIDE DEF D
    <2>2. D % (4 * Quarter) = IF D < 0 THEN D + 4 * Quarter ELSE D
        BY <1>5, <2>1, RemainderIs
    <2>. QED
        BY <1>1, <1>5, <2>2
<1>7. wrapping_age(x, y) = Signed(D % (4 * Quarter))
    BY <1>2, <1>3 DEF wrapping_age, wrapping_subtract, WrappingDifference
<1>. QED
    BY <1>1, <1>6, <1>7 DEF Signed

\* wrapping_age, "based on a wrapping generation number" (center.rs):
\* up to a quarter of the words after it was last used, the age of a slot is the
\* number of generations since, whatever the word, and also when the generation
\* has wrapped around in between.
THEOREM AgesSurviveTheWrap ==
    ASSUME NEW x \in Word, NEW d \in 0 .. Quarter
    PROVE  wrapping_age(x, WrappingAdd(x, d)) = d
<1>1. Quarter \in Nat \ {0} /\ x \in 0 .. 4 * Quarter - 1 /\ d \in 0 .. Quarter
    BY QuarterAssumption DEF Word
<1>2. WrappingAdd(x, d) = IF x + d < 4 * Quarter THEN x + d ELSE x + d - 4 * Quarter
    <2> DEFINE words == 4 * Quarter
               z == x + d
    <2>1. words \in Nat \ {0} /\ z \in Int /\ -words =< z /\ 0 =< z /\ z < 2 * words
        BY <1>1
    <2> HIDE DEF words, z
    <2>2. z % words = IF z < 0 THEN z + words ELSE IF z < words THEN z ELSE z - words
        BY <2>1, RemainderIs
    <2>3. z % words = IF z < words THEN z ELSE z - words
        BY <2>1, <2>2
    <2>4. WrappingAdd(x, d) = z % words
        BY DEF WrappingAdd, words, z
    <2>5. WrappingAdd(x, d) = IF z < words THEN z ELSE z - words
        BY <2>3, <2>4
    <2>. QED
        BY <1>1, <2>5 DEF words, z
<1>3. CASE x + d < 4 * Quarter
    <2>1. x + d \in Word /\ x =< x + d /\ (x + d) - x = d
        BY <1>1, <1>3 DEF Word
    <2>2. wrapping_age(x, x + d) = (x + d) - x
        BY <1>1, <2>1, AgeIsDifference
    <2>. QED
        BY <1>2, <1>3, <2>1, <2>2
<1>4. CASE x + d >= 4 * Quarter
    <2> DEFINE y == x + d - 4 * Quarter
    <2>1. y \in Word /\ WrappingAdd(x, d) = y /\ y < Quarter /\ x >= 3 * Quarter
        BY <1>1, <1>2, <1>4 DEF Word
    <2>2. QuarterOf(x) = 3 /\ QuarterOf(y) = 0
        <3> HIDE DEF y
        <3>1. 0 * Quarter =< y /\ y < (0 + 1) * Quarter
              /\ 3 * Quarter =< x /\ x < (3 + 1) * Quarter
            BY <1>1, <2>1 DEF Word
        <3>. QED
            BY <2>1, <3>1, QuarterIs
    <2>3. Comparable(y, x) /\ NearWrap(y, x)
        BY <2>2 DEF Comparable, NearWrap
    <2> DEFINE X == WrappingAdd(x, Shift)
               Y == WrappingAdd(y, Shift)
    <2>4. X = (IF x + Quarter - 1 < 4 * Quarter THEN x + Quarter - 1
               ELSE x + Quarter - 1 - 4 * Quarter)
        BY ShiftedIs
    <2>5. Y = y + Quarter - 1
        <3> HIDE DEF y
        <3>1. Y = IF y + Quarter - 1 < 4 * Quarter THEN y + Quarter - 1
                  ELSE y + Quarter - 1 - 4 * Quarter
            BY <2>1, ShiftedIs
        <3> HIDE DEF Y
        <3>. QED
            BY <3>1, <1>1, <2>1 DEF Word
    <2>6. Signed(Y) - Signed(X) = d
        <3> HIDE DEF X, Y
        <3>. QED
            BY <1>1, <1>4, <2>1, <2>4, <2>5 DEF Signed
    <2>7. wrapping_age(x, y) = Signed((Signed(Y) - Signed(X)) % (4 * Quarter))
        BY <2>3 DEF wrapping_age, wrapping_subtract, WrappingDifference, Operand
    <2>8. d % (4 * Quarter) = d
        BY <1>1
    <2> HIDE DEF X, Y, y
    <2>. QED
        BY <1>1, <2>1, <2>6, <2>7, <2>8 DEF Signed
<1>. QED
    BY <1>1, <1>3, <1>4

\* The subtraction itself, on words that are signed, leaves its range whenever the
\* slot was last used before the end of the first quarter and is seen from beyond
\* it, or before the middle of the words and seen from beyond that: a release build
\* wraps around and is right all the same, a debug build panics.
THEOREM AgesOverflowAtQuarters ==
    ASSUME NEW x \in Word, NEW y \in Word, x =< y, y - x =< Quarter
    PROVE  Overflows(Operand(y, NearWrap(y, x)), Operand(x, NearWrap(y, x)))
            <=> \/ x < Quarter /\ Quarter < y
                \/ Quarter =< x /\ x < 2 * Quarter /\ 2 * Quarter =< y
<1>1. Quarter \in Nat \ {0} /\ x \in 0 .. 4 * Quarter - 1 /\ y \in 0 .. 4 * Quarter - 1
    BY QuarterAssumption DEF Word
<1>2. NearWrap(y, x) <=> x < Quarter \/ y >= 3 * Quarter
    <2>1. /\ QuarterOf(x) = 0 <=> x < Quarter
          /\ QuarterOf(x) = 3 <=> 3 * Quarter =< x
          /\ QuarterOf(y) = 0 <=> y < Quarter
          /\ QuarterOf(y) = 3 <=> 3 * Quarter =< y
        <3>1. /\ QuarterOf(x) = 0 <=> 0 * Quarter =< x /\ x < (0 + 1) * Quarter
              /\ QuarterOf(x) = 3 <=> 3 * Quarter =< x /\ x < (3 + 1) * Quarter
              /\ QuarterOf(y) = 0 <=> 0 * Quarter =< y /\ y < (0 + 1) * Quarter
              /\ QuarterOf(y) = 3 <=> 3 * Quarter =< y /\ y < (3 + 1) * Quarter
            BY QuarterIs
        <3>. QED
            BY <1>1, <3>1
    <2>2. NearWrap(y, x) <=> \/ QuarterOf(x) = 0 \/ QuarterOf(x) = 3
                             \/ QuarterOf(y) = 0 \/ QuarterOf(y) = 3
        BY DEF NearWrap
    <2>. QED
        BY <1>1, <2>1, <2>2
<1>3. CASE NearWrap(y, x)
    <2> DEFINE X == WrappingAdd(x, Shift)
               Y == WrappingAdd(y, Shift)
    <2>1. /\ X = (IF x + Quarter - 1 < 4 * Quarter THEN x + Quarter - 1
                  ELSE x + Quarter - 1 - 4 * Quarter)
          /\ Y = (IF y + Quarter - 1 < 4 * Quarter THEN y + Quarter - 1
                  ELSE y + Quarter - 1 - 4 * Quarter)
        BY ShiftedIs
    <2>2. Operand(x, NearWrap(y, x)) = X /\ Operand(y, NearWrap(y, x)) = Y
        BY <1>3 DEF Operand
    <2> HIDE DEF X, Y
    <2>3. Overflows(Y, X) <=> \/ x < Quarter /\ Quarter < y
                              \/ Quarter =< x /\ x < 2 * Quarter /\ 2 * Quarter =< y
        BY <1>1, <1>2, <1>3, <2>1 DEF Overflows, Signed
    <2>. QED
        BY <2>2, <2>3
<1>4. CASE ~NearWrap(y, x)
    <2>1. Operand(x, NearWrap(y, x)) = x /\ Operand(y, NearWrap(y, x)) = y
        BY <1>4 DEF Operand
    <2>2. Overflows(y, x) <=> \/ x < Quarter /\ Quarter < y
                              \/ Quarter =< x /\ x < 2 * Quarter /\ 2 * Quarter =< y
        BY <1>1, <1>2, <1>4 DEF Overflows, Signed
    <2>. QED
        BY <2>1, <2>2
<1>. QED
    BY <1>3, <1>4

-----------------------------------------------------------------------------
(* The steps of the matching.                                              *)

Paragraph_(texts) == [text : texts, id : Nat \ {0}, location : Nat]
Slot == Word \cup {Free}

MatchState(texts) ==
    [existing : Seq(Paragraph_(texts)), slots : Seq(Slot), generation : Word,
     layout : Seq(Paragraph_(texts)), updated : SUBSET Nat, moved : SUBSET Nat]

\* No two paragraphs share an id.
DistinctIds(entries) ==
    \A i, j \in DOMAIN entries : entries[i].id = entries[j].id => i = j

\* SetMin of a set of numbers that is not empty is its least element.
LEMMA SetMinIs ==
    ASSUME NEW S, S \subseteq Nat, S # {}
    PROVE  SetMin(S) \in S /\ \A x \in S : SetMin(S) =< x
<1>1. \E x \in S : \A y \in S : x =< y
    BY LeastNumber
<1>. QED
    BY <1>1 DEF SetMin

\* swap_remove takes out one element, and keeps every other one once.
LEMMA SwapRemoveIs ==
    ASSUME NEW S, NEW s \in Seq(S), NEW i \in DOMAIN s
    PROVE  /\ SwapRemove(s, i) \in Seq(S)
           /\ \A j \in DOMAIN SwapRemove(s, i) :
                \E k \in DOMAIN s \ {i} : SwapRemove(s, i)[j] = s[k]
           /\ \A k \in DOMAIN s \ {i} :
                \E j \in DOMAIN SwapRemove(s, i) : SwapRemove(s, i)[j] = s[k]
<1>1. Len(s) \in Nat /\ i \in 1 .. Len(s) /\ \A k \in 1 .. Len(s) : s[k] \in S
    OBVIOUS
<1>2. SwapRemove(s, i) = [j \in 1 .. Len(s) - 1 |-> IF j = i THEN s[Len(s)] ELSE s[j]]
    BY DEF SwapRemove
<1>3. SwapRemove(s, i) \in Seq(S) /\ DOMAIN SwapRemove(s, i) = 1 .. Len(s) - 1
    <2>1. \A j \in 1 .. Len(s) - 1 : (IF j = i THEN s[Len(s)] ELSE s[j]) \in S
        BY <1>1
    <2>2. Len(s) - 1 \in Nat
        BY <1>1
    <2>. QED
        BY <1>2, <2>1, <2>2, IsASeq
<1>4. ASSUME NEW j \in 1 .. Len(s) - 1
      PROVE  \E k \in DOMAIN s \ {i} : SwapRemove(s, i)[j] = s[k]
    <2>1. CASE j = i
        BY <1>1, <1>2, <2>1
    <2>2. CASE j # i
        BY <1>1, <1>2, <2>2
    <2>. QED
        BY <2>1, <2>2
<1>5. ASSUME NEW k \in DOMAIN s \ {i}
      PROVE  \E j \in 1 .. Len(s) - 1 : SwapRemove(s, i)[j] = s[k]
    <2>1. CASE k = Len(s)
        <3>1. i \in 1 .. Len(s) - 1 /\ SwapRemove(s, i)[i] = s[k]
            BY <1>1, <1>2, <2>1
        <3>. QED
            BY <3>1
    <2>2. CASE k # Len(s)
        <3>1. k \in 1 .. Len(s) - 1 /\ SwapRemove(s, i)[k] = s[k]
            BY <1>1, <1>2, <2>2
        <3>. QED
            BY <3>1
    <2>. QED
        BY <2>1, <2>2
<1>. QED
    BY <1>3, <1>4, <1>5

\* Paragraphs without one of them: its id is gone, the others are still there,
\* each once.
LEMMA SwapRemoveKeepsIds ==
    ASSUME NEW texts, NEW s \in Seq(Paragraph_(texts)), NEW i \in DOMAIN s,
           DistinctIds(s)
    PROVE  /\ Ids(SwapRemove(s, i)) = Ids(s) \ {s[i].id}
           /\ DistinctIds(SwapRemove(s, i))
<1>1. /\ \A j \in DOMAIN SwapRemove(s, i) :
            \E k \in DOMAIN s \ {i} : SwapRemove(s, i)[j] = s[k]
      /\ \A k \in DOMAIN s \ {i} :
            \E j \in DOMAIN SwapRemove(s, i) : SwapRemove(s, i)[j] = s[k]
    BY SwapRemoveIs
<1>2. Ids(SwapRemove(s, i)) = Ids(s) \ {s[i].id}
    BY <1>1 DEF Ids, DistinctIds
<1>3. DistinctIds(SwapRemove(s, i))
    <2>1. SwapRemove(s, i) = [j \in 1 .. Len(s) - 1 |-> IF j = i THEN s[Len(s)] ELSE s[j]]
        BY DEF SwapRemove
    <2>2. Len(s) \in Nat /\ i \in 1 .. Len(s) /\ DOMAIN s = 1 .. Len(s)
        OBVIOUS
    <2>. QED
        BY <2>1, <2>2 DEF DistinctIds
<1>. QED
    BY <1>2, <1>3

\* The id for a new paragraph is one whose slot is free, or has to be added when
\* there is none.
LEMMA NewIdIs ==
    ASSUME NEW slots \in Seq(Slot)
    PROVE  /\ new_id(slots) \in 1 .. Len(slots) + 1
           /\ new_id(slots) \in DOMAIN slots => slots[new_id(slots)] = Free
           /\ new_id(slots) \notin DOMAIN slots => \A id \in DOMAIN slots : slots[id] # Free
<1> DEFINE free == {id \in DOMAIN slots : slots[id] = Free}
<1>1. CASE free = {}
    <2>1. new_id(slots) = Len(slots) + 1
        BY <1>1 DEF new_id
    <2>. QED
        BY <1>1, <2>1
<1>2. CASE free # {}
    <2>1. new_id(slots) = SetMin(free)
        BY <1>2 DEF new_id
    <2>2. free \subseteq Nat
        OBVIOUS
    <2>3. SetMin(free) \in free
        <3> HIDE DEF free
        <3>. QED
            BY <1>2, <2>2, SetMinIs
    <2>. QED
        BY <2>1, <2>3
<1>. QED
    BY <1>1, <1>2

\* A slot that is occupied, or added, has the generation; the others stay.
OneMarked(new, slots, id, g) ==
    /\ new \in Seq(Slot)
    /\ \A x : x \in DOMAIN new <=> x \in DOMAIN slots \/ x = id
    /\ new[id] = g
    /\ \A x \in DOMAIN slots : x # id => new[x] = slots[x]

LEMMA OccupyIs ==
    ASSUME NEW slots, slots \in Seq(Slot), NEW id, id \in 1 .. Len(slots) + 1,
           NEW g, g \in Word
    PROVE  OneMarked(Occupy(slots, id, g), slots, id, g)
<1>1. CASE id > Len(slots)
    <2>1. Occupy(slots, id, g) = Append(slots, g) /\ id = Len(slots) + 1
        BY <1>1 DEF Occupy
    <2>2. g \in Slot
        BY DEF Slot
    <2>. QED
        BY <2>1, <2>2 DEF OneMarked
<1>2. CASE id =< Len(slots)
    <2>1. Occupy(slots, id, g) = [slots EXCEPT ![id] = g] /\ id \in DOMAIN slots
        BY <1>2 DEF Occupy
    <2>2. g \in Slot
        BY DEF Slot
    <2>3. Occupy(slots, id, g) \in Seq(Slot)
        BY <2>1, <2>2, ExceptSeq
    <2>. QED
        BY <2>1, <2>3 DEF OneMarked
<1>. QED
    BY <1>1, <1>2

\* One more paragraph at the end of a layout.
LEMMA LaidOut ==
    ASSUME NEW texts, NEW s \in Seq(Paragraph_(texts)), NEW p \in Paragraph_(texts)
    PROVE  /\ Append(s, p) \in Seq(Paragraph_(texts))
           /\ Len(Append(s, p)) = Len(s) + 1
           /\ DOMAIN Append(s, p) = DOMAIN s \cup {Len(s) + 1}
           /\ Append(s, p)[Len(s) + 1] = p
           /\ \A i \in DOMAIN s : i # Len(s) + 1 /\ Append(s, p)[i] = s[i]
           /\ Ids(Append(s, p)) = Ids(s) \cup {p.id}
           /\ DistinctIds(s) /\ p.id \notin Ids(s) => DistinctIds(Append(s, p))
<1>1. /\ Append(s, p) \in Seq(Paragraph_(texts))
      /\ Len(Append(s, p)) = Len(s) + 1
      /\ DOMAIN Append(s, p) = DOMAIN s \cup {Len(s) + 1}
      /\ Append(s, p)[Len(s) + 1] = p
      /\ \A i \in DOMAIN s : i # Len(s) + 1 /\ Append(s, p)[i] = s[i]
    OBVIOUS
<1>2. Ids(Append(s, p)) = Ids(s) \cup {p.id}
    BY <1>1, Zenon DEF Ids
<1>3. DistinctIds(s) /\ p.id \notin Ids(s) => DistinctIds(Append(s, p))
    <2>1. ASSUME DistinctIds(s), p.id \notin Ids(s),
                 NEW i \in DOMAIN Append(s, p), NEW j \in DOMAIN Append(s, p),
                 Append(s, p)[i].id = Append(s, p)[j].id
          PROVE  i = j
        <3>1. \A k \in DOMAIN s : s[k].id # p.id
            BY <2>1 DEF Ids
        <3>2. CASE i \in DOMAIN s /\ j \in DOMAIN s
            BY <1>1, <2>1, <3>2, Zenon DEF DistinctIds
        <3>3. CASE i \in DOMAIN s /\ j = Len(s) + 1
            BY <1>1, <2>1, <3>1, <3>3, Zenon
        <3>4. CASE i = Len(s) + 1 /\ j \in DOMAIN s
            BY <1>1, <2>1, <3>1, <3>4, Zenon
        <3>. QED
            BY <1>1, <2>1, <3>2, <3>3, <3>4, Zenon
    <2>. QED
        BY <2>1 DEF DistinctIds
<1>. QED
    BY <1>1, <1>2, <1>3

-----------------------------------------------------------------------------
(* What holds between two frames.                                          *)

Typed(texts) ==
    /\ client_layout \in Seq(Paragraph_(texts))
    /\ rendered_paragraphs \in Seq(Slot)
    /\ current_generation \in Word

\* The paragraphs of the layout have slots of this generation.
InUse ==
    /\ DistinctIds(client_layout)
    /\ \A id \in Ids(client_layout) :
        id \in Id /\ rendered_paragraphs[id] = current_generation

\* No slot has become older than one generation more than the largest age.
Young ==
    \A id \in Id : rendered_paragraphs[id] # Free =>
        /\ rendered_paragraphs[id] =< current_generation
        /\ current_generation - rendered_paragraphs[id] =< MAX_AGE + 1

\* The age of the slots.
LEMMA AgeIs ==
    ASSUME NEW texts, Typed(texts), Young, NEW id \in Id, rendered_paragraphs[id] # Free
    PROVE  /\ rendered_paragraphs[id] \in Word
           /\ Age(rendered_paragraphs[id]) = current_generation - rendered_paragraphs[id]
<1>1. rendered_paragraphs[id] \in Word /\ current_generation \in Word
    BY DEF Typed, Id, Slot
<1>2. /\ rendered_paragraphs[id] =< current_generation
      /\ current_generation - rendered_paragraphs[id] =< Quarter
    BY <1>1, AgeAssumption, QuarterAssumption DEF Young, Word
<1>. QED
    BY <1>1, <1>2, AgeIsDifference DEF Age

\* What pruning leaves: no paragraph in use is pruned.
LEMMA PruningIs ==
    ASSUME NEW texts, Typed(texts), InUse, Young
    PROVE  /\ SlotsAfterPruning \in Seq(Slot)
           /\ DOMAIN SlotsAfterPruning = Id
           /\ \A id \in Ids(client_layout) :
                id \in Id \ Pruned /\ SlotsAfterPruning[id] = current_generation
           /\ \A id \in Id : SlotsAfterPruning[id] # Free =>
                /\ SlotsAfterPruning[id] \in Word
                /\ SlotsAfterPruning[id] = rendered_paragraphs[id]
                /\ SlotsAfterPruning[id] =< current_generation
                /\ current_generation - SlotsAfterPruning[id] =< MAX_AGE
<1>1. Len(rendered_paragraphs) \in Nat /\ \A id \in Id : rendered_paragraphs[id] \in Slot
    BY DEF Typed, Id
<1>2. SlotsAfterPruning \in Seq(Slot) /\ DOMAIN SlotsAfterPruning = Id
    <2>1. \A id \in Id :
            (IF id \in Pruned THEN Free ELSE rendered_paragraphs[id]) \in Slot
        BY <1>1 DEF Slot
    <2>. QED
        BY <1>1, <2>1, IsASeq DEF SlotsAfterPruning, Id
<1>3. \A id \in Id : SlotsAfterPruning[id] = IF id \in Pruned THEN Free ELSE rendered_paragraphs[id]
    BY DEF SlotsAfterPruning
<1>4. ASSUME NEW id \in Ids(client_layout)
      PROVE  id \in Id \ Pruned /\ SlotsAfterPruning[id] = current_generation
    <2>1. id \in Id /\ rendered_paragraphs[id] = current_generation
        BY DEF InUse
    <2>2. current_generation \in Word /\ current_generation # Free
        BY FreeAssumption DEF Typed
    <2>3. Age(rendered_paragraphs[id]) = 0
        BY <2>1, <2>2, AgeIs, QuarterAssumption DEF Word
    <2>4. ~TooOld(rendered_paragraphs[id])
        BY <2>3, AgeAssumption DEF TooOld
    <2>. QED
        BY <1>3, <2>1, <2>4 DEF Pruned
<1>5. ASSUME NEW id \in Id, SlotsAfterPruning[id] # Free
      PROVE  /\ SlotsAfterPruning[id] \in Word
             /\ SlotsAfterPruning[id] = rendered_paragraphs[id]
             /\ SlotsAfterPruning[id] =< current_generation
             /\ current_generation - SlotsAfterPruning[id] =< MAX_AGE
    <2>1. id \notin Pruned /\ SlotsAfterPruning[id] = rendered_paragraphs[id]
        BY <1>3, <1>5
    <2>2. ~TooOld(rendered_paragraphs[id])
        BY <2>1 DEF Pruned
    <2>3. /\ rendered_paragraphs[id] \in Word
          /\ Age(rendered_paragraphs[id]) = current_generation - rendered_paragraphs[id]
        BY <1>5, <2>1, AgeIs
    <2>4. rendered_paragraphs[id] =< current_generation
        BY <1>5, <2>1 DEF Young
    <2>5. current_generation - rendered_paragraphs[id] =< MAX_AGE
        BY <1>5, <2>1, <2>2, <2>3, AgeAssumption, QuarterAssumption DEF TooOld, Word, Typed
    <2>. QED
        BY <2>1, <2>3, <2>4, <2>5
<1>. QED
    BY <1>2, <1>4, <1>5

\* The generation goes up by one, until it has reached the largest word.
LEMMA NextGenerationIs ==
    ASSUME current_generation \in Word
    PROVE  NextGeneration \in Word
           /\ NextGeneration \in {current_generation, current_generation + 1}
<1>. QED
    BY QuarterAssumption DEF NextGeneration, SaturatingAdd, Word

-----------------------------------------------------------------------------
(* The invariant of the matching, after n of the entries.                  *)

\* The layout says what the entries say, in their order.
LaysOut(st, entries, n) ==
    /\ Len(st.layout) = n
    /\ \A i \in 1 .. n : /\ st.layout[i].text = entries[i].text
                         /\ st.layout[i].location = entries[i].location

\* Every paragraph of the frame before is left over or in the layout, and what
\* is left over is as it was.
Divides(st) ==
    /\ DistinctIds(st.existing)
    /\ DistinctIds(st.layout)
    /\ Ids(st.existing) \cap Ids(st.layout) = {}
    /\ Ids(client_layout) \subseteq Ids(st.existing) \cup Ids(st.layout)
    /\ \A i \in DOMAIN st.existing :
        \E j \in DOMAIN client_layout : st.existing[i] = client_layout[j]

\* The slots of the layout are marked with the generation, and the rest is as
\* pruning has left it; the slots of the other paragraphs are not free.
Marks(st) ==
    /\ st.generation = NextGeneration
    /\ \A id \in Ids(st.layout) : id \in DOMAIN st.slots /\ st.slots[id] = st.generation
    /\ \A id \in Ids(st.existing) : id \in DOMAIN st.slots /\ st.slots[id] # Free
    /\ \A id \in DOMAIN st.slots :
        \/ id \in Ids(st.layout)
        \/ id \in Id /\ st.slots[id] = SlotsAfterPruning[id]

\* The slots only become more when none of them is free.
FillsGaps(st) ==
    \/ \A id : id \in DOMAIN st.slots <=> id \in Id
    \/ \A id \in DOMAIN st.slots : st.slots[id] # Free

\* A paragraph of the layout that is not sent as new is one of the frame before
\* with the same text, and at the same place unless it is moved.
Tells(st) ==
    /\ st.updated \subseteq st.moved /\ st.moved \subseteq Ids(st.layout)
    /\ st.updated \cap Ids(client_layout) = {}
    /\ \A i \in DOMAIN st.layout : st.layout[i].id \notin st.updated =>
        \E j \in DOMAIN client_layout :
            /\ client_layout[j].id = st.layout[i].id
            /\ client_layout[j].text = st.layout[i].text
            /\ st.layout[i].id \notin st.moved =>
                client_layout[j].location = st.layout[i].location

\* A text is only sent when no paragraph with that text is left over.
Reuses(st) ==
    \A i \in DOMAIN st.layout, k \in DOMAIN st.existing :
        st.layout[i].id \in st.updated => st.existing[k].text # st.layout[i].text

Matching(st, texts, entries, n) ==
    /\ st \in MatchState(texts)
    /\ LaysOut(st, entries, n)
    /\ Divides(st)
    /\ Marks(st)
    /\ FillsGaps(st)
    /\ Tells(st)
    /\ Reuses(st)

Entries(texts) == Seq([text : texts, location : Nat])

\* Nothing is matched before the first entry.
LEMMA MatchingStarts ==
    ASSUME NEW texts, Typed(texts), InUse, Young, NEW entries
    PROVE  Matching(Unmatched, texts, entries, 0)
<1>1. /\ SlotsAfterPruning \in Seq(Slot)
      /\ DOMAIN SlotsAfterPruning = Id
      /\ \A id \in Ids(client_layout) :
            id \in Id \ Pruned /\ SlotsAfterPruning[id] = current_generation
    BY PruningIs
<1>2. NextGeneration \in Word
    BY NextGenerationIs DEF Typed
<1>3. current_generation # Free
    BY FreeAssumption DEF Typed
<1>4. Unmatched = [existing |-> client_layout, slots |-> SlotsAfterPruning,
                   generation |-> NextGeneration, layout |-> <<>>,
                   updated |-> {}, moved |-> {}]
    BY DEF Unmatched
<1>5. Unmatched \in MatchState(texts)
    BY <1>1, <1>2, <1>4 DEF MatchState, Typed
<1>6. Ids(Unmatched.layout) = {} /\ DOMAIN Unmatched.layout = {} /\ Len(Unmatched.layout) = 0
    BY <1>4 DEF Ids
<1>7. LaysOut(Unmatched, entries, 0)
    BY <1>6 DEF LaysOut
<1>8. Divides(Unmatched)
    BY <1>4, <1>6 DEF Divides, DistinctIds, InUse
<1>9. Marks(Unmatched)
    BY <1>1, <1>3, <1>4, <1>6 DEF Marks
<1>10. Tells(Unmatched) /\ Reuses(Unmatched)
    BY <1>4, <1>6 DEF Tells, Reuses
<1>11. FillsGaps(Unmatched)
    BY <1>1, <1>4 DEF FillsGaps
<1>. QED
    BY <1>5, <1>7, <1>8, <1>9, <1>10, <1>11 DEF Matching

\* A line that takes over a paragraph.
LEMMA ReuseKeepsMatching ==
    ASSUME NEW texts, Typed(texts), InUse,
           NEW entries \in Entries(texts), NEW n \in 0 .. Len(entries) - 1,
           NEW st, Matching(st, texts, entries, n),
           SameText(st.existing, entries[n + 1]) # {}
    PROVE  Matching(ReuseEntry(st, entries[n + 1]), texts, entries, n + 1)
<1> DEFINE entry == entries[n + 1]
           i == SetMin(SameText(st.existing, entry))
           old == st.existing[i]
           p == [text |-> entry.text, id |-> old.id, location |-> entry.location]
           next == ReuseEntry(st, entry)
<1>1. /\ st \in MatchState(texts)
      /\ LaysOut(st, entries, n) /\ Divides(st) /\ Marks(st)
      /\ FillsGaps(st) /\ Tells(st) /\ Reuses(st)
    BY DEF Matching
<1>2. /\ st.existing \in Seq(Paragraph_(texts)) /\ st.layout \in Seq(Paragraph_(texts))
      /\ st.slots \in Seq(Slot) /\ st.generation \in Word
      /\ st.updated \in SUBSET Nat /\ st.moved \in SUBSET Nat
    BY <1>1 DEF MatchState
<1>3. entry \in [text : texts, location : Nat]
    <2>1. n + 1 \in 1 .. Len(entries)
        BY DEF Entries
    <2>. QED
        BY <2>1, ElementOfSeq DEF Entries
<1>4. i \in DOMAIN st.existing /\ old.text = entry.text
    <2>1. SameText(st.existing, entry) \subseteq Nat
        BY <1>2 DEF SameText
    <2>2. i \in SameText(st.existing, entry)
        BY <2>1, SetMinIs
    <2>. QED
        BY <2>2 DEF SameText
<1> HIDE DEF entry, i
<1>5. old \in Paragraph_(texts) /\ old.id \in Ids(st.existing) /\ old.id \in Nat
    <2>1. old \in Paragraph_(texts)
        BY <1>2, <1>4
    <2>2. old.id \in Ids(st.existing)
        BY <1>4 DEF Ids
    <2>. QED
        BY <2>1, <2>2 DEF Paragraph_
<1> HIDE DEF old
<1>6. /\ p \in Paragraph_(texts)
      /\ p.id = old.id /\ p.text = entry.text /\ p.location = entry.location
    BY <1>3, <1>5 DEF Paragraph_
<1> HIDE DEF p
<1>7. old.id \in DOMAIN st.slots /\ old.id \in 1 .. Len(st.slots) + 1
    BY <1>1, <1>2, <1>5 DEF Marks
<1> DEFINE existing == SwapRemove(st.existing, i)
           slots == Occupy(st.slots, old.id, st.generation)
           lines == Append(st.layout, p)
           moved == IF old.location # entry.location
                    THEN st.moved \cup {old.id} ELSE st.moved
<1>8. next = [st EXCEPT !.existing = existing, !.slots = slots, !.layout = lines,
                        !.moved = moved]
    BY DEF ReuseEntry, entry, i, old, p
<1>9. /\ next.existing = existing /\ next.slots = slots /\ next.layout = lines
      /\ next.moved = moved /\ next.updated = st.updated
      /\ next.generation = st.generation
    BY <1>1, <1>8 DEF MatchState
<1>10. /\ existing \in Seq(Paragraph_(texts))
       /\ \A j \in DOMAIN existing : \E k \in DOMAIN st.existing \ {i} : existing[j] = st.existing[k]
       /\ Ids(existing) = Ids(st.existing) \ {old.id}
       /\ DistinctIds(existing)
    <2>1. DistinctIds(st.existing)
        BY <1>1 DEF Divides
    <2>2. /\ Ids(existing) = Ids(st.existing) \ {old.id}
          /\ DistinctIds(existing)
        BY <1>2, <1>4, <2>1, SwapRemoveKeepsIds DEF old
    <2>. QED
        BY <1>2, <1>4, <2>2, SwapRemoveIs
<1>11. /\ slots \in Seq(Slot)
       /\ slots[old.id] = st.generation
       /\ \A x : x \in DOMAIN slots <=> x \in DOMAIN st.slots \/ x = old.id
       /\ \A x \in DOMAIN st.slots : x # old.id => slots[x] = st.slots[x]
    <2>1. OneMarked(slots, st.slots, old.id, st.generation)
        BY <1>2, <1>7, OccupyIs
    <2>. QED
        BY <2>1 DEF OneMarked
<1>12. /\ lines \in Seq(Paragraph_(texts))
       /\ Len(lines) = Len(st.layout) + 1
       /\ DOMAIN lines = DOMAIN st.layout \cup {Len(st.layout) + 1}
       /\ lines[Len(st.layout) + 1] = p
       /\ \A j \in DOMAIN st.layout : j # Len(st.layout) + 1 /\ lines[j] = st.layout[j]
       /\ Ids(lines) = Ids(st.layout) \cup {old.id}
       /\ DistinctIds(st.layout) /\ old.id \notin Ids(st.layout) => DistinctIds(lines)
    BY <1>2, <1>6, LaidOut
<1>13. old.id \notin Ids(st.layout)
    BY <1>1, <1>5 DEF Divides
<1>14. Len(st.layout) = n
    BY <1>1 DEF LaysOut
<1>15. PICK was \in DOMAIN client_layout : old = client_layout[was]
    BY <1>1, <1>4 DEF Divides, old
<1> HIDE DEF existing, slots, lines, next
<1>16. next \in MatchState(texts)
    BY <1>1, <1>2, <1>5, <1>8, <1>10, <1>11, <1>12 DEF MatchState
<1>17. LaysOut(next, entries, n + 1)
    <2>1. Len(lines) = n + 1
        BY <1>12, <1>14
    <2>2. ASSUME NEW j \in 1 .. n + 1
          PROVE  lines[j].text = entries[j].text /\ lines[j].location = entries[j].location
        <3>1. CASE j = n + 1
            BY <1>6, <1>12, <1>14, <3>1 DEF entry
        <3>2. CASE j # n + 1
            <4>1. j \in 1 .. n /\ j \in DOMAIN st.layout
                BY <1>2, <1>14, <3>2
            <4>. QED
                BY <1>1, <1>12, <4>1 DEF LaysOut
        <3>. QED
            BY <3>1, <3>2
    <2>. QED
        BY <1>9, <2>1, <2>2 DEF LaysOut
<1>18. Divides(next)
    <2>1. \A j \in DOMAIN existing : \E k \in DOMAIN client_layout : existing[j] = client_layout[k]
        BY <1>1, <1>10 DEF Divides
    <2>2. DistinctIds(existing) /\ DistinctIds(lines)
        BY <1>1, <1>10, <1>12, <1>13 DEF Divides
    <2>3. Ids(existing) \cap Ids(lines) = {}
        BY <1>1, <1>10, <1>12 DEF Divides
    <2>4. Ids(client_layout) \subseteq Ids(existing) \cup Ids(lines)
        BY <1>1, <1>10, <1>12 DEF Divides
    <2>. QED
        BY <1>9, <2>1, <2>2, <2>3, <2>4 DEF Divides
<1>19. Marks(next)
    <2>1. old.id \in DOMAIN st.slots /\ old.id \notin Ids(existing)
        BY <1>7, <1>10
    <2>. QED
        BY <1>1, <1>7, <1>9, <1>10, <1>11, <1>12, <2>1, ZenonT(60) DEF Marks
<1>20. Tells(next)
    <2>1. /\ st.updated \subseteq moved /\ moved \subseteq Ids(lines)
          /\ st.updated \cap Ids(client_layout) = {}
        BY <1>1, <1>12 DEF Tells
    <2>2. ASSUME NEW j \in DOMAIN lines, lines[j].id \notin st.updated
          PROVE  \E k \in DOMAIN client_layout :
                    /\ client_layout[k].id = lines[j].id
                    /\ client_layout[k].text = lines[j].text
                    /\ lines[j].id \notin moved => client_layout[k].location = lines[j].location
        <3>1. CASE j = Len(st.layout) + 1
            <4>1. lines[j].id = old.id /\ lines[j].text = old.text /\ lines[j].location = entry.location
                BY <1>4, <1>6, <1>12, <3>1
            <4>2. old.id \notin moved => old.location = entry.location
                OBVIOUS
            <4>. QED
                BY <1>15, <4>1, <4>2
        <3>2. CASE j \in DOMAIN st.layout
            <4>1. lines[j] = st.layout[j]
                BY <1>12, <3>2
            <4>2. st.moved \subseteq moved
                OBVIOUS
            <4>. QED
                BY <1>1, <2>2, <3>2, <4>1, <4>2 DEF Tells
        <3>. QED
            BY <1>12, <3>1, <3>2
    <2>. QED
        BY <1>9, <2>1, <2>2 DEF Tells
<1>21. Reuses(next)
    <2>1. ASSUME NEW j \in DOMAIN lines, NEW k \in DOMAIN existing, lines[j].id \in st.updated
          PROVE  existing[k].text # lines[j].text
        <3>1. CASE j = Len(st.layout) + 1
            <4>1. old.id \in Ids(client_layout)
                BY <1>15 DEF Ids
            <4>. QED
                BY <1>1, <1>6, <1>12, <2>1, <3>1, <4>1 DEF Tells
        <3>2. CASE j \in DOMAIN st.layout
            <4>1. lines[j] = st.layout[j]
                BY <1>12, <3>2
            <4>2. PICK l \in DOMAIN st.existing : existing[k] = st.existing[l]
                BY <1>10
            <4>. QED
                BY <1>1, <2>1, <3>2, <4>1, <4>2 DEF Reuses
        <3>. QED
            BY <1>12, <3>1, <3>2
    <2>. QED
        BY <1>9, <2>1 DEF Reuses
<1>22. FillsGaps(next)
    BY <1>1, <1>2, <1>7, <1>9, <1>11, FreeAssumption DEF FillsGaps
<1>. QED
    BY <1>16, <1>17, <1>18, <1>19, <1>20, <1>21, <1>22 DEF Matching, next, entry

\* A line that gets an id of its own: one that no paragraph has, left over, in
\* the layout, or of the frame before.
LEMMA NewKeepsMatching ==
    ASSUME NEW texts, Typed(texts), InUse,
           NEW entries \in Entries(texts), NEW n \in 0 .. Len(entries) - 1,
           NEW st, Matching(st, texts, entries, n),
           SameText(st.existing, entries[n + 1]) = {}
    PROVE  Matching(NewEntry(st, entries[n + 1]), texts, entries, n + 1)
<1> DEFINE entry == entries[n + 1]
           id == new_id(st.slots)
           p == [text |-> entry.text, id |-> id, location |-> entry.location]
           next == NewEntry(st, entry)
<1>1. /\ st \in MatchState(texts)
      /\ LaysOut(st, entries, n) /\ Divides(st) /\ Marks(st)
      /\ FillsGaps(st) /\ Tells(st) /\ Reuses(st)
    BY DEF Matching
<1>2. /\ st.existing \in Seq(Paragraph_(texts)) /\ st.layout \in Seq(Paragraph_(texts))
      /\ st.slots \in Seq(Slot) /\ st.generation \in Word
      /\ st.updated \in SUBSET Nat /\ st.moved \in SUBSET Nat
    BY <1>1 DEF MatchState
<1>3. entry \in [text : texts, location : Nat]
    <2>1. n + 1 \in 1 .. Len(entries)
        BY DEF Entries
    <2>. QED
        BY <2>1, ElementOfSeq DEF Entries
<1>4. \A k \in DOMAIN st.existing : st.existing[k].text # entry.text
    BY DEF SameText
<1> HIDE DEF entry
<1>5. /\ id \in 1 .. Len(st.slots) + 1
      /\ id \in DOMAIN st.slots => st.slots[id] = Free
      /\ id \notin DOMAIN st.slots => \A x \in DOMAIN st.slots : st.slots[x] # Free
    BY <1>2, NewIdIs
<1> HIDE DEF id
<1>6. id \in Nat \ {0}
    BY <1>2, <1>5
<1>7. /\ p \in Paragraph_(texts)
      /\ p.id = id /\ p.text = entry.text /\ p.location = entry.location
    BY <1>3, <1>6 DEF Paragraph_
<1> HIDE DEF p
<1>8. st.generation # Free
    BY <1>2, FreeAssumption
<1>9. id \notin Ids(st.existing) /\ id \notin Ids(st.layout) /\ id \notin Ids(client_layout)
    BY <1>1, <1>5, <1>8 DEF Marks, Divides
<1> DEFINE slots == Occupy(st.slots, id, st.generation)
           lines == Append(st.layout, p)
           updated == st.updated \cup {id}
           moved == st.moved \cup {id}
<1>10. next = [st EXCEPT !.slots = slots, !.layout = lines,
                         !.updated = updated, !.moved = moved]
    BY DEF NewEntry, entry, id, p
<1>11. /\ next.existing = st.existing /\ next.slots = slots /\ next.layout = lines
       /\ next.moved = moved /\ next.updated = updated
       /\ next.generation = st.generation
    BY <1>1, <1>10 DEF MatchState
<1>12. /\ slots \in Seq(Slot)
       /\ slots[id] = st.generation
       /\ \A x : x \in DOMAIN slots <=> x \in DOMAIN st.slots \/ x = id
       /\ \A x \in DOMAIN st.slots : x # id => slots[x] = st.slots[x]
    <2>1. OneMarked(slots, st.slots, id, st.generation)
        BY <1>2, <1>5, OccupyIs
    <2>. QED
        BY <2>1 DEF OneMarked
<1>13. /\ lines \in Seq(Paragraph_(texts))
       /\ Len(lines) = Len(st.layout) + 1
       /\ DOMAIN lines = DOMAIN st.layout \cup {Len(st.layout) + 1}
       /\ lines[Len(st.layout) + 1] = p
       /\ \A j \in DOMAIN st.layout : j # Len(st.layout) + 1 /\ lines[j] = st.layout[j]
       /\ Ids(lines) = Ids(st.layout) \cup {id}
       /\ DistinctIds(st.layout) /\ id \notin Ids(st.layout) => DistinctIds(lines)
    BY <1>2, <1>7, LaidOut
<1>14. Len(st.layout) = n
    BY <1>1 DEF LaysOut
<1> HIDE DEF slots, lines, next
<1>15. next \in MatchState(texts)
    BY <1>1, <1>2, <1>6, <1>10, <1>12, <1>13 DEF MatchState
<1>16. LaysOut(next, entries, n + 1)
    <2>1. Len(lines) = n + 1
        BY <1>13, <1>14
    <2>2. ASSUME NEW j \in 1 .. n + 1
          PROVE  lines[j].text = entries[j].text /\ lines[j].location = entries[j].location
        <3>1. CASE j = n + 1
            BY <1>7, <1>13, <1>14, <3>1 DEF entry
        <3>2. CASE j # n + 1
            <4>1. j \in 1 .. n /\ j \in DOMAIN st.layout
                BY <1>2, <1>14, <3>2
            <4>. QED
                BY <1>1, <1>13, <4>1 DEF LaysOut
        <3>. QED
            BY <3>1, <3>2
    <2>. QED
        BY <1>11, <2>1, <2>2 DEF LaysOut
<1>17. Divides(next)
    BY <1>1, <1>9, <1>11, <1>13 DEF Divides
<1>18. Marks(next)
    BY <1>1, <1>9, <1>11, <1>12, <1>13 DEF Marks
<1>19. Tells(next)
    <2>1. /\ updated \subseteq moved /\ moved \subseteq Ids(lines)
          /\ updated \cap Ids(client_layout) = {}
        BY <1>1, <1>9, <1>13 DEF Tells
    <2>2. ASSUME NEW j \in DOMAIN lines, lines[j].id \notin updated
          PROVE  \E k \in DOMAIN client_layout :
                    /\ client_layout[k].id = lines[j].id
                    /\ client_layout[k].text = lines[j].text
                    /\ lines[j].id \notin moved => client_layout[k].location = lines[j].location
        <3>1. j \in DOMAIN st.layout /\ lines[j] = st.layout[j]
            BY <1>7, <1>13, <2>2
        <3>. QED
            BY <1>1, <2>2, <3>1 DEF Tells
    <2>. QED
        BY <1>11, <2>1, <2>2 DEF Tells
<1>20. Reuses(next)
    <2>1. ASSUME NEW j \in DOMAIN lines, NEW k \in DOMAIN st.existing, lines[j].id \in updated
          PROVE  st.existing[k].text # lines[j].text
        <3>1. CASE j = Len(st.layout) + 1
            BY <1>4, <1>7, <1>13, <3>1
        <3>2. CASE j \in DOMAIN st.layout
            <4>1. lines[j] = st.layout[j] /\ st.layout[j].id # id
                BY <1>9, <1>13, <3>2 DEF Ids
            <4>. QED
                BY <1>1, <2>1, <3>2, <4>1 DEF Reuses
        <3>. QED
            BY <1>13, <3>1, <3>2
    <2>. QED
        BY <1>11, <2>1 DEF Reuses
<1>21. FillsGaps(next)
    BY <1>1, <1>5, <1>8, <1>11, <1>12 DEF FillsGaps
<1>. QED
    BY <1>15, <1>16, <1>17, <1>18, <1>19, <1>20, <1>21 DEF Matching, next, entry

\* The states of the matching of a sequence of entries.
IsMatched(f, entries) ==
    f = [n \in 0 .. Len(entries) |->
            IF n = 0 THEN Unmatched ELSE MatchEntry(f[n - 1], entries[n])]

\* There is a function that the recursive definition in Matched describes.
LEMMA MatchedExists ==
    ASSUME NEW N \in Nat, NEW entries, Len(entries) = N
    PROVE  \E f : IsMatched(f, entries)
<1> DEFINE IsPart(f, m) ==
               f = [n \in 0 .. m |-> IF n = 0 THEN Unmatched
                                     ELSE MatchEntry(f[n - 1], entries[n])]
           S == {m \in Nat : \E f : IsPart(f, m)}
<1>1. 0 \in S
    <2>1. IsPart([n \in 0 .. 0 |-> Unmatched], 0)
        OBVIOUS
    <2>. QED
        BY <2>1
<1>2. ASSUME NEW m \in 0 .. N - 1, m \in S
      PROVE  m + 1 \in S
    <2>1. PICK f : IsPart(f, m)
        BY <1>2
    <2> DEFINE g == [n \in 0 .. m + 1 |-> IF n = m + 1 THEN MatchEntry(f[m], entries[m + 1])
                                          ELSE f[n]]
    <2>2. IsPart(g, m + 1)
        BY <2>1
    <2> HIDE DEF IsPart, g
    <2>. QED
        BY <2>2
<1> HIDE DEF S
<1>3. \A m \in 0 .. N : m \in S
    BY <1>1, <1>2, UpTo
<1>. QED
    BY <1>3 DEF S, IsMatched

\* The entries of a document, one for each of its lines.
LEMMA EntriesAre ==
    ASSUME NEW texts, NEW blank, blank \in texts, NEW lines, lines \in Seq(texts)
    PROVE  /\ OfflineLayout(blank, lines) \in Entries(texts)
           /\ Len(OfflineLayout(blank, lines)) = Len(lines)
           /\ \A i \in 1 .. Len(lines) :
                OfflineLayout(blank, lines)[i].location = i - 1
<1> DEFINE entry(i) == [text |-> IF i = 1 THEN blank ELSE lines[i - 1], location |-> i - 1]
<1>1. OfflineLayout(blank, lines) = [i \in 1 .. Len(lines) |-> entry(i)]
    BY DEF OfflineLayout, flush_line
<1>2. \A i \in 1 .. Len(lines) : entry(i) \in [text : texts, location : Nat]
    OBVIOUS
<1>3. Len(lines) \in Nat
    OBVIOUS
<1> HIDE DEF entry
<1>4. [i \in 1 .. Len(lines) |-> entry(i)] \in Entries(texts)
    BY <1>2, <1>3, IsASeq DEF Entries
<1>5. \A i \in 1 .. Len(lines) : entry(i).location = i - 1
    BY DEF entry
<1>. QED
    BY <1>1, <1>3, <1>4, <1>5

\* After all of its lines, a document is matched.
LEMMA MatchedIs ==
    ASSUME NEW texts, Typed(texts), InUse, Young,
           NEW blank, blank \in texts, NEW lines, lines \in Seq(texts)
    PROVE  Matching(Matched(blank, lines), texts, OfflineLayout(blank, lines), Len(lines))
<1> DEFINE entries == OfflineLayout(blank, lines)
           f == CHOOSE g : IsMatched(g, entries)
           S == {n \in Nat : n =< Len(entries) => Matching(f[n], texts, entries, n)}
<1>1. entries \in Entries(texts) /\ Len(entries) = Len(lines) /\ Len(entries) \in Nat
    <2>1. Len(lines) \in Nat
        OBVIOUS
    <2>2. entries \in Entries(texts) /\ Len(entries) = Len(lines)
        BY EntriesAre
    <2>. QED
        BY <2>1, <2>2
<1>2. IsMatched(f, entries)
    <2> HIDE DEF entries
    <2>. QED
        BY <1>1, MatchedExists
<1>3. Matched(blank, lines) = f[Len(entries)]
    BY DEF Matched, IsMatched
<1> HIDE DEF entries, f
<1>4. /\ f[0] = Unmatched
      /\ \A n \in 0 .. Len(entries) - 1 : f[n + 1] = MatchEntry(f[n], entries[n + 1])
    BY <1>1, <1>2 DEF IsMatched
<1>5. 0 \in S
    BY <1>4, MatchingStarts
<1>6. ASSUME NEW n \in 0 .. Len(entries) - 1, n \in S
      PROVE  n + 1 \in S
    <2>1. Matching(f[n], texts, entries, n)
        BY <1>6
    <2>2. CASE SameText(f[n].existing, entries[n + 1]) # {}
        <3>1. f[n + 1] = ReuseEntry(f[n], entries[n + 1])
            BY <1>4, <2>2 DEF MatchEntry
        <3>2. Matching(ReuseEntry(f[n], entries[n + 1]), texts, entries, n + 1)
            BY <1>1, <2>1, <2>2, ReuseKeepsMatching
        <3>. QED
            BY <1>1, <3>1, <3>2
    <2>3. CASE SameText(f[n].existing, entries[n + 1]) = {}
        <3>1. f[n + 1] = NewEntry(f[n], entries[n + 1])
            BY <1>4, <2>3 DEF MatchEntry
        <3>2. Matching(NewEntry(f[n], entries[n + 1]), texts, entries, n + 1)
            BY <1>1, <2>1, <2>3, NewKeepsMatching
        <3>. QED
            BY <1>1, <3>1, <3>2
    <2>. QED
        BY <2>2, <2>3
<1>7. Len(entries) \in S
    <2> HIDE DEF S
    <2>1. \A n \in 0 .. Len(entries) : n \in S
        BY <1>1, <1>5, <1>6, UpTo
    <2>. QED
        BY <1>1, <2>1
<1>. QED
    BY <1>1, <1>3, <1>7 DEF entries

-----------------------------------------------------------------------------
(* What a frame does to the model.                                         *)

\* The hash of a text stands for the text, and a location that the client knows
\* is one that was sent.
TextBlock_(texts) ==
    [text : texts, location : Nat, hash : texts \cup {Unset},
     client_hash : texts \cup {Unset}, client_location : Nat \cup {Unset}]

\* Every paragraph of a layout has a block with its text, at its place.
Show(blocks, entries) ==
    /\ \A id : id \in DOMAIN blocks <=> id \in Ids(entries)
    /\ \A i \in DOMAIN entries :
        /\ blocks[entries[i].id].text = entries[i].text
        /\ blocks[entries[i].id].location = entries[i].location

Blocks(texts) ==
    /\ children \in [DOMAIN children -> TextBlock_(texts)]
    /\ Show(children, client_layout)

\* With distinct ids, the entry with the id of an entry is that one.
LEMMA EntryOfIs ==
    ASSUME NEW s, DistinctIds(s), NEW i \in DOMAIN s
    PROVE  EntryOf(s, s[i].id) = s[i]
<1> DEFINE j == CHOOSE k \in DOMAIN s : s[k].id = s[i].id
<1>1. j \in DOMAIN s /\ s[j].id = s[i].id
    OBVIOUS
<1>2. j = i
    <2> HIDE DEF j
    <2>. QED
        BY <1>1 DEF DistinctIds
<1>. QED
    BY <1>2 DEF EntryOf

\* The slots and the layout after a frame are in step again, and no slot has
\* grown too old.
LEMMA FrameKeepsSlots ==
    ASSUME NEW texts, Typed(texts), InUse, Young,
           NEW m, NEW entries, NEW n \in Nat, Matching(m, texts, entries, n),
           UpdateModel(m)
    PROVE  Typed(texts)' /\ InUse' /\ Young'
<1>1. /\ m \in MatchState(texts) /\ LaysOut(m, entries, n) /\ Divides(m) /\ Marks(m)
    BY DEF Matching
<1>2. /\ current_generation' = m.generation
      /\ rendered_paragraphs' = m.slots
      /\ client_layout' = m.layout
    BY DEF UpdateModel
<1>3. Typed(texts)'
    BY <1>1, <1>2 DEF Typed, MatchState
<1>4. Ids(client_layout)' = Ids(m.layout) /\ Id' = DOMAIN m.slots
    BY <1>1, <1>2 DEF Ids, Id, MatchState
<1>5. InUse'
    BY <1>1, <1>2, <1>4 DEF InUse, Divides, DistinctIds, Marks
<1>6. current_generation \in Nat /\ NextGeneration \in Word
      /\ NextGeneration \in {current_generation, current_generation + 1}
    BY NextGenerationIs, QuarterAssumption DEF Typed, Word
<1>7. ASSUME NEW id \in DOMAIN m.slots, m.slots[id] # Free
      PROVE  m.slots[id] =< m.generation /\ m.generation - m.slots[id] =< MAX_AGE + 1
    <2>1. CASE m.slots[id] = m.generation
        BY <1>1, <1>6, <2>1, AgeAssumption, QuarterAssumption DEF Marks, Word
    <2>2. CASE id \in Id /\ m.slots[id] = SlotsAfterPruning[id]
        <3>1. /\ m.slots[id] \in Word
              /\ m.slots[id] =< current_generation
              /\ current_generation - m.slots[id] =< MAX_AGE
            BY <1>7, <2>2, PruningIs
        <3>. QED
            BY <1>1, <1>6, <3>1, AgeAssumption, QuarterAssumption DEF Marks, Word
    <2>. QED
        BY <1>1, <2>1, <2>2 DEF Marks
<1>. QED
    BY <1>2, <1>3, <1>4, <1>5, <1>7 DEF Young

\* The blocks that are left, replaced, added and moved are those of the layout:
\* every other block was removed.
LEMMA FrameKeepsBlocks ==
    ASSUME NEW texts, Typed(texts), InUse, Young, Blocks(texts),
           NEW m, NEW entries, NEW n \in Nat, Matching(m, texts, entries, n)
    PROVE  /\ ChildrenAfter(m) \in [DOMAIN ChildrenAfter(m) -> TextBlock_(texts)]
           /\ Show(ChildrenAfter(m), m.layout)
<1> DEFINE kept == RemoveChildren(Ids(m.existing) \cup Pruned)
           set == SetChildren(kept, m)
           after == ChildrenAfter(m)
<1>1. /\ m \in MatchState(texts) /\ LaysOut(m, entries, n)
      /\ Divides(m) /\ Marks(m) /\ Tells(m)
    BY DEF Matching
<1>2. m.layout \in Seq(Paragraph_(texts))
    BY <1>1 DEF MatchState
<1>3. /\ \A id : id \in DOMAIN kept <=>
            id \in Ids(client_layout) /\ id \notin Ids(m.existing) /\ id \notin Pruned
      /\ \A id \in DOMAIN kept : kept[id] = children[id]
    BY DEF RemoveChildren, Blocks, Show
<1>4. /\ \A id : id \in DOMAIN set <=> id \in DOMAIN kept \/ id \in m.updated
      /\ \A id \in DOMAIN set :
            set[id] = IF id \in m.updated THEN NewTextBlock(EntryOf(m.layout, id).text)
                                           ELSE kept[id]
    BY DEF SetChildren
<1>5. /\ \A id : id \in DOMAIN after <=> id \in DOMAIN set
      /\ \A id \in DOMAIN after :
            after[id] = IF id \in m.moved
                        THEN [set[id] EXCEPT !.location = EntryOf(m.layout, id).location]
                        ELSE set[id]
    BY DEF ChildrenAfter, MoveChildren
<1>6. after = [id \in DOMAIN after |-> after[id]]
    BY DEF ChildrenAfter, MoveChildren
<1> HIDE DEF kept, set, after
<1>7. \A id \in Ids(client_layout) : id \notin Pruned
    BY PruningIs
<1>8. ASSUME NEW i \in DOMAIN m.layout
      PROVE  /\ m.layout[i].id \in DOMAIN after
             /\ after[m.layout[i].id] \in TextBlock_(texts)
             /\ after[m.layout[i].id].text = m.layout[i].text
             /\ after[m.layout[i].id].location = m.layout[i].location
    <2> DEFINE id == m.layout[i].id
    <2>1. EntryOf(m.layout, id) = m.layout[i]
        BY <1>1, EntryOfIs DEF Divides
    <2>2. m.layout[i].text \in texts /\ m.layout[i].location \in Nat
        <3>1. m.layout[i] \in Paragraph_(texts)
            BY <1>2
        <3>. QED
            BY <3>1 DEF Paragraph_
    <2>3. id \in Ids(m.layout)
        BY DEF Ids
    <2> HIDE DEF id
    <2>4. CASE id \in m.updated
        <3>1. id \in m.moved /\ id \in DOMAIN set /\ id \in DOMAIN after
            BY <1>1, <1>4, <1>5, <2>4 DEF Tells
        <3>2. set[id] = NewTextBlock(m.layout[i].text)
            BY <1>4, <2>1, <2>4, <3>1
        <3>3. after[id] = [NewTextBlock(m.layout[i].text) EXCEPT !.location = m.layout[i].location]
            BY <1>5, <2>1, <3>1, <3>2
        <3>. QED
            BY <2>2, <3>1, <3>3 DEF NewTextBlock, TextBlock_, id
    <2>5. CASE id \notin m.updated
        <3>1. PICK j \in DOMAIN client_layout :
                /\ client_layout[j].id = id
                /\ client_layout[j].text = m.layout[i].text
                /\ id \notin m.moved => client_layout[j].location = m.layout[i].location
            BY <1>1, <2>5 DEF Tells, id
        <3>2. id \in Ids(client_layout) /\ id \notin Ids(m.existing)
            BY <1>1, <2>3, <3>1 DEF Divides, Ids
        <3>3. id \in DOMAIN kept /\ id \in DOMAIN set /\ id \in DOMAIN after
            BY <1>3, <1>4, <1>5, <1>7, <3>2
        <3>4. set[id] = children[id]
            BY <1>3, <1>4, <2>5, <3>3
        <3>5. /\ children[id] \in TextBlock_(texts)
              /\ children[id].text = m.layout[i].text
              /\ id \notin m.moved => children[id].location = m.layout[i].location
            BY <3>1, <3>2 DEF Blocks, Show
        <3>6. CASE id \in m.moved
            <4>1. after[id] = [children[id] EXCEPT !.location = m.layout[i].location]
                BY <1>5, <2>1, <3>3, <3>4, <3>6
            <4>. QED
                BY <2>2, <3>3, <3>5, <4>1 DEF TextBlock_, id
        <3>7. CASE id \notin m.moved
            <4>1. after[id] = children[id]
                BY <1>5, <3>3, <3>4, <3>7
            <4>. QED
                BY <3>3, <3>5, <3>7, <4>1 DEF id
        <3>. QED
            BY <3>6, <3>7
    <2>. QED
        BY <2>4, <2>5
<1>9. ASSUME NEW id \in DOMAIN after
      PROVE  id \in Ids(m.layout)
    BY <1>1, <1>3, <1>4, <1>5 DEF Divides, Tells
<1>10. \A id : id \in DOMAIN after <=> id \in Ids(m.layout)
    BY <1>8, <1>9 DEF Ids
<1>11. \A id \in DOMAIN after : after[id] \in TextBlock_(texts)
    BY <1>8, <1>9 DEF Ids
<1>. QED
    BY <1>6, <1>8, <1>10, <1>11 DEF Show, after

-----------------------------------------------------------------------------
(* What the properties say of it.                                          *)

\* The invariant of the frames, for texts from any set.
FrameInv(texts) ==
    /\ Typed(texts)
    /\ InUse
    /\ Young
    /\ Blocks(texts)

\* It has the two properties of the model in it.
LEMMA FrameInvShows ==
    ASSUME NEW texts, FrameInv(texts)
    PROVE  ChildrenMatchLayout /\ NextFrameUnwraps
<1>1. Typed(texts) /\ InUse /\ Young /\ Blocks(texts)
    BY DEF FrameInv
<1>2. ChildrenMatchLayout
    <2>1. DOMAIN children = Ids(client_layout)
        BY <1>1 DEF Blocks, Show
    <2>. QED
        BY <1>1, <2>1 DEF ChildrenMatchLayout, InUse, DistinctIds, Blocks, Show
<1>3. NextFrameUnwraps
    <2>1. ASSUME NEW id \in Id, rendered_paragraphs[id] # Free
          PROVE  Age(rendered_paragraphs[id]) # NoAge /\ Age(rendered_paragraphs[id]) >= 0
        <3>1. /\ rendered_paragraphs[id] \in Word
              /\ Age(rendered_paragraphs[id]) = current_generation - rendered_paragraphs[id]
            BY <1>1, <2>1, AgeIs
        <3>2. rendered_paragraphs[id] =< current_generation
            BY <1>1, <2>1 DEF Young
        <3>3. current_generation - rendered_paragraphs[id] \in Int
            BY <1>1, <3>1, QuarterAssumption DEF Typed, Word
        <3>. QED
            BY <1>1, <3>1, <3>2, <3>3, NoAgeAssumption, QuarterAssumption DEF Typed, Word
    <2>. QED
        BY <1>1, <2>1 DEF NextFrameUnwraps, InUse
<1>. QED
    BY <1>2, <1>3

\* A model with nothing in it has the invariant.
LEMMA EmptyModelHasInv ==
    ASSUME NEW texts, current_generation = 0, rendered_paragraphs = <<>>,
           client_layout = <<>>, children = [id \in {} |-> Unset]
    PROVE  FrameInv(texts)
<1>1. Ids(client_layout) = {} /\ Id = {} /\ DOMAIN client_layout = {} /\ DOMAIN children = {}
    BY DEF Ids, Id
<1>2. Typed(texts)
    BY QuarterAssumption DEF Typed, Word
<1>3. InUse /\ Young
    BY <1>1 DEF InUse, Young, DistinctIds
<1>4. Blocks(texts)
    <2>1. children \in [DOMAIN children -> TextBlock_(texts)]
        BY <1>1
    <2>. QED
        BY <1>1, <2>1 DEF Blocks, Show
<1>. QED
    BY <1>2, <1>3, <1>4 DEF FrameInv

\* What a frame lays out: the lines of the document from the top, the first one
\* blank, the last one left out.
LEMMA FrameLaysOut ==
    ASSUME NEW texts, FrameInv(texts),
           NEW blank, blank \in texts, NEW lines, lines \in Seq(texts),
           UpdateModel(Matched(blank, lines))
    PROVE  /\ DOMAIN client_layout' = 1 .. Len(lines)
           /\ \A i \in 1 .. Len(lines) :
                /\ client_layout'[i].location = i - 1
                /\ client_layout'[i].text = IF i = 1 THEN blank ELSE lines[i - 1]
<1> DEFINE m == Matched(blank, lines)
           entries == OfflineLayout(blank, lines)
<1>1. Matching(m, texts, entries, Len(lines))
    BY MatchedIs DEF FrameInv
<1>2. \A i \in 1 .. Len(lines) :
        /\ entries[i].location = i - 1
        /\ entries[i].text = IF i = 1 THEN blank ELSE lines[i - 1]
    BY DEF OfflineLayout, flush_line
<1>3. client_layout' = m.layout
    BY DEF UpdateModel
<1> HIDE DEF m, entries
<1>4. LaysOut(m, entries, Len(lines)) /\ m.layout \in Seq(Paragraph_(texts))
    BY <1>1 DEF Matching, MatchState
<1>5. DOMAIN m.layout = 1 .. Len(lines)
    BY <1>4 DEF LaysOut
<1>. QED
    BY <1>2, <1>3, <1>4, <1>5 DEF LaysOut

\* Frames keep it, whatever the documents say.
LEMMA FrameKeepsInv ==
    ASSUME NEW texts, FrameInv(texts),
           NEW blank, blank \in texts, NEW lines, lines \in Seq(texts),
           UpdateModel(Matched(blank, lines)),
           children' = ChildrenAfter(Matched(blank, lines))
    PROVE  FrameInv(texts)'
<1> DEFINE m == Matched(blank, lines)
           entries == OfflineLayout(blank, lines)
<1>1. Typed(texts) /\ InUse /\ Young /\ Blocks(texts)
    BY DEF FrameInv
<1>2. Matching(m, texts, entries, Len(lines)) /\ Len(lines) \in Nat
    BY <1>1, MatchedIs
<1> HIDE DEF m, entries
<1>3. UpdateModel(m) /\ children' = ChildrenAfter(m)
    BY DEF m
<1>4. Typed(texts)' /\ InUse' /\ Young'
    BY <1>1, <1>2, <1>3, FrameKeepsSlots
<1>5. /\ ChildrenAfter(m) \in [DOMAIN ChildrenAfter(m) -> TextBlock_(texts)]
      /\ Show(ChildrenAfter(m), m.layout)
    BY <1>1, <1>2, FrameKeepsBlocks
<1>6. Blocks(texts)'
    <2>1. client_layout' = m.layout
        BY <1>3 DEF UpdateModel
    <2>. QED
        BY <1>3, <1>5, <2>1 DEF Blocks, Show, Ids
<1>. QED
    BY <1>4, <1>6 DEF FrameInv

-----------------------------------------------------------------------------
(* How many slots there are.                                               *)

\* The slots last used in one generation.
UsedIn(slots, g) == {id \in DOMAIN slots : slots[id] = g}

\* There are no more of them than a frame has lines.
FewInEach(slots) == \A g \in Word : Cardinality(UsedIn(slots, g)) =< MaxLines

\* Slots that were all used in the last MAX_AGE + 2 generations are no more than
\* the lines of that many frames.
LEMMA SlotsAreFew ==
    ASSUME NEW slots \in Seq(Slot), NEW last \in Word, FewInEach(slots),
           \A id \in DOMAIN slots :
                slots[id] \in Word /\ slots[id] =< last /\ last - slots[id] =< MAX_AGE + 1
    PROVE  Len(slots) =< MaxSlots
<1> DEFINE Since(k) == {id \in DOMAIN slots : last - slots[id] < k}
           S == {k \in Nat : Cardinality(Since(k)) =< MaxLines * k}
<1>1. /\ IsFiniteSet(DOMAIN slots) /\ Cardinality(DOMAIN slots) = Len(slots)
      /\ Len(slots) \in Nat
    <2>1. DOMAIN slots = 1 .. Len(slots) /\ Len(slots) \in Nat
        OBVIOUS
    <2>2. \A n \in Nat : IsFiniteSet(1 .. n) /\ Cardinality(1 .. n) = n
        BY FS_Interval
    <2>. QED
        BY <2>1, <2>2
<1>2. \A T \in SUBSET DOMAIN slots : IsFiniteSet(T) /\ Cardinality(T) \in Nat
    BY <1>1, FS_Subset, FS_CardinalityType
<1>3. \A id \in DOMAIN slots : last - slots[id] \in 0 .. MAX_AGE + 1
    BY QuarterAssumption, AgeAssumption DEF Word
<1>4. 0 \in S
    <2>1. Since(0) = {}
        BY <1>3
    <2>2. Cardinality(Since(0)) = 0
        BY <2>1, FS_EmptySet, Zenon
    <2> HIDE DEF Since
    <2>. QED
        BY <2>2, BoundsAssumption
<1>5. ASSUME NEW k \in 0 .. MAX_AGE + 1, k \in S
      PROVE  k + 1 \in S
    <2> DEFINE these == UsedIn(slots, last - k)
    <2>1. Since(k + 1) = Since(k) \cup these
        <3>1. \A id \in DOMAIN slots : last - slots[id] < k + 1 <=>
                last - slots[id] < k \/ slots[id] = last - k
            BY <1>3, QuarterAssumption DEF Word
        <3>. QED
            BY <3>1 DEF UsedIn
    <2>2. Since(k) \in SUBSET DOMAIN slots /\ these \in SUBSET DOMAIN slots
        BY DEF UsedIn
    <2>3. Cardinality(these) =< MaxLines
        <3>1. CASE last - k \in Word
            BY <3>1 DEF FewInEach
        <3>2. CASE last - k \notin Word
            <4>1. these = {}
                BY <3>2 DEF UsedIn
            <4>2. Cardinality(these) = 0
                BY <4>1, FS_EmptySet, Zenon
            <4>. QED
                BY <4>2, BoundsAssumption
        <3>. QED
            BY <3>1, <3>2
    <2>4. Cardinality(Since(k)) =< MaxLines * k
        BY <1>5
    <2>5. k + 1 \in Nat /\ MaxLines * (k + 1) = MaxLines * k + MaxLines
          /\ MaxLines * k \in Nat /\ MaxLines \in Nat
        BY <1>5, BoundsAssumption
    <2> HIDE DEF Since, these
    <2>6. Cardinality(Since(k) \cup these) =< Cardinality(Since(k)) + Cardinality(these)
        <3>1. /\ IsFiniteSet(Since(k)) /\ IsFiniteSet(these)
              /\ Cardinality(Since(k)) \in Nat /\ Cardinality(these) \in Nat
              /\ Cardinality(Since(k) \cap these) \in Nat
            BY <1>2, <2>2
        <3>2. Cardinality(Since(k) \cup these) =
                Cardinality(Since(k)) + Cardinality(these) - Cardinality(Since(k) \cap these)
            BY <3>1, FS_Union
        <3>. QED
            BY <3>1, <3>2
    <2>7. Cardinality(Since(k)) \in Nat /\ Cardinality(these) \in Nat
          /\ Cardinality(Since(k) \cup these) \in Nat
        BY <1>2, <2>2
    <2>8. Cardinality(Since(k + 1)) =< MaxLines * (k + 1)
        <3> DEFINE before == MaxLines * k
                   after == MaxLines * (k + 1)
        <3>1. after = before + MaxLines /\ before \in Nat /\ MaxLines \in Nat
            BY <2>5
        <3>2. Cardinality(Since(k)) =< before
            BY <2>4
        <3> HIDE DEF before, after
        <3>3. Cardinality(Since(k) \cup these) =< after
            BY <2>3, <2>6, <2>7, <3>1, <3>2
        <3>. QED
            BY <2>1, <3>3 DEF after
    <2>. QED
        BY <2>5, <2>8
<1>6. MAX_AGE + 2 \in S
    <2> HIDE DEF S
    <2>1. MAX_AGE + 2 \in Nat /\ (MAX_AGE + 2) - 1 = MAX_AGE + 1
        BY AgeAssumption
    <2>2. \A k \in 0 .. MAX_AGE + 2 : k \in S
        BY <1>4, <1>5, <2>1, UpTo
    <2>. QED
        BY <2>1, <2>2
<1>7. Since(MAX_AGE + 2) = DOMAIN slots
    <2>1. \A id \in DOMAIN slots : last - slots[id] < MAX_AGE + 2
        BY <1>3, AgeAssumption
    <2>. QED
        BY <2>1, Zenon
<1>. QED
    BY <1>1, <1>6, <1>7 DEF MaxSlots

\* A vector without slots has few of each.
LEMMA NoSlotsAreFew ==
    ASSUME NEW slots, slots = <<>>
    PROVE  FewInEach(slots) /\ Len(slots) =< MaxSlots
<1>1. ASSUME NEW g
      PROVE  Cardinality(UsedIn(slots, g)) = 0
    <2>1. UsedIn(slots, g) = {}
        BY DEF UsedIn
    <2>. QED
        BY <2>1, FS_EmptySet, Zenon
<1>2. Len(slots) = 0 /\ MaxSlots \in Nat
    BY BoundsAssumption, AgeAssumption DEF MaxSlots
<1>. QED
    BY <1>1, <1>2, BoundsAssumption DEF FewInEach

\* A frame adds a generation with no more slots than it has lines, and it adds
\* slots only when every slot is one of the last generations'.  Where the
\* generation has reached the last word, it would not be a new one.
LEMMA FrameAddsFew ==
    ASSUME NEW texts, Typed(texts), InUse, Young,
           FewInEach(rendered_paragraphs), UnusedIsPruned,
           NEW m, NEW entries, NEW n \in 0 .. MaxLines, Matching(m, texts, entries, n),
           current_generation + 1 \in Word, UpdateModel(m)
    PROVE  FewInEach(rendered_paragraphs)' /\ UnusedIsPruned'
<1>1. /\ m \in MatchState(texts) /\ LaysOut(m, entries, n) /\ Divides(m) /\ Marks(m)
      /\ FillsGaps(m)
    BY DEF Matching
<1>2. rendered_paragraphs' = m.slots
    BY DEF UpdateModel
<1>3. /\ m.slots \in Seq(Slot) /\ m.layout \in Seq(Paragraph_(texts))
      /\ rendered_paragraphs \in Seq(Slot)
    BY <1>1 DEF MatchState, Typed
<1>4. m.generation = current_generation + 1 /\ current_generation \in Word
    BY <1>1 DEF Marks, NextGeneration, SaturatingAdd, Typed
<1>5. ASSUME NEW id \in DOMAIN m.slots, id \notin Ids(m.layout)
      PROVE  /\ id \in Id /\ m.slots[id] = SlotsAfterPruning[id]
             /\ m.slots[id] # Free =>
                  /\ m.slots[id] \in Word
                  /\ m.slots[id] = rendered_paragraphs[id]
                  /\ m.slots[id] =< current_generation
                  /\ current_generation - m.slots[id] =< MAX_AGE
    <2>1. id \in Id /\ m.slots[id] = SlotsAfterPruning[id]
        BY <1>1, <1>5 DEF Marks
    <2>. QED
        BY <2>1, PruningIs
<1>6. \A id \in Ids(m.layout) : m.slots[id] = m.generation
    BY <1>1 DEF Marks
<1>7. FewInEach(m.slots)
    <2>1. ASSUME NEW g \in Word, g # m.generation
          PROVE  Cardinality(UsedIn(m.slots, g)) =< MaxLines
        <3>1. Free \notin Word
            BY FreeAssumption
        <3>2. UsedIn(m.slots, g) \subseteq UsedIn(rendered_paragraphs, g)
            BY <1>3, <1>5, <1>6, <2>1, <3>1 DEF UsedIn, Id
        <3>3. IsFiniteSet(UsedIn(rendered_paragraphs, g))
            <4>1. IsFiniteSet(DOMAIN rendered_paragraphs)
                BY <1>3, FS_Interval
            <4>. QED
                BY <4>1, FS_Subset DEF UsedIn
        <3>4. Cardinality(UsedIn(m.slots, g)) =< Cardinality(UsedIn(rendered_paragraphs, g))
            BY <3>2, <3>3, FS_Subset
        <3>5. /\ Cardinality(UsedIn(m.slots, g)) \in Nat
              /\ Cardinality(UsedIn(rendered_paragraphs, g)) \in Nat
            BY <3>2, <3>3, FS_Subset, FS_CardinalityType
        <3>6. Cardinality(UsedIn(rendered_paragraphs, g)) =< MaxLines
            BY DEF FewInEach
        <3>. QED
            BY <3>4, <3>5, <3>6, BoundsAssumption
    <2>2. Cardinality(UsedIn(m.slots, m.generation)) =< MaxLines
        <3>1. UsedIn(m.slots, m.generation) \subseteq Ids(m.layout)
            <4>1. ASSUME NEW id \in DOMAIN m.slots, m.slots[id] = m.generation, id \notin Ids(m.layout)
                  PROVE  FALSE
                <5>1. m.slots[id] # Free
                    BY <1>4, <4>1, FreeAssumption
                <5>2. m.generation =< current_generation
                    BY <1>5, <4>1, <5>1
                <5>. QED
                    BY <1>4, <5>2, QuarterAssumption DEF Word
            <4>. QED
                BY <4>1 DEF UsedIn
        <3>2. IsFiniteSet(Ids(m.layout)) /\ Cardinality(Ids(m.layout)) =< n
            <4>1. Ids(m.layout) = {m.layout[i].id : i \in 1 .. n}
                BY <1>1, <1>3 DEF Ids, LaysOut
            <4>2. IsFiniteSet(1 .. n) /\ Cardinality(1 .. n) = n
                BY FS_Interval
            <4> DEFINE f == [i \in 1 .. n |-> m.layout[i].id]
            <4>3. f \in Surjection(1 .. n, Ids(m.layout))
                BY <4>1 DEF Surjection
            <4>. QED
                BY <4>2, <4>3, FS_Surjection
        <3>3. /\ Cardinality(UsedIn(m.slots, m.generation)) =< Cardinality(Ids(m.layout))
              /\ Cardinality(UsedIn(m.slots, m.generation)) \in Nat
              /\ Cardinality(Ids(m.layout)) \in Nat
            BY <3>1, <3>2, FS_Subset, FS_CardinalityType
        <3>. QED
            BY <3>2, <3>3, BoundsAssumption
    <2>. QED
        BY <2>1, <2>2 DEF FewInEach
<1>8. Len(m.slots) =< MaxSlots
    <2>1. CASE \A id : id \in DOMAIN m.slots <=> id \in Id
        <3>1. DOMAIN m.slots = DOMAIN rendered_paragraphs
            BY <1>3, <2>1 DEF Id
        <3>2. Len(m.slots) = Len(rendered_paragraphs)
            BY <1>3, <3>1
        <3>. QED
            BY <3>2 DEF UnusedIsPruned
    <2>2. CASE \A id \in DOMAIN m.slots : m.slots[id] # Free
        <3>1. ASSUME NEW id \in DOMAIN m.slots
              PROVE  /\ m.slots[id] \in Word /\ m.slots[id] =< m.generation
                     /\ m.generation - m.slots[id] =< MAX_AGE + 1
            <4>1. CASE id \in Ids(m.layout)
                BY <1>4, <1>6, <4>1, AgeAssumption, QuarterAssumption DEF Word
            <4>2. CASE id \notin Ids(m.layout)
                BY <1>4, <1>5, <2>2, <4>2, AgeAssumption, QuarterAssumption DEF Word
            <4>. QED
                BY <4>1, <4>2
        <3>2. m.generation \in Word
            BY <1>4
        <3>. QED
            BY <1>3, <1>7, <3>1, <3>2, SlotsAreFew
    <2>. QED
        BY <1>1, <2>1, <2>2 DEF FillsGaps
<1>. QED
    BY <1>2, <1>7, <1>8 DEF FewInEach, UsedIn, UnusedIsPruned

-----------------------------------------------------------------------------
(* What a frame keeps.                                                     *)

\* The ids of the paragraphs with a text.
IdsWith(s, t) == {s[i].id : i \in {j \in DOMAIN s : s[j].text = t}}

\* There are as many of them as lines with the text.
LEMMA CountIs ==
    ASSUME NEW texts, NEW s \in Seq(Paragraph_(texts)), DistinctIds(s), NEW t
    PROVE  IsFiniteSet(IdsWith(s, t)) /\ Count(s, t) = Cardinality(IdsWith(s, t))
<1> DEFINE lines == {j \in DOMAIN s : s[j].text = t}
           f == [i \in lines |-> s[i].id]
<1>1. IsFiniteSet(lines)
    <2>1. IsFiniteSet(1 .. Len(s))
        BY FS_Interval
    <2>2. lines \subseteq 1 .. Len(s)
        OBVIOUS
    <2>. QED
        BY <2>1, <2>2, FS_Subset
<1>2. f \in Bijection(lines, IdsWith(s, t))
    <2>1. f \in [lines -> IdsWith(s, t)]
        BY DEF IdsWith
    <2>2. \A i, j \in lines : f[i] = f[j] => i = j
        BY DEF DistinctIds
    <2>3. \A id \in IdsWith(s, t) : \E i \in lines : f[i] = id
        BY DEF IdsWith
    <2> HIDE DEF lines, f
    <2>. QED
        BY <2>1, <2>2, <2>3, Fun_IsBij
<1> HIDE DEF lines, f
<1>3. IsFiniteSet(IdsWith(s, t)) /\ Cardinality(IdsWith(s, t)) = Cardinality(lines)
    BY <1>1, <1>2, FS_Bijection DEF ExistsBijection
<1>. QED
    BY <1>3 DEF Count, lines

\* Of every text as many paragraphs as there are lines for go on being used:
\* either no line with the text had to be sent, or none of the paragraphs with
\* it is left over.
LEMMA FrameReuses ==
    ASSUME NEW texts, FrameInv(texts),
           NEW blank, blank \in texts, NEW lines, lines \in Seq(texts),
           UpdateModel(Matched(blank, lines))
    PROVE  KeepsAllItCan
<1> DEFINE m == Matched(blank, lines)
           entries == OfflineLayout(blank, lines)
<1>1. Typed(texts) /\ InUse /\ Young
    BY DEF FrameInv
<1>2. Matching(m, texts, entries, Len(lines))
    BY <1>1, MatchedIs
<1> HIDE DEF m, entries
<1>3. client_layout' = m.layout
    BY DEF UpdateModel, m
<1>4. m \in MatchState(texts) /\ Divides(m) /\ Tells(m) /\ Reuses(m)
    BY <1>2 DEF Matching
<1>5. /\ client_layout \in Seq(Paragraph_(texts)) /\ DistinctIds(client_layout)
      /\ m.layout \in Seq(Paragraph_(texts)) /\ DistinctIds(m.layout)
    BY <1>1, <1>4 DEF Typed, InUse, MatchState, Divides
<1>6. /\ \A i \in DOMAIN client_layout : TextOf(client_layout, client_layout[i].id) = client_layout[i].text
      /\ \A i \in DOMAIN m.layout : TextOf(m.layout, m.layout[i].id) = m.layout[i].text
    BY <1>5, EntryOfIs DEF TextOf
<1>7. ASSUME NEW i \in DOMAIN m.layout, m.layout[i].id \notin m.updated
      PROVE  \E j \in DOMAIN client_layout : /\ client_layout[j].id = m.layout[i].id
                                            /\ client_layout[j].text = m.layout[i].text
    BY <1>4, <1>7 DEF Tells
<1>8. ASSUME NEW id \in Ids(client_layout) \cap Ids(m.layout)
      PROVE  TextOf(m.layout, id) = TextOf(client_layout, id)
    <2>1. PICK i \in DOMAIN m.layout : m.layout[i].id = id
        BY DEF Ids
    <2>2. id \notin m.updated
        BY <1>4 DEF Tells
    <2>. QED
        BY <1>6, <1>7, <2>1, <2>2
<1>9. ASSUME NEW t
      PROVE  Cardinality(Kept(t)) = Smaller(Count(client_layout, t), Count(client_layout', t))
    <2> DEFINE was == IdsWith(client_layout, t)
               is == IdsWith(m.layout, t)
    <2>1. /\ IsFiniteSet(was) /\ Count(client_layout, t) = Cardinality(was)
          /\ IsFiniteSet(is) /\ Count(client_layout', t) = Cardinality(is)
        BY <1>3, <1>5, CountIs
    <2>2. Kept(t) = was \cap is
        <3>1. Kept(t) = {id \in Ids(client_layout) \cap Ids(m.layout) : TextOf(client_layout, id) = t}
            BY <1>3 DEF Kept
        <3>2. \A id \in Kept(t) : id \in was /\ id \in is
            BY <1>6, <1>8, <3>1 DEF IdsWith, Ids
        <3>3. \A id \in was \cap is : id \in Kept(t)
            BY <1>6, <3>1 DEF IdsWith, Ids
        <3>. QED
            BY <3>2, <3>3
    <2>3. was \subseteq is \/ is \subseteq was
        <3>1. CASE \E k \in DOMAIN m.existing : m.existing[k].text = t
            <4>1. ASSUME NEW i \in DOMAIN m.layout, m.layout[i].text = t
                  PROVE  m.layout[i].id \in was
                <5>1. m.layout[i].id \notin m.updated
                    BY <1>4, <3>1, <4>1 DEF Reuses
                <5>. QED
                    BY <1>7, <4>1, <5>1 DEF IdsWith
            <4>. QED
                BY <4>1 DEF IdsWith
        <3>2. CASE \A k \in DOMAIN m.existing : m.existing[k].text # t
            <4>1. ASSUME NEW j \in DOMAIN client_layout, client_layout[j].text = t
                  PROVE  client_layout[j].id \in is
                <5>1. client_layout[j].id \in Ids(client_layout)
                    BY DEF Ids
                <5>2. ASSUME NEW k \in DOMAIN m.existing, m.existing[k].id = client_layout[j].id
                      PROVE  FALSE
                    <6>1. PICK l \in DOMAIN client_layout : m.existing[k] = client_layout[l]
                        BY <1>4 DEF Divides
                    <6>2. l = j
                        BY <1>5, <5>2, <6>1 DEF DistinctIds
                    <6>. QED
                        BY <3>2, <4>1, <6>1, <6>2
                <5>3. client_layout[j].id \in Ids(m.layout)
                    BY <1>4, <5>1, <5>2 DEF Divides, Ids
                <5>4. PICK i \in DOMAIN m.layout : m.layout[i].id = client_layout[j].id
                    BY <5>3 DEF Ids
                <5>5. m.layout[i].text = t
                    BY <1>6, <1>8, <4>1, <5>1, <5>3, <5>4
                <5>. QED
                    BY <5>4, <5>5 DEF IdsWith
            <4>. QED
                BY <4>1 DEF IdsWith
        <3>. QED
            BY <3>1, <3>2
    <2> HIDE DEF was, is
    <2>4. Cardinality(was) \in Nat /\ Cardinality(is) \in Nat
        BY <2>1, FS_CardinalityType
    <2>5. CASE was \subseteq is
        <3>1. Kept(t) = was /\ Cardinality(was) =< Cardinality(is)
            BY <2>1, <2>2, <2>5, FS_Subset
        <3>. QED
            BY <2>1, <2>4, <3>1 DEF Smaller
    <2>6. CASE is \subseteq was
        <3>1. Kept(t) = is /\ Cardinality(is) =< Cardinality(was)
            BY <2>1, <2>2, <2>6, FS_Subset
        <3>. QED
            BY <2>1, <2>4, <3>1 DEF Smaller
    <2>. QED
        BY <2>3, <2>5, <2>6
<1>. QED
    BY <1>3, <1>8, <1>9 DEF KeepsAllItCan

-----------------------------------------------------------------------------
(* The editor view.                                                        *)

\* The texts of the lines of the view, of any font size.
LineText == (Words \cup {Blank}) \X Nat

Extents == [width : Nat, height : Nat]

ViewTypeOK ==
    /\ viewport_size \in Window \cup {Unset}
    /\ enclosure \in Extents \cup {Unset}
    /\ shaper_scale \in Nat \ {0}
    /\ root \in [block : Extents, extent : Extents, scale : Nat, scale_factor : Nat,
                 scaled_font_size : Nat]
    /\ statusline \in [extent : Extents, y : Int, scaled_font_size : Nat]
    /\ left \in Extents
    /\ center \in Extents

\* The boxes fill the extent they were laid out for, which is the one the root
\* block has.
BoxesFillRoot ==
    /\ root.block = root.extent
    /\ statusline.y + statusline.extent.height = root.extent.height
    /\ statusline.y >= 0 => center.height = statusline.y

\* That is the extent of the window, once there is one.
RootIsWindow ==
    /\ enclosure # Unset => root.block = enclosure
    /\ viewport_size # Unset =>
        enclosure = Extent(viewport_size.width, viewport_size.height)

\* The lines begin in the center, in the font size of the shaper.
LinesFit ==
    \A i \in DOMAIN client_layout :
        /\ client_layout[i].location * LineHeight(shaper_scale) < center.height
        /\ client_layout[i].text[2] = Size(shaper_scale)

EditorInv ==
    /\ FrameInv(LineText)
    /\ ViewTypeOK
    /\ BoxesFillRoot
    /\ RootIsWindow
    /\ LinesFit

-----------------------------------------------------------------------------
(* The steps of a frame.                                                   *)

\* As many rows as there are begin above the end of the center.
LEMMA RowsFit ==
    ASSUME NEW height \in Nat, NEW advance \in Nat \ {0}, NEW row \in Nat,
           row < (height + advance - 1) \div advance
    PROVE  row * advance < height
<1> DEFINE rows == (height + advance - 1) \div advance
<1>1. rows \in Nat /\ rows * advance =< height + advance - 1
    OBVIOUS
<1>2. row + 1 =< rows
    BY <1>1
<1> HIDE DEF rows
<1>3. (row + 1) * advance =< rows * advance
    BY <1>1, <1>2
<1>. QED
    BY <1>1, <1>3

\* The root after a resize has the extent of the window.
LEMMA AfterResizeIs ==
    ASSUME ViewTypeOK, BoxesFillRoot, RootIsWindow, NEW v \in Window
    PROVE  /\ AfterResize(v) \in [block : Extents, extent : Extents, scale : Nat,
                                  scale_factor : Nat, scaled_font_size : Nat]
           /\ AfterResize(v).block = Extent(v.width, v.height)
           /\ AfterResize(v).extent = root.extent
<1>1. /\ v.width \in Nat /\ v.height \in Nat /\ v.scale_factor \in Nat \ {0}
      /\ Extent(v.width, v.height) \in Extents
    BY WindowAssumption DEF Extent, Extents
<1>2. CASE Resized(v)
    <2>1. AfterResize(v) = [root EXCEPT !.block = Extent(v.width, v.height),
                                        !.scale_factor = v.scale_factor,
                                        !.scaled_font_size = root.scale * v.scale_factor]
        BY <1>2 DEF AfterResize, resize
    <2>2. root.scale * v.scale_factor \in Nat
        BY <1>1 DEF ViewTypeOK
    <2>. QED
        BY <1>1, <2>1, <2>2 DEF ViewTypeOK
<1>3. CASE ~Resized(v)
    <2>1. AfterResize(v) = root /\ enclosure = Extent(v.width, v.height)
        BY <1>3 DEF AfterResize, Resized
    <2>2. enclosure # Unset
        BY <1>1, <2>1, UnsetAssumption DEF Extents
    <2>. QED
        BY <2>1, <2>2 DEF ViewTypeOK, RootIsWindow
<1>. QED
    BY <1>2, <1>3

\* What is laid out fills the extent of the root.
LEMMA LayOutFills ==
    ASSUME ViewTypeOK, BoxesFillRoot,
           NEW r \in [block : Extents, extent : Extents, scale : Nat, scale_factor : Nat,
                      scaled_font_size : Nat],
           r.extent = root.extent, LayOut(r)
    PROVE  /\ BoxesFillRoot'
           /\ root'.block = r.block
           /\ root' \in [block : Extents, extent : Extents, scale : Nat, scale_factor : Nat,
                         scaled_font_size : Nat]
           /\ statusline' \in [extent : Extents, y : Int, scaled_font_size : Nat]
           /\ left' \in Extents
           /\ center' \in Extents
<1>1. CASE OutOfDate(r)
    <2> DEFINE seen == [r EXCEPT !.extent = r.block, !.scale = FontHeight]
               height == (3 * seen.scaled_font_size) \div 2
               width == AverageWidth * seen.scale_factor
    <2>1. root' = seen /\ layout(seen)
        BY <1>1 DEF LayOut
    <2>2. /\ seen \in [block : Extents, extent : Extents, scale : Nat, scale_factor : Nat,
                       scaled_font_size : Nat]
          /\ seen.block = r.block /\ seen.extent = r.block
        BY FontAssumption
    <2>3. /\ statusline' = [extent |-> Extent(seen.extent.width, height),
                            y |-> seen.extent.height - height,
                            scaled_font_size |-> seen.scaled_font_size]
          /\ left' = Extent(width, seen.extent.height)
          /\ center' = Extent(Larger(0, seen.extent.width - width),
                              Larger(0, seen.extent.height - height))
        BY <2>1 DEF layout
    <2> HIDE DEF seen
    <2>4. height \in Nat /\ width \in Nat
        BY <2>2, FontAssumption
    <2>5. seen.extent.width \in Nat /\ seen.extent.height \in Nat
        BY <2>2 DEF Extents
    <2> HIDE DEF height, width
    <2>6. /\ Larger(0, seen.extent.width - width) \in Nat
          /\ Larger(0, seen.extent.height - height) \in Nat
          /\ seen.extent.height - height >= 0 =>
                Larger(0, seen.extent.height - height) = seen.extent.height - height
          /\ seen.extent.height - height \in Int
          /\ seen.extent.height - height + height = seen.extent.height
        BY <2>4, <2>5 DEF Larger
    <2>7. BoxesFillRoot'
        BY <2>1, <2>2, <2>3, <2>6 DEF BoxesFillRoot, Extent
    <2>8. /\ statusline' \in [extent : Extents, y : Int, scaled_font_size : Nat]
          /\ left' \in Extents /\ center' \in Extents
        BY <2>2, <2>3, <2>4, <2>5, <2>6 DEF Extent, Extents
    <2>. QED
        BY <2>1, <2>2, <2>7, <2>8
<1>2. CASE ~OutOfDate(r)
    <2>1. root' = r /\ UNCHANGED <<statusline, left, center>> /\ r.block = r.extent
        BY <1>2 DEF LayOut, OutOfDate
    <2>. QED
        BY <2>1 DEF BoxesFillRoot, ViewTypeOK
<1>. QED
    BY <1>1, <1>2

\* The texts in view come with the font size of the shaper, and their rows begin
\* in the center.
LEMMA InViewIs ==
    ASSUME NEW extent \in Extents, NEW scale \in Nat \ {0},
           NEW lines \in InView(extent, scale)
    PROVE  /\ lines \in Seq(LineText)
           /\ Len(lines) \in 0 .. MaxLines
           /\ \A i \in 1 .. Len(lines) :
                /\ lines[i][2] = Size(scale)
                /\ (i - 1) * LineHeight(scale) < extent.height
<1>1. Size(scale) \in Nat /\ LineHeight(scale) \in Nat \ {0} /\ extent.height \in Nat
    BY FontAssumption DEF Size, LineHeight, Extents
<1>2. PICK n \in 0 .. Smaller(MaxLines, Rows(extent, scale)) :
        lines \in [1 .. n -> Line_(extent) \X {Size(scale)}]
    BY DEF InView
<1>3. Line_(extent) \X {Size(scale)} \subseteq LineText
    BY <1>1 DEF Line_, LineText
<1>4. n \in 0 .. MaxLines /\ n =< Rows(extent, scale)
    <2>1. Rows(extent, scale) \in Int
        BY <1>1 DEF Rows
    <2>. QED
        BY <1>2, <2>1, BoundsAssumption DEF Smaller
<1>5. lines \in Seq(LineText) /\ Len(lines) = n
    BY <1>2, <1>3, <1>4
<1>6. ASSUME NEW i \in 1 .. n
      PROVE  lines[i][2] = Size(scale) /\ (i - 1) * LineHeight(scale) < extent.height
    <2>1. lines[i] \in Line_(extent) \X {Size(scale)}
        BY <1>2
    <2>2. i - 1 \in Nat /\ i - 1 < (extent.height + LineHeight(scale) - 1) \div LineHeight(scale)
        BY <1>1, <1>4 DEF Rows
    <2>3. (i - 1) * LineHeight(scale) < extent.height
        BY <1>1, <2>2, RowsFit
    <2>. QED
        BY <2>1, <2>3
<1>. QED
    BY <1>4, <1>5, <1>6

\* A frame of the view, for what the client says of its window.
LEMMA SyncScreenKeepsInv ==
    ASSUME EditorInv, NEW v \in Window, sync_view(v), viewport_size' = v
    PROVE  EditorInv' /\ KeepsAllItCan
<1>1. FrameInv(LineText) /\ ViewTypeOK /\ BoxesFillRoot /\ RootIsWindow /\ LinesFit
    BY DEF EditorInv
<1>2. /\ v.width \in Nat /\ v.height \in Nat /\ v.scale_factor \in Nat \ {0}
      /\ Extent(v.width, v.height) \in Extents
    BY WindowAssumption DEF Extent, Extents
<1>3. /\ enclosure' = Extent(v.width, v.height)
      /\ shaper_scale' \in Nat \ {0}
    BY <1>1, <1>2 DEF sync_view, maintain_enclosure, ViewTypeOK
<1>4. PICK r : r = AfterResize(v)
    OBVIOUS
<1>5. /\ r \in [block : Extents, extent : Extents, scale : Nat, scale_factor : Nat,
                 scaled_font_size : Nat]
      /\ r.block = Extent(v.width, v.height)
      /\ r.extent = root.extent
    BY <1>1, <1>4, AfterResizeIs
<1>6. /\ LayOut(r)
      /\ pre_update(<<Blank, Size(shaper_scale')>>, InView(center', shaper_scale'))
    BY <1>4 DEF sync_view, update
<1>7. /\ BoxesFillRoot'
      /\ root'.block = r.block
      /\ root' \in [block : Extents, extent : Extents, scale : Nat, scale_factor : Nat,
                     scaled_font_size : Nat]
      /\ statusline' \in [extent : Extents, y : Int, scaled_font_size : Nat]
      /\ left' \in Extents
      /\ center' \in Extents
    BY <1>1, <1>5, <1>6, LayOutFills
<1>8. ViewTypeOK'
    BY <1>2, <1>3, <1>7 DEF ViewTypeOK
<1>9. RootIsWindow'
    BY <1>3, <1>5, <1>7 DEF RootIsWindow
<1> DEFINE blank == <<Blank, Size(shaper_scale')>>
<1>10. PICK lines \in InView(center', shaper_scale') :
            /\ UpdateModel(Matched(blank, lines))
            /\ children' = ChildrenAfter(Matched(blank, lines))
    BY <1>6 DEF pre_update, Matches
<1>11. /\ lines \in Seq(LineText)
       /\ \A i \in 1 .. Len(lines) :
            /\ lines[i][2] = Size(shaper_scale')
            /\ (i - 1) * LineHeight(shaper_scale') < center'.height
    BY <1>3, <1>7, InViewIs
<1>12. blank \in LineText /\ blank[2] = Size(shaper_scale')
    BY <1>3, FontAssumption DEF LineText, Size
<1> HIDE DEF blank
<1>13. FrameInv(LineText)'
    BY <1>1, <1>10, <1>11, <1>12, FrameKeepsInv
<1>14. KeepsAllItCan
    BY <1>1, <1>10, <1>11, <1>12, FrameReuses
<1>15. LinesFit'
    <2>1. /\ DOMAIN client_layout' = 1 .. Len(lines)
          /\ \A i \in 1 .. Len(lines) :
                /\ client_layout'[i].location = i - 1
                /\ client_layout'[i].text = IF i = 1 THEN blank ELSE lines[i - 1]
        BY <1>1, <1>10, <1>11, <1>12, FrameLaysOut
    <2>2. ASSUME NEW i \in 1 .. Len(lines)
          PROVE  /\ client_layout'[i].location * LineHeight(shaper_scale') < center'.height
                 /\ client_layout'[i].text[2] = Size(shaper_scale')
        <3>1. CASE i = 1
            BY <1>11, <1>12, <2>1, <3>1
        <3>2. CASE i # 1
            <4>1. i - 1 \in 1 .. Len(lines)
                BY <1>11, <3>2
            <4>. QED
                BY <1>11, <2>1, <3>2, <4>1
        <3>. QED
            BY <3>1, <3>2
    <2>3. LineHeight(shaper_scale)' = LineHeight(shaper_scale') /\ Size(shaper_scale)' = Size(shaper_scale')
        BY DEF LineHeight, Size
    <2>. QED
        BY <2>1, <2>2, <2>3 DEF LinesFit
<1>. QED
    BY <1>7, <1>8, <1>9, <1>13, <1>14, <1>15 DEF EditorInv

\* A model with no paragraphs has nothing to keep.
LEMMA NothingToKeep ==
    ASSUME NEW texts, FrameInv(texts), client_layout' = <<>>
    PROVE  KeepsAllItCan
<1>1. /\ client_layout \in Seq(Paragraph_(texts)) /\ DistinctIds(client_layout)
      /\ Ids(client_layout') = {}
    BY DEF FrameInv, Typed, InUse, Ids
<1>2. ASSUME NEW t
      PROVE  Cardinality(Kept(t)) = Smaller(Count(client_layout, t), Count(client_layout', t))
    <2>1. Kept(t) = {}
        BY <1>1 DEF Kept
    <2>2. {i \in DOMAIN client_layout' : client_layout'[i].text = t} = {}
        OBVIOUS
    <2>3. Count(client_layout', t) = 0 /\ Cardinality(Kept(t)) = 0
        BY <2>1, <2>2, FS_EmptySet DEF Count
    <2>4. Count(client_layout, t) \in Nat
        <3>1. IsFiniteSet(IdsWith(client_layout, t))
              /\ Count(client_layout, t) = Cardinality(IdsWith(client_layout, t))
            BY <1>1, CountIs
        <3>. QED
            BY <3>1, FS_CardinalityType
    <2>. QED
        BY <2>3, <2>4 DEF Smaller
<1>. QED
    BY <1>1, <1>2 DEF KeepsAllItCan

\* A new view has the invariant.
LEMMA NewViewHasInv ==
    ASSUME EditorInit
    PROVE  EditorInv
<1>1. /\ current_generation = 0 /\ rendered_paragraphs = <<>>
      /\ client_layout = <<>> /\ children = [id \in {} |-> Unset]
      /\ viewport_size = Unset /\ enclosure = Unset /\ shaper_scale = 1
      /\ root = NewRoot /\ statusline = NewStatusLine
      /\ left = NoExtent /\ center = NoExtent
    BY DEF EditorInit, Init, ViewInit
<1>2. FrameInv(LineText)
    BY <1>1, EmptyModelHasInv
<1>3. NoExtent \in Extents /\ NoExtent.height = 0
    BY DEF NoExtent, Extent, Extents
<1>4. ViewTypeOK
    BY <1>1, <1>3, FontAssumption DEF ViewTypeOK, NewRoot, NewStatusLine
<1>5. BoxesFillRoot /\ RootIsWindow
    BY <1>1, <1>3 DEF BoxesFillRoot, RootIsWindow, NewRoot, NewStatusLine
<1>6. LinesFit
    BY <1>1 DEF LinesFit
<1>. QED
    BY <1>2, <1>4, <1>5, <1>6 DEF EditorInv

\* Views before their generation is the last word: a frame has no more lines
\* than the viewport has room for, so it adds few slots.
LEMMA StepAddsFew ==
    ASSUME MaxGeneration \in Word, EditorInv,
           FewInEach(rendered_paragraphs), UnusedIsPruned, [EditorNext]_editorVars
    PROVE  FewInEach(rendered_paragraphs)' /\ UnusedIsPruned'
<1>1. ASSUME NEW v \in Window, sync_view(v)
      PROVE  FewInEach(rendered_paragraphs)' /\ UnusedIsPruned'
    <2>1. /\ FrameInv(LineText) /\ ViewTypeOK /\ BoxesFillRoot
          /\ AfterResize(v) \in [block : Extents, extent : Extents, scale : Nat,
                                 scale_factor : Nat, scaled_font_size : Nat]
          /\ AfterResize(v).extent = root.extent
        BY AfterResizeIs DEF EditorInv
    <2>2. /\ LayOut(AfterResize(v))
          /\ pre_update(<<Blank, Size(shaper_scale')>>, InView(center', shaper_scale'))
        BY <1>1 DEF sync_view, update
    <2>3. center' \in Extents
        BY <2>1, <2>2, LayOutFills
    <2>4. shaper_scale' \in Nat \ {0}
        BY <1>1, <2>1, WindowAssumption DEF sync_view, maintain_enclosure, ViewTypeOK
    <2> DEFINE blank == <<Blank, Size(shaper_scale')>>
    <2>5. PICK lines \in InView(center', shaper_scale') : UpdateModel(Matched(blank, lines))
        BY <2>2 DEF pre_update, Matches
    <2>6. lines \in Seq(LineText) /\ Len(lines) \in 0 .. MaxLines
        BY <2>3, <2>4, InViewIs
    <2>7. blank \in LineText
        BY <2>4, FontAssumption DEF LineText, Size
    <2>8. current_generation + 1 \in Word
        <3>1. current_generation < MaxGeneration /\ current_generation \in Word
            BY <2>1, <2>2 DEF pre_update, FrameInv, Typed
        <3>. QED
            BY <3>1, QuarterAssumption DEF Word
    <2> HIDE DEF blank
    <2>9. Typed(LineText) /\ InUse /\ Young
        BY <2>1 DEF FrameInv
    <2>10. Matching(Matched(blank, lines), LineText, OfflineLayout(blank, lines), Len(lines))
        BY <2>6, <2>7, <2>9, MatchedIs
    <2>. QED
        BY <2>5, <2>6, <2>8, <2>9, <2>10, FrameAddsFew
<1>2. CASE ViewportSizeUpdate
    BY <1>1, <1>2 DEF ViewportSizeUpdate
<1>3. CASE KeyInputEvent
    <2>1. viewport_size \in Window /\ sync_view(viewport_size)
        BY <1>3 DEF KeyInputEvent, EditorInv, ViewTypeOK
    <2>. QED
        BY <1>1, <2>1
<1>4. CASE NewView
    <2>1. rendered_paragraphs' = <<>>
        BY <1>4 DEF NewView, new_connection
    <2>2. FewInEach(rendered_paragraphs') /\ Len(rendered_paragraphs') =< MaxSlots
        BY <2>1, NoSlotsAreFew
    <2>. QED
        BY <2>2 DEF FewInEach, UsedIn, UnusedIsPruned
<1>5. CASE UNCHANGED editorVars
    BY <1>5 DEF editorVars, vars, FewInEach, UsedIn, UnusedIsPruned
<1>. QED
    BY <1>2, <1>3, <1>4, <1>5 DEF EditorNext

-----------------------------------------------------------------------------
(* The theorems.                                                           *)

\* Every step keeps the invariant, and of the paragraphs all it can.
LEMMA StepKeepsEditorInv ==
    ASSUME EditorInv, [EditorNext]_editorVars
    PROVE  EditorInv' /\ [KeepsAllItCan]_vars
<1>1. CASE ViewportSizeUpdate
    <2>1. PICK v \in Window : viewport_size' = v /\ sync_view(v)
        BY <1>1 DEF ViewportSizeUpdate
    <2>. QED
        BY <2>1, SyncScreenKeepsInv
<1>2. CASE KeyInputEvent
    <2>1. viewport_size \in Window /\ sync_view(viewport_size) /\ viewport_size' = viewport_size
        BY <1>2 DEF KeyInputEvent, EditorInv, ViewTypeOK
    <2>. QED
        BY <2>1, SyncScreenKeepsInv
<1>3. CASE NewView
    <2>1. EditorInit'
        BY <1>3 DEF NewView, new_connection, EditorInit, Init, ViewInit
    <2>2. EditorInv'
        BY <2>1, NewViewHasInv, PTL
    <2>3. KeepsAllItCan
        BY <1>3, NothingToKeep DEF NewView, new_connection, EditorInv
    <2>. QED
        BY <2>2, <2>3
<1>4. CASE UNCHANGED editorVars
    <2>1. UNCHANGED vars /\ UNCHANGED viewVars
        BY <1>4 DEF editorVars
    <2>2. FrameInv(LineText)'
        BY <2>1 DEF EditorInv, FrameInv, Typed, InUse, Young, Blocks, Show, DistinctIds,
                    Ids, Id, vars
    <2>3. ViewTypeOK' /\ BoxesFillRoot' /\ RootIsWindow' /\ LinesFit'
        BY <2>1 DEF EditorInv, ViewTypeOK, BoxesFillRoot, RootIsWindow, LinesFit,
                    LineHeight, Size, vars, viewVars
    <2>. QED
        BY <2>1, <2>2, <2>3 DEF EditorInv
<1>. QED
    BY <1>1, <1>2, <1>3, <1>4 DEF EditorNext

\* The invariant holds however windows are resized, keys are pressed and views
\* are opened.
THEOREM EditorInvariant == EditorSpec => []EditorInv
<1>1. EditorInit => EditorInv
    BY NewViewHasInv
<1>2. EditorInv /\ [EditorNext]_editorVars => EditorInv'
    BY StepKeepsEditorInv
<1>. QED
    BY <1>1, <1>2, PTL DEF EditorSpec

\* No two lines share a block, and every line has one with its text, at its
\* place, whatever ids were given out before (CenterModel::sync_client_view).
THEOREM LinesHaveTheirBlocks == EditorSpec => []ChildrenMatchLayout
<1>1. EditorInv => ChildrenMatchLayout
    BY FrameInvShows DEF EditorInv
<1>. QED
    BY <1>1, EditorInvariant, PTL

\* The unwraps of prune_old_render_paragraphs and sync_client_view never fail:
\* the age of every slot can be told and is not negative, with words of any
\* size, past the wrap-around of i16 and at the last word.
THEOREM FramesUnwrap == EditorSpec => []NextFrameUnwraps
<1>1. EditorInv => NextFrameUnwraps
    BY FrameInvShows DEF EditorInv
<1>. QED
    BY <1>1, EditorInvariant, PTL

\* A frame keeps as many blocks of every text as both documents have lines with
\* it, and none that is kept changes its text.
THEOREM FramesReuseBlocks == EditorSpec => ReusesAllItCan
<1>1. EditorInv /\ [EditorNext]_editorVars => [KeepsAllItCan]_vars
    BY StepKeepsEditorInv
<1>. QED
    BY <1>1, EditorInvariant, PTL DEF EditorSpec, ReusesAllItCan

\* The status line ends with the window, the center at the status line, and no
\* line begins below it, for any window, font and scale factor.
THEOREM LinesStayInTheCenter == EditorSpec => []LinesEndAtStatus
<1>1. EditorInv => LinesEndAtStatus
    <2>1. ASSUME EditorInv, viewport_size # Unset
          PROVE  /\ statusline.y + statusline.extent.height = viewport_size.height
                 /\ statusline.y >= 0 => center.height = statusline.y
        <3>1. viewport_size \in Window /\ enclosure = Extent(viewport_size.width, viewport_size.height)
            BY <2>1 DEF EditorInv, ViewTypeOK, RootIsWindow
        <3>2. enclosure \in Extents /\ enclosure.height = viewport_size.height
            BY <3>1, WindowAssumption DEF Extent, Extents
        <3>3. enclosure # Unset
            BY <3>2, UnsetAssumption DEF Extents
        <3>. QED
            BY <2>1, <3>2, <3>3 DEF EditorInv, BoxesFillRoot, RootIsWindow
    <2>. QED
        BY <2>1 DEF LinesEndAtStatus, EditorInv, LinesFit
<1>. QED
    BY <1>1, EditorInvariant, PTL

\* All lines on the screen have the font size of the shaper: a block shaped for
\* another scale factor is never taken over.
THEOREM LinesHaveOneSize == EditorSpec => []OneSize
<1>1. EditorInv => OneSize
    <2>1. ASSUME EditorInv, NEW id \in DOMAIN children
          PROVE  children[id].text[2] = Size(shaper_scale)
        <3>1. PICK i \in DOMAIN client_layout : client_layout[i].id = id
            BY <2>1 DEF EditorInv, FrameInv, Blocks, Show, Ids
        <3>2. children[id].text = client_layout[i].text
            BY <2>1, <3>1 DEF EditorInv, FrameInv, Blocks, Show
        <3>. QED
            BY <2>1, <3>2 DEF EditorInv, LinesFit
    <2>. QED
        BY <2>1 DEF OneSize
<1>. QED
    BY <1>1, EditorInvariant, PTL

\* The slots of paragraphs, and with them the ids, are never more than the lines
\* of MAX_AGE + 2 frames, however many frames there are, as long as their number
\* fits a word: prune_old_render_paragraphs counts them with saturating_add.
THEOREM SlotsStayFew ==
    ASSUME MaxGeneration \in Word PROVE EditorSpec => []UnusedIsPruned
<1> DEFINE Few == FewInEach(rendered_paragraphs) /\ UnusedIsPruned
<1>1. EditorInit => Few
    <2>1. EditorInit => rendered_paragraphs = <<>>
        BY DEF EditorInit, Init
    <2>. QED
        BY <2>1, NoSlotsAreFew DEF UnusedIsPruned
<1>2. EditorInv /\ Few /\ [EditorNext]_editorVars => Few'
    BY StepAddsFew
<1>3. Few => UnusedIsPruned
    OBVIOUS
<1> HIDE DEF Few
<1>. QED
    BY <1>1, <1>2, <1>3, EditorInvariant, PTL DEF EditorSpec
================================================================================

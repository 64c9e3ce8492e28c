------------------------- MODULE PacketFraming_proofs -------------------------
(***************************************************************************)
(* Proofs about PacketFraming, for any number and any lengths of packets,  *)
(* any way the network cuts the stream, and any room in the socket: what   *)
(* holds of the processor whatever bytes arrive, and what holds of the     *)
(* bytes until a write is short.                                           *)
(***************************************************************************)
EXTENDS PacketFraming, SequenceTheorems, TLAPS

-----------------------------------------------------------------------------
(* Sequences of bytes.                                                     *)

LEMMA FunctionIsSequence ==
    ASSUME NEW S, NEW n \in Nat, NEW f \in [1 .. n -> S]
    PROVE  f \in Seq(S) /\ Len(f) = n /\ DOMAIN f = 1 .. n
<1>1. f \in Seq(S)
  BY SeqDef
<1> QED
  BY <1>1, LenProperties

LEMMA BytesProperties ==
    ASSUME NEW from \in Int, NEW n \in Nat
    PROVE  /\ Bytes(from, n) \in Seq(Int)
           /\ Len(Bytes(from, n)) = n
           /\ \A i \in 1 .. n : Bytes(from, n)[i] = from + i - 1
<1>1. Bytes(from, n) \in [1 .. n -> Int]
  BY DEF Bytes
<1> QED
  BY <1>1, FunctionIsSequence DEF Bytes

\* resize keeps what there is room for.
LEMMA ResizedProperties ==
    ASSUME NEW buf \in Seq(Int), NEW n \in Nat
    PROVE  /\ Resized(buf, n) \in Seq(Int)
           /\ Len(Resized(buf, n)) = n
           /\ \A i \in 1 .. n : i =< Len(buf) => Resized(buf, n)[i] = buf[i]
<1>1. Len(buf) \in Nat /\ \A i \in 1 .. n : i =< Len(buf) => buf[i] \in Int
  BY LenProperties, ElementOfSeq
<1>2. Resized(buf, n) \in [1 .. n -> Int]
  BY <1>1 DEF Resized, Fill
<1> QED
  BY <1>2, FunctionIsSequence DEF Resized

-----------------------------------------------------------------------------
(* Frames.                                                                 *)

FrameLength(k) == Start[k + 1] - Start[k]

LEMMA StartFacts ==
    /\ Count \in Nat /\ HeaderLength \in Nat \ {0}
    /\ \A k \in 0 .. Count : Start[k] \in Nat
    /\ \A k \in 0 .. Count - 1 :
        FrameLength(k) \in Nat /\ FrameLength(k) > HeaderLength
    /\ \A j, k \in 0 .. Count : j < k => Start[j] < Start[k]
    /\ \A k \in 0 .. Count : Start[k] =< Start[Count]
BY FramesAssumption DEF FrameLength

\* A header is that of one packet only.
LEMMA PacketLengthOfHeader ==
    ASSUME NEW buf, NEW k \in 0 .. Count - 1, IsHeaderOf(buf, k)
    PROVE  HeaderLength + packet_length(buf) = FrameLength(k)
<1>1. ASSUME NEW j \in 0 .. Count - 1, IsHeaderOf(buf, j) PROVE j = k
  <2>1. 1 \in 1 .. HeaderLength
    BY FramesAssumption
  <2>2. buf[1] = Start[j] + 1 - 1 /\ buf[1] = Start[k] + 1 - 1
    BY <1>1, <2>1 DEF IsHeaderOf
  <2>3. Start[j] = Start[k]
    BY <2>2, StartFacts
  <2> QED
    BY <2>3, StartFacts
<1>2. packet_length(buf) = Start[k + 1] - Start[k] - HeaderLength
  BY <1>1 DEF packet_length
<1>3. Start[k + 1] \in Nat /\ Start[k] \in Nat /\ HeaderLength \in Nat
  BY StartFacts
<1> QED
  BY <1>2, <1>3 DEF FrameLength

LEMMA ContentsProperties ==
    ASSUME NEW k \in 0 .. Count - 1
    PROVE  /\ Contents(k + 1) \in Seq(Int)
           /\ Len(Contents(k + 1)) = FrameLength(k) - HeaderLength
           /\ \A i \in 1 .. FrameLength(k) - HeaderLength :
                Contents(k + 1)[i] = Start[k] + HeaderLength + i - 1
<1> DEFINE from == Start[k] + HeaderLength
           n == FrameLength(k) - HeaderLength
<1>1. from \in Int /\ n \in Nat
  BY StartFacts
<1>2. (k + 1) - 1 = k /\ Start[k + 1] - Start[k] - HeaderLength = n
  BY StartFacts DEF FrameLength
<1>3. Contents(k + 1) = Bytes(from, n)
  BY <1>2 DEF Contents
<1> HIDE DEF from, n
<1>4. /\ Contents(k + 1) \in Seq(Int) /\ Len(Contents(k + 1)) = n
      /\ \A i \in 1 .. n : Contents(k + 1)[i] = from + i - 1
  BY <1>1, <1>3, BytesProperties
<1> QED
  BY <1>4 DEF from, n

-----------------------------------------------------------------------------
(* The inductive invariant of the bytes, as long as no write is short.     *)

Done == Len(delivered)

\* What is delivered are the first packets, whole.
DeliveredIsPrefix ==
    /\ Done =< sent
    /\ \A i \in 1 .. Done : delivered[i] = Contents(i)

\* The buffer holds the next frame as far as it is read.
BufferContinues ==
    \A i \in 1 .. current_offset : recv_buffer[i] = Start[Done] + i - 1

\* The pipe holds what comes after it, up to the last frame written.
PipeContinues ==
    /\ Len(pipe) = Start[sent] - Start[Done] - current_offset
    /\ \A i \in 1 .. Len(pipe) : pipe[i] = Start[Done] + current_offset + i - 1

\* The invariants "between state and current_offset" the code speaks of.
Frame == FrameLength(Done)

StateFits ==
    \/ /\ state = "WaitingForHeader"
       /\ current_offset < HeaderLength
       /\ slice = NoSlice
    \/ /\ state = "WaitingForHeaderRead"
       /\ current_offset < HeaderLength
       /\ Len(recv_buffer) = HeaderLength
       /\ slice = HeaderLength - current_offset
    \/ /\ state = "WaitingForContents"
       /\ HeaderLength =< current_offset /\ current_offset < Frame
       /\ slice = NoSlice
    \/ /\ state = "WaitingForContentsRead"
       /\ HeaderLength =< current_offset /\ current_offset < Frame
       /\ Len(recv_buffer) = Frame
       /\ slice = Frame - current_offset
    \/ /\ state = "WaitingForExtract"
       /\ HeaderLength =< current_offset /\ current_offset = Frame
       /\ Len(recv_buffer) = Frame
       /\ slice = NoSlice

StreamInv ==
    /\ TypeOK
    /\ DeliveredIsPrefix
    /\ BufferContinues
    /\ PipeContinues
    /\ StateFits

\* The numbers the invariant speaks of, and that they are numbers.
Sizes ==
    /\ HeaderLength \in Nat \ {0} /\ Count \in Nat
    /\ Done \in Nat /\ Done =< Count /\ sent \in Nat /\ sent =< Count
    /\ Done =< sent
    /\ Start[Done] \in Nat /\ Start[sent] \in Nat
    /\ Len(pipe) \in Nat /\ arrived \in Nat /\ arrived =< Len(pipe)
    /\ Len(pipe) = Start[sent] - Start[Done] - current_offset
    /\ Len(recv_buffer) \in Nat
    /\ current_offset \in Nat /\ current_offset =< Len(recv_buffer)

LEMMA InvariantSizes == ASSUME StreamInv PROVE Sizes
<1>1. Done \in Nat /\ Len(pipe) \in Nat /\ Len(recv_buffer) \in Nat
  BY LenProperties DEF StreamInv, TypeOK, Done
<1>2. Done \in 0 .. Count /\ sent \in 0 .. Count /\ Done =< sent
  BY <1>1, FramesAssumption DEF StreamInv, TypeOK, DeliveredIsPrefix
<1>3. Len(pipe) = Start[sent] - Start[Done] - current_offset
  BY DEF StreamInv, PipeContinues
<1>4. current_offset \in 0 .. Len(recv_buffer) /\ arrived \in 0 .. Len(pipe)
  BY DEF StreamInv, TypeOK
<1> QED
  BY <1>1, <1>2, <1>3, <1>4, StartFacts DEF Sizes

\* Bytes in the buffer are those of a packet that was written.
LEMMA Behind ==
    ASSUME StreamInv, current_offset > 0
    PROVE  Done \in 0 .. Count - 1 /\ Done < sent /\ Frame \in Nat
<1>t. Sizes
  BY InvariantSizes
<1>1. Start[sent] > Start[Done]
  BY <1>t DEF Sizes, StreamInv, PipeContinues
<1>2. Done # sent
  BY <1>1, <1>t DEF Sizes
<1> QED
  BY <1>2, <1>t, StartFacts DEF Sizes, Frame

\* Once the header is read the processor knows the length of the frame.
LEMMA KnowsLength ==
    ASSUME StreamInv, current_offset >= HeaderLength
    PROVE  HeaderLength + packet_length(recv_buffer) = Frame
<1>t. Sizes
  BY InvariantSizes
<1>1. Done \in 0 .. Count - 1
  BY <1>t, Behind DEF Sizes
<1>2. IsHeaderOf(recv_buffer, Done)
  BY <1>t DEF Sizes, IsHeaderOf, StreamInv, BufferContinues
<1> QED
  BY <1>1, <1>2, PacketLengthOfHeader DEF Frame

-----------------------------------------------------------------------------
(* The steps.                                                              *)

LEMMA InitStep == Init => StreamInv
<1> SUFFICES ASSUME Init PROVE StreamInv
  OBVIOUS
<1>1. Len(<<>>) = 0 /\ \A S : <<>> \in Seq(S)
  BY EmptySeq
<1>2. Done = 0 /\ Start[0] = 0 /\ HeaderLength \in Nat \ {0} /\ Count \in Nat
  BY <1>1, FramesAssumption DEF Init, Done
<1>3. short \in BOOLEAN
  BY DEF Init
<1>4. TypeOK
  BY <1>1, <1>2, <1>3 DEF Init, TypeOK, State
<1>5. DeliveredIsPrefix /\ BufferContinues /\ PipeContinues /\ StateFits
  BY <1>1, <1>2 DEF Init, DeliveredIsPrefix, BufferContinues, PipeContinues, StateFits
<1> QED
  BY <1>4, <1>5 DEF StreamInv

LEMMA SendStep ==
    ASSUME StreamInv, NEW k \in 0 .. Count, Send(k), ~short'
    PROVE  StreamInv'
<1>t. Sizes
  BY InvariantSizes
<1>1. PICK a \in Nat, s \in Nat, e \in Nat, p \in Nat, o \in Nat :
        /\ a = Start[Done] /\ s = Start[sent] /\ e = Start[k]
        /\ p = Len(pipe) /\ o = current_offset
  BY <1>t, StartFacts DEF Sizes
<1>2. sent < k /\ s < e /\ p = s - a - o
  <2>1. sent < k
    BY <1>t DEF Sizes, Send
  <2>2. Start[sent] < Start[k]
    BY <1>t, <2>1, StartFacts DEF Sizes
  <2> QED
    BY <1>1, <1>t, <2>1, <2>2 DEF Sizes
<1> DEFINE n == e - s
           new == Bytes(s, n)
<1>3. n \in Nat /\ s \in Int
  BY <1>2
<1>4. /\ new \in Seq(Int) /\ Len(new) = n
      /\ \A i \in 1 .. n : new[i] = s + i - 1
  BY <1>3, BytesProperties
<1>5. pipe' = pipe \o new /\ sent' = k
  <2>1. Size(k) = n /\ ~(Written(k) < Size(k))
    BY <1>1 DEF Size, Send
  <2>2. Written(k) = n
    BY <1>1, <1>3, <2>1, SocketAssumption DEF Written
  <2> QED
    BY <1>1, <2>2 DEF Send
<1> HIDE DEF new
<1>6. /\ pipe' \in Seq(Int)
      /\ Len(pipe') = p + n
      /\ \A i \in 1 .. p + n :
            pipe'[i] = IF i <= p THEN pipe[i] ELSE new[i - p]
  <2>1. pipe \in Seq(Int)
    BY DEF StreamInv, TypeOK
  <2>2. /\ pipe' \in Seq(Int)
        /\ Len(pipe') = Len(pipe) + Len(new)
        /\ \A i \in 1 .. Len(pipe) + Len(new) :
              pipe'[i] = IF i <= Len(pipe) THEN pipe[i] ELSE new[i - Len(pipe)]
    BY <1>4, <1>5, <2>1, ConcatProperties
  <2>3. Len(pipe) = p /\ Len(new) = n
    BY <1>1, <1>4
  <2> HIDE DEF n
  <2> QED
    BY <2>2, <2>3
<1>7. UNCHANGED <<arrived, state, current_offset, recv_buffer, slice, delivered>>
      /\ short' \in BOOLEAN
  BY DEF Send, StreamInv, TypeOK
<1>8. UNCHANGED Done
  BY <1>7 DEF Done
<1>9. TypeOK'
  <2>1. arrived' \in 0 .. Len(pipe')
    BY <1>t, <1>1, <1>3, <1>6, <1>7 DEF Sizes
  <2> QED
    BY <1>5, <1>6, <1>7, <2>1 DEF StreamInv, TypeOK
<1>10. DeliveredIsPrefix'
  BY <1>t, <1>2, <1>5, <1>7, <1>8
     DEF Sizes, StreamInv, DeliveredIsPrefix, Contents
<1>11. BufferContinues' /\ StateFits'
  BY <1>7, <1>8 DEF StreamInv, BufferContinues, StateFits, Frame, FrameLength
<1>12. PipeContinues'
  <2>1. p + n = e - a - o
    BY <1>2
  <2>2. ASSUME NEW i \in 1 .. p + n
        PROVE  pipe'[i] = a + o + i - 1
    <3>1. CASE i <= p
      <4>1. pipe'[i] = pipe[i] /\ i \in 1 .. p
        BY <1>6, <3>1
      <4> QED
        BY <1>1, <4>1 DEF StreamInv, PipeContinues
    <3>2. CASE ~(i <= p)
      <4>1. i - p \in 1 .. n
        BY <1>3, <3>2
      <4>2. pipe'[i] = s + (i - p) - 1
        BY <1>4, <1>6, <3>2, <4>1
      <4> QED
        BY <1>2, <4>2
    <3> QED
      BY <3>1, <3>2
  <2> QED
    BY <1>1, <1>5, <1>6, <1>7, <1>8, <2>1, <2>2 DEF PipeContinues
<1> QED
  BY <1>9, <1>10, <1>11, <1>12 DEF StreamInv

LEMMA ArriveStep == ASSUME StreamInv, Arrive PROVE StreamInv'
BY InvariantSizes
   DEF Sizes, Arrive, StreamInv, TypeOK, Done, DeliveredIsPrefix,
       BufferContinues, PipeContinues, StateFits, Contents, Frame, FrameLength

LEMMA next_read_bufferStep == ASSUME StreamInv, next_read_buffer PROVE StreamInv'
<1>t. Sizes
  BY InvariantSizes
<1>1. PICK n \in Nat :
        /\ recv_buffer' = Resized(recv_buffer, n)
        /\ current_offset < n
        /\ \/ /\ n = HeaderLength
              /\ state' = "WaitingForHeaderRead"
           \/ /\ n = Frame /\ HeaderLength =< current_offset
              /\ state' = "WaitingForContentsRead"
  <2>1. CASE state = "WaitingForHeader"
    <3>1. current_offset < HeaderLength
      BY <2>1 DEF StreamInv, StateFits
    <3> QED
      BY <2>1, <3>1, <1>t DEF Sizes, next_read_buffer
  <2>2. CASE state = "WaitingForContents"
    <3>1. HeaderLength =< current_offset /\ current_offset < Frame
      BY <2>2 DEF StreamInv, StateFits
    <3>2. current_offset > 0 /\ current_offset >= HeaderLength
      BY <3>1, <1>t DEF Sizes
    <3>3. HeaderLength + packet_length(recv_buffer) = Frame /\ Frame \in Nat
      BY <3>2, KnowsLength, Behind
    <3> QED
      BY <2>2, <3>1, <3>3 DEF next_read_buffer
  <2> QED
    BY <2>1, <2>2 DEF next_read_buffer
<1>2. recv_buffer \in Seq(Int)
  BY DEF StreamInv, TypeOK
<1>3. recv_buffer' \in Seq(Int) /\ Len(recv_buffer') = n
  BY <1>1, <1>2, ResizedProperties
<1>4. \A i \in 1 .. n : i =< Len(recv_buffer) => recv_buffer'[i] = recv_buffer[i]
  BY <1>1, <1>2, ResizedProperties
<1>5. /\ slice' = n - current_offset
      /\ UNCHANGED <<sent, pipe, arrived, current_offset, delivered, short>>
  BY <1>3 DEF next_read_buffer
<1>6. UNCHANGED <<Done, Frame>>
  BY <1>5 DEF Done, Frame, FrameLength
<1>7. TypeOK'
  <2>1. current_offset' \in 0 .. Len(recv_buffer') /\ slice' \in Nat
    BY <1>1, <1>3, <1>5, <1>t DEF Sizes
  <2>2. state' \in State
    BY <1>1 DEF State
  <2> QED
    BY <1>3, <1>5, <2>1, <2>2 DEF StreamInv, TypeOK
<1>8. DeliveredIsPrefix' /\ PipeContinues'
  BY <1>5, <1>6 DEF StreamInv, DeliveredIsPrefix, PipeContinues, Contents
<1>9. BufferContinues'
  <2> SUFFICES ASSUME NEW i \in 1 .. current_offset
               PROVE  recv_buffer'[i] = Start[Done] + i - 1
    BY <1>5, <1>6 DEF BufferContinues
  <2>1. i \in 1 .. n /\ i =< Len(recv_buffer)
    BY <1>1, <1>t DEF Sizes
  <2> QED
    BY <1>4, <2>1 DEF StreamInv, BufferContinues
<1>10. StateFits'
  BY <1>1, <1>3, <1>5, <1>6 DEF StateFits
<1> QED
  BY <1>7, <1>8, <1>9, <1>10 DEF StreamInv

\* A slice reaches from the offset to the end of the header or of the frame.
LEMMA SliceFits ==
    ASSUME StreamInv, slice # NoSlice
    PROVE  /\ slice = Len(recv_buffer) - current_offset
           /\ \/ /\ state = "WaitingForHeaderRead"
                 /\ Len(recv_buffer) = HeaderLength
              \/ /\ state = "WaitingForContentsRead"
                 /\ HeaderLength =< current_offset
                 /\ Len(recv_buffer) = Frame
BY DEF StreamInv, StateFits

\* Where a read of n bytes leaves the state.
LEMMA MarkState ==
    ASSUME StreamInv, slice # NoSlice, NEW n \in Nat, n =< slice, n =< arrived,
           NEW buf,
           \A i \in 1 .. current_offset + n :
                i =< Len(buf) /\ buf[i] = Start[Done] + i - 1,
           Len(buf) = Len(recv_buffer),
           mark_data_read(buf, n)
    PROVE  StateFits'
<1>t. Sizes
  BY InvariantSizes
<1>1. PICK o \in Nat : o = current_offset + n
  BY <1>t DEF Sizes
<1>2. /\ recv_buffer' = buf /\ current_offset' = o /\ slice' = NoSlice
      /\ UNCHANGED <<sent, delivered>>
      /\ state' = StateAfter(buf, o)
  BY <1>1 DEF mark_data_read
<1>3. UNCHANGED <<Done, Frame>>
  BY <1>2 DEF Done, Frame, FrameLength
<1>4. o =< Len(recv_buffer)
  BY <1>1, <1>t, SliceFits DEF Sizes
<1>5. ASSUME o >= HeaderLength
      PROVE  /\ HeaderLength + packet_length(buf) = Frame
             /\ HeaderLength < Frame /\ Frame \in Nat
  <2>1. n =< Start[sent] - Start[Done] - current_offset
    BY <1>t DEF Sizes
  <2>2. Start[Done] < Start[sent]
    BY <1>1, <1>5, <1>t, <2>1 DEF Sizes
  <2>3. Done # sent
    BY <2>2, <1>t DEF Sizes
  <2>4. Done \in 0 .. Count - 1
    BY <2>3, <1>t DEF Sizes
  <2>5. \A i \in 1 .. HeaderLength : i \in 1 .. current_offset + n
    BY <1>1, <1>5, <1>t DEF Sizes
  <2>6. IsHeaderOf(buf, Done)
    BY <2>5 DEF IsHeaderOf
  <2>7. HeaderLength + packet_length(buf) = FrameLength(Done)
    BY <2>4, <2>6, PacketLengthOfHeader
  <2> QED
    BY <2>4, <2>7, StartFacts DEF Frame
<1>6. CASE state = "WaitingForHeaderRead"
  <2>1. o =< HeaderLength /\ HeaderLength \in Nat
    BY <1>4, <1>6, <1>t, SliceFits DEF Sizes
  <2>2. CASE o >= HeaderLength
    <3>1. state' = "WaitingForContents" /\ o = HeaderLength
      BY <1>1, <1>2, <1>6, <2>1, <2>2 DEF StateAfter
    <3> QED
      BY <1>2, <1>3, <1>5, <2>1, <2>2, <3>1 DEF StateFits
  <2>3. CASE ~(o >= HeaderLength)
    <3>1. state' = "WaitingForHeader" /\ o < HeaderLength
      BY <1>1, <1>2, <1>6, <2>1, <2>3 DEF StateAfter
    <3> QED
      BY <1>2, <3>1 DEF StateFits
  <2> QED
    BY <2>2, <2>3
<1>7. CASE state # "WaitingForHeaderRead"
  <2>1. o >= HeaderLength /\ HeaderLength =< o /\ o =< Frame
        /\ Len(buf) = Frame
    BY <1>1, <1>4, <1>7, <1>t, SliceFits DEF Sizes
  <2>2. HeaderLength + packet_length(buf) = Frame /\ Frame \in Nat
    BY <1>5, <2>1
  <2>3. CASE o >= Frame
    <3>1. state' = "WaitingForExtract" /\ o = Frame
      BY <1>2, <1>7, <2>1, <2>2, <2>3 DEF StateAfter
    <3> QED
      BY <1>2, <1>3, <2>1, <3>1 DEF StateFits
  <2>4. CASE ~(o >= Frame)
    <3>1. state' = "WaitingForContents" /\ o < Frame
      BY <1>2, <1>7, <2>2, <2>4 DEF StateAfter
    <3> QED
      BY <1>2, <1>3, <2>1, <3>1 DEF StateFits
  <2> QED
    BY <2>3, <2>4
<1> QED
  BY <1>6, <1>7

\* Both ways out of a read, with n bytes or none: buf is the buffer with them.
LEMMA MarkStep ==
    ASSUME StreamInv, slice # NoSlice, NEW n \in Nat, n =< slice, n =< arrived,
           NEW buf \in Seq(Int), Len(buf) = Len(recv_buffer),
           \A i \in 1 .. current_offset + n :
                i =< Len(buf) /\ buf[i] = Start[Done] + i - 1,
           pipe' \in Seq(Int), Len(pipe') = Len(pipe) - n,
           \A i \in 1 .. Len(pipe) - n : pipe'[i] = pipe[i + n],
           arrived' = arrived - n,
           mark_data_read(buf, n)
    PROVE  StreamInv'
<1>t. Sizes
  BY InvariantSizes
<1>1. /\ recv_buffer' = buf /\ current_offset' = current_offset + n
      /\ slice' = NoSlice /\ UNCHANGED <<sent, delivered, short>>
  BY DEF mark_data_read
<1>2. UNCHANGED Done
  BY <1>1 DEF Done
<1>3. StateFits'
  BY MarkState
<1>4. TypeOK'
  <2>1. state' \in State
    BY <1>3 DEF StateFits, State
  <2>2. current_offset + n \in 0 .. Len(recv_buffer)
    <3>1. PICK o \in Nat, l \in Nat : o = current_offset /\ l = Len(recv_buffer)
      BY <1>t DEF Sizes
    <3>2. slice = l - o
      BY <3>1, SliceFits
    <3>3. o + n \in 0 .. l
      BY <3>1, <3>2
    <3> QED
      BY <3>1, <3>3
  <2>3. arrived' \in 0 .. Len(pipe')
    BY <1>t DEF Sizes
  <2>4. short' \in BOOLEAN
    BY <1>1 DEF StreamInv, TypeOK
  <2>5. /\ recv_buffer' \in Seq(Int)
        /\ current_offset' \in 0 .. Len(recv_buffer')
    BY <1>1, <2>2
  <2>6. slice' \in Nat \cup {NoSlice}
    BY <1>1
  <2>7. sent' \in 0 .. Count /\ delivered' \in Seq(Seq(Int))
    BY <1>1 DEF StreamInv, TypeOK
  <2> QED
    BY <2>1, <2>3, <2>4, <2>5, <2>6, <2>7 DEF TypeOK
<1>5. DeliveredIsPrefix'
  BY <1>1, <1>2 DEF StreamInv, DeliveredIsPrefix, Contents
<1>6. BufferContinues'
  BY <1>1, <1>2 DEF BufferContinues
<1>7. PipeContinues'
  <2>1. PICK a \in Nat, s \in Nat, o \in Nat, p \in Nat :
          /\ a = Start[Done] /\ s = Start[sent]
          /\ o = current_offset /\ p = Len(pipe)
    BY <1>t DEF Sizes
  <2>2. p = s - a - o /\ n =< p
    BY <2>1, <1>t DEF Sizes
  <2>3. ASSUME NEW i \in 1 .. p - n
        PROVE  pipe'[i] = a + (o + n) + i - 1
    <3>1. i + n \in 1 .. p
      BY <2>2
    <3>2. pipe[i + n] = a + o + (i + n) - 1
      BY <2>1, <3>1 DEF StreamInv, PipeContinues
    <3>3. pipe'[i] = pipe[i + n]
      BY <2>1
    <3> QED
      BY <3>2, <3>3
  <2>4. p - n = s - a - (o + n)
    BY <2>2
  <2> QED
    BY <1>1, <1>2, <2>1, <2>3, <2>4 DEF PipeContinues
<1> QED
  BY <1>3, <1>4, <1>5, <1>6, <1>7 DEF StreamInv

LEMMA ReadStep ==
    ASSUME StreamInv, NEW n \in 0 .. arrived, Read(n)
    PROVE  StreamInv'
<1>t. Sizes
  BY InvariantSizes
<1>1. PICK p \in Nat, o \in Nat, l \in Nat :
        /\ p = Len(pipe) /\ o = current_offset /\ l = Len(recv_buffer)
        /\ DOMAIN recv_buffer = 1 .. l
  BY <1>t, LenProperties DEF Sizes, StreamInv, TypeOK
<1>2. n \in Nat /\ slice # NoSlice /\ n =< slice /\ n =< arrived
  BY <1>t DEF Sizes, Read, Readable
<1>3. n =< p /\ o + n =< l
  BY <1>1, <1>2, <1>t, SliceFits DEF Sizes
<1>4. \A i \in 1 .. p : pipe[i] \in Int
  BY <1>1, ElementOfSeq DEF StreamInv, TypeOK
<1>5. /\ pipe' \in Seq(Int) /\ Len(pipe') = p - n
      /\ \A i \in 1 .. p - n : pipe'[i] = pipe[i + n]
  <2> DEFINE m == n + 1
  <2>1. pipe' = SubSeq(pipe, m, p)
    BY <1>1 DEF Read
  <2>2. m \in Int /\ p \in Int /\ \A i \in m .. p : pipe[i] \in Int
    BY <1>2, <1>4
  <2> HIDE DEF m
  <2>3. /\ pipe' \in Seq(Int)
        /\ Len(pipe') = IF m <= p THEN p - m + 1 ELSE 0
        /\ \A i \in 1 .. p - m + 1 : pipe'[i] = pipe[m + i - 1]
    BY <2>1, <2>2, SubSeqProperties
  <2>4. p - m + 1 = p - n /\ (~(m <= p) => p - n = 0)
    BY <1>2, <1>3 DEF m
  <2>5. \A i \in 1 .. p - n : m + i - 1 = i + n
    BY <1>2 DEF m
  <2> QED
    BY <2>3, <2>4, <2>5
<1>6. /\ Filled(n) \in Seq(Int) /\ Len(Filled(n)) = l
      /\ \A i \in 1 .. l :
            Filled(n)[i] = IF i \in o + 1 .. o + n THEN pipe[i - o]
                           ELSE recv_buffer[i]
  <2>1. \A i \in 1 .. l : recv_buffer[i] \in Int
    BY <1>1, ElementOfSeq DEF StreamInv, TypeOK
  <2>2. \A i \in o + 1 .. o + n : i - o \in 1 .. p
    BY <1>2, <1>3
  <2>3. Filled(n) = [i \in 1 .. l |-> IF i \in o + 1 .. o + n THEN pipe[i - o]
                                      ELSE recv_buffer[i]]
    BY <1>1 DEF Filled
  <2>4. Filled(n) \in [1 .. l -> Int]
    BY <1>4, <2>1, <2>2, <2>3
  <2> QED
    BY <2>3, <2>4, FunctionIsSequence
<1>7. ASSUME NEW i \in 1 .. o + n
      PROVE  i =< l /\ Filled(n)[i] = Start[Done] + i - 1
  <2>1. i \in 1 .. l
    BY <1>2, <1>3
  <2>2. CASE i =< o
    <3>1. Filled(n)[i] = recv_buffer[i] /\ i \in 1 .. o
      BY <1>6, <2>1, <2>2
    <3> QED
      BY <1>1, <2>1, <3>1 DEF StreamInv, BufferContinues
  <2>3. CASE ~(i =< o)
    <3>1. i \in o + 1 .. o + n /\ i - o \in 1 .. p
      BY <1>2, <1>3, <2>3
    <3>2. Filled(n)[i] = pipe[i - o]
      BY <1>6, <2>1, <3>1
    <3>3. pipe[i - o] = Start[Done] + o + (i - o) - 1
      BY <1>1, <3>1 DEF StreamInv, PipeContinues
    <3>4. PICK a \in Nat : a = Start[Done]
      BY <1>t, SMTT(40) DEF Sizes
    <3>5. pipe[i - o] = a + i - 1
      BY <3>3, <3>4
    <3> QED
      BY <2>1, <3>2, <3>4, <3>5
  <2> QED
    BY <2>2, <2>3
<1>8. arrived' = arrived - n /\ mark_data_read(Filled(n), n)
  BY DEF Read
<1> QED
  BY <1>1, <1>2, <1>5, <1>6, <1>7, <1>8, MarkStep

LEMMA WouldBlockStep == ASSUME StreamInv, WouldBlock PROVE StreamInv'
<1>t. Sizes
  BY InvariantSizes
<1>1. /\ slice # NoSlice /\ arrived = 0 /\ pipe' = pipe /\ arrived' = arrived
      /\ mark_data_read(recv_buffer, 0)
  BY DEF WouldBlock
<1>2. 0 =< slice
  BY <1>1, <1>t, SliceFits DEF Sizes
<1>3. /\ pipe' \in Seq(Int) /\ Len(pipe') = Len(pipe) - 0
      /\ \A i \in 1 .. Len(pipe) - 0 : pipe'[i] = pipe[i + 0]
  BY <1>1, <1>t DEF Sizes, StreamInv, TypeOK
<1>4. \A i \in 1 .. current_offset + 0 :
        i =< Len(recv_buffer) /\ recv_buffer[i] = Start[Done] + i - 1
  BY <1>t DEF Sizes, StreamInv, BufferContinues
<1>5. recv_buffer \in Seq(Int) /\ 0 =< arrived /\ arrived' = arrived - 0
  BY <1>1 DEF StreamInv, TypeOK
<1> QED
  BY <1>1, <1>2, <1>3, <1>4, <1>5, MarkStep

\* What is handed out is the next packet.
LEMMA ExtractsNext ==
    ASSUME StreamInv, extract_archive
    PROVE  /\ Done < sent
           /\ delivered' = Append(delivered, Contents(Done + 1))
           /\ Done' = Done + 1
           /\ Start[Done + 1] = Start[Done] + current_offset
           /\ current_offset' = 0 /\ state' = "WaitingForHeader"
           /\ recv_buffer' \in Seq(Int) /\ slice = NoSlice
<1>t. Sizes
  BY InvariantSizes
<1>1. /\ HeaderLength =< current_offset /\ current_offset = Frame
      /\ Len(recv_buffer) = Frame /\ slice = NoSlice
  BY DEF extract_archive, StreamInv, StateFits
<1>2. current_offset > 0 /\ current_offset >= HeaderLength
  BY <1>1, <1>t DEF Sizes
<1>3. Done \in 0 .. Count - 1 /\ Done < sent /\ Frame \in Nat
  BY <1>2, Behind
<1>4. HeaderLength + packet_length(recv_buffer) = Frame
  BY <1>2, KnowsLength
<1> DEFINE buf == Resized(recv_buffer, Frame)
           out == SubSeq(buf, HeaderLength + 1, Frame)
<1>5. /\ recv_buffer' = buf /\ delivered' = Append(delivered, out)
      /\ current_offset' = current_offset - Frame
  BY <1>4 DEF extract_archive
<1>6. current_offset' = 0 /\ state' = "WaitingForHeader"
  BY <1>1, <1>3, <1>5, <1>t DEF Sizes, extract_archive
<1>7. /\ buf \in Seq(Int)
      /\ \A i \in 1 .. Frame : buf[i] = Start[Done] + i - 1
  <2>1. /\ buf \in Seq(Int)
        /\ \A i \in 1 .. Frame : i =< Len(recv_buffer) => buf[i] = recv_buffer[i]
    BY <1>3, ResizedProperties DEF StreamInv, TypeOK
  <2>2. \A i \in 1 .. Frame : recv_buffer[i] = Start[Done] + i - 1
    BY <1>1 DEF StreamInv, BufferContinues
  <2> QED
    BY <1>1, <1>3, <2>1, <2>2
<1> HIDE DEF buf
<1>8. PICK a \in Nat, h \in Nat, f \in Nat :
        /\ a = Start[Done] /\ h = HeaderLength /\ f = Frame
        /\ h < f /\ Start[Done + 1] = a + f
  <2>1. Start[Done + 1] \in Nat /\ HeaderLength < Frame
    BY <1>3, StartFacts DEF Frame
  <2>2. Start[Done + 1] = Start[Done] + Frame
    BY <2>1, <1>t DEF Frame, FrameLength, Sizes
  <2> QED
    BY <1>3, <1>t, <2>1, <2>2 DEF Sizes
<1> DEFINE c == Contents(Done + 1)
<1>9. out = c /\ c \in Seq(Int)
  <2>1. /\ c \in Seq(Int) /\ Len(c) = f - h
        /\ \A i \in 1 .. f - h : c[i] = a + h + i - 1
    BY <1>3, <1>8, ContentsProperties DEF Frame
  <2>2. \A i \in 1 .. f : buf[i] = a + i - 1
    BY <1>7, <1>8
  <2> DEFINE m == h + 1
  <2>3. m \in Int /\ \A i \in m .. f : buf[i] \in Int
    BY <2>2
  <2>4. out = SubSeq(buf, m, f)
    BY <1>8
  <2> HIDE DEF m, c, out
  <2>5. /\ out \in Seq(Int)
        /\ Len(out) = IF m <= f THEN f - m + 1 ELSE 0
        /\ \A i \in 1 .. f - m + 1 : out[i] = buf[m + i - 1]
    BY <2>3, <2>4, SubSeqProperties
  <2>6. m <= f /\ f - m + 1 = f - h
    BY <1>8 DEF m
  <2>7. ASSUME NEW i \in 1 .. f - h PROVE out[i] = c[i]
    <3>1. h + i \in 1 .. f /\ m + i - 1 = h + i
      BY <1>8 DEF m
    <3>2. out[i] = buf[h + i] /\ buf[h + i] = a + (h + i) - 1
      BY <2>2, <2>5, <2>6, <3>1
    <3>3. c[i] = a + h + i - 1
      BY <2>1
    <3> QED
      BY <3>2, <3>3
  <2>8. Len(out) = f - h
    BY <2>5, <2>6
  <2> QED
    BY <2>1, <2>5, <2>7, <2>8, SeqEqual
<1> HIDE DEF c, out
<1>10. Done' = Done + 1
  BY <1>5, <1>9, AppendProperties DEF Done, StreamInv, TypeOK
<1>11. delivered' = Append(delivered, Contents(Done + 1))
  BY <1>5, <1>9 DEF c
<1>12. Start[Done + 1] = Start[Done] + current_offset
  BY <1>1, <1>8
<1>13. recv_buffer' \in Seq(Int)
  BY <1>5, <1>7
<1> QED
  BY <1>1, <1>3, <1>6, <1>10, <1>11, <1>12, <1>13

LEMMA extract_archiveStep == ASSUME StreamInv, extract_archive PROVE StreamInv'
<1>t. Sizes
  BY InvariantSizes
<1>1. /\ Done < sent /\ Done' = Done + 1
      /\ delivered' = Append(delivered, Contents(Done + 1))
      /\ Start[Done + 1] = Start[Done] + current_offset
      /\ current_offset' = 0 /\ state' = "WaitingForHeader"
      /\ recv_buffer' \in Seq(Int) /\ slice = NoSlice
  BY ExtractsNext
<1>2. UNCHANGED <<sent, pipe, arrived, slice, short>>
  BY DEF extract_archive
<1>3. /\ delivered' \in Seq(Seq(Int))
      /\ \A i \in 1 .. Done : delivered'[i] = delivered[i]
      /\ delivered'[Done + 1] = Contents(Done + 1)
  <2>1. Contents(Done + 1) \in Seq(Int)
    <3>1. Done \in 0 .. Count - 1
      BY <1>1, <1>t DEF Sizes
    <3> QED
      BY <3>1, ContentsProperties
  <2>2. delivered \in Seq(Seq(Int))
    BY DEF StreamInv, TypeOK
  <2> QED
    BY <1>1, <2>1, <2>2, AppendProperties DEF Done
<1>4. TypeOK'
  <2>1. 0 \in 0 .. Len(recv_buffer')
    BY <1>1, LenProperties
  <2> QED
    BY <1>1, <1>2, <1>3, <2>1 DEF StreamInv, TypeOK, State
<1>5. DeliveredIsPrefix'
  <2>1. Done + 1 =< sent
    BY <1>1, <1>t DEF Sizes
  <2>2. ASSUME NEW i \in 1 .. Done + 1 PROVE delivered'[i] = Contents(i)
    <3>1. CASE i = Done + 1
      BY <1>3, <3>1
    <3>2. CASE i # Done + 1
      <4>1. i \in 1 .. Done
        BY <3>2, <1>t DEF Sizes
      <4> QED
        BY <1>3, <4>1 DEF StreamInv, DeliveredIsPrefix
    <3> QED
      BY <3>1, <3>2
  <2> QED
    BY <1>1, <1>2, <2>1, <2>2 DEF DeliveredIsPrefix, Contents
<1>6. BufferContinues'
  BY <1>1 DEF BufferContinues
<1>7. PipeContinues'
  <2>1. PICK a \in Nat, o \in Nat, t \in Nat :
          /\ a = Start[Done] /\ o = current_offset /\ t = Start[sent]
          /\ Start[Done + 1] = a + o
    BY <1>1, <1>t DEF Sizes
  <2>2. Len(pipe) = t - (a + o) - 0
    BY <2>1, <1>t DEF Sizes
  <2>3. \A i \in 1 .. Len(pipe) : pipe[i] = a + o + 0 + i - 1
    BY <2>1 DEF StreamInv, PipeContinues
  <2> QED
    BY <1>1, <1>2, <2>1, <2>2, <2>3 DEF PipeContinues
<1>8. StateFits'
  BY <1>1, <1>2, <1>t DEF Sizes, StateFits
<1> QED
  BY <1>4, <1>5, <1>6, <1>7, <1>8 DEF StreamInv

LEMMA StutterStep == ASSUME StreamInv, UNCHANGED vars PROVE StreamInv'
BY DEF vars, StreamInv, TypeOK, Done, DeliveredIsPrefix, BufferContinues,
       PipeContinues, StateFits, Contents, Frame, FrameLength

LEMMA StreamStep == ASSUME StreamInv, [Next]_vars, ~short' PROVE StreamInv'
<1>1. ASSUME NEW k \in 0 .. Count, Send(k) PROVE StreamInv'
  BY <1>1, SendStep
<1>2. CASE Arrive
  BY <1>2, ArriveStep
<1>3. CASE Receive
  BY <1>3, next_read_bufferStep, ReadStep, WouldBlockStep, extract_archiveStep
     DEF Receive
<1>4. CASE UNCHANGED vars
  BY <1>4, StutterStep
<1> QED
  BY <1>1, <1>2, <1>3, <1>4 DEF Next

-----------------------------------------------------------------------------
(* The inductive invariant of the processor, whatever the bytes are: its    *)
(* state fits the length that the header in the buffer reads as.            *)

FrameRead(buf) == HeaderLength + packet_length(buf)

StateFitsBuffer ==
    \/ /\ state = "WaitingForHeader"
       /\ current_offset < HeaderLength
       /\ slice = NoSlice
    \/ /\ state = "WaitingForHeaderRead"
       /\ current_offset < HeaderLength
       /\ Len(recv_buffer) = HeaderLength
       /\ slice = HeaderLength - current_offset
    \/ /\ state = "WaitingForContents"
       /\ HeaderLength =< current_offset /\ current_offset < FrameRead(recv_buffer)
       /\ slice = NoSlice
    \/ /\ state = "WaitingForContentsRead"
       /\ HeaderLength =< current_offset /\ current_offset < FrameRead(recv_buffer)
       /\ Len(recv_buffer) = FrameRead(recv_buffer)
       /\ slice = FrameRead(recv_buffer) - current_offset
    \/ /\ state = "WaitingForExtract"
       /\ HeaderLength =< current_offset /\ current_offset = FrameRead(recv_buffer)
       /\ Len(recv_buffer) = FrameRead(recv_buffer)
       /\ slice = NoSlice

BufferInv == TypeOK /\ StateFitsBuffer

\* Contents have at least a byte, whatever the header.
LEMMA LengthRead ==
    ASSUME NEW buf
    PROVE  packet_length(buf) \in Nat /\ packet_length(buf) > 0
<1>1. CASE \E k \in 0 .. Count - 1 : IsHeaderOf(buf, k)
  <2>1. PICK k \in 0 .. Count - 1 : IsHeaderOf(buf, k)
    BY <1>1
  <2>2. packet_length(buf) \in Int
    <3>1. PICK j \in 0 .. Count - 1 :
            packet_length(buf) = Start[j + 1] - Start[j] - HeaderLength
      BY <1>1 DEF packet_length
    <3> QED
      BY <3>1, StartFacts
  <2>3. HeaderLength + packet_length(buf) > HeaderLength
    BY <2>1, PacketLengthOfHeader, StartFacts
  <2> QED
    BY <2>2, <2>3, StartFacts
<1>2. CASE ~ \E k \in 0 .. Count - 1 : IsHeaderOf(buf, k)
  BY <1>2, SocketAssumption DEF packet_length
<1> QED
  BY <1>1, <1>2

\* The length is read from the header only.
LEMMA LengthOfSameHeader ==
    ASSUME NEW buf, NEW buf2,
           HeaderLength =< Len(buf), HeaderLength =< Len(buf2),
           Len(buf) \in Nat, Len(buf2) \in Nat,
           \A i \in 1 .. HeaderLength : buf2[i] = buf[i]
    PROVE  packet_length(buf2) = packet_length(buf)
<1>1. \A k \in 0 .. Count - 1 : IsHeaderOf(buf2, k) <=> IsHeaderOf(buf, k)
  <2>1. \A i \in 1 .. HeaderLength : i =< Len(buf) /\ i =< Len(buf2)
    BY StartFacts
  <2> QED
    BY <2>1 DEF IsHeaderOf
<1>2. CASE \E k \in 0 .. Count - 1 : IsHeaderOf(buf, k)
  <2>1. PICK k \in 0 .. Count - 1 : IsHeaderOf(buf, k) /\ IsHeaderOf(buf2, k)
    BY <1>1, <1>2
  <2>2. HeaderLength + packet_length(buf2) = HeaderLength + packet_length(buf)
    BY <2>1, PacketLengthOfHeader
  <2>3. packet_length(buf) \in Nat /\ packet_length(buf2) \in Nat
    BY LengthRead
  <2> QED
    BY <2>2, <2>3, StartFacts
<1>3. CASE ~ \E k \in 0 .. Count - 1 : IsHeaderOf(buf, k)
  BY <1>1, <1>3 DEF packet_length
<1> QED
  BY <1>2, <1>3

\* What the types say, in numbers.
LEMMA BufferSizes ==
    ASSUME BufferInv
    PROVE  /\ Len(recv_buffer) \in Nat /\ Len(pipe) \in Nat
           /\ current_offset \in Nat /\ current_offset =< Len(recv_buffer)
           /\ arrived \in Nat /\ arrived =< Len(pipe)
           /\ FrameRead(recv_buffer) \in Nat /\ HeaderLength < FrameRead(recv_buffer)
           /\ HeaderLength \in Nat /\ HeaderLength > 0
<1>1. Len(recv_buffer) \in Nat /\ Len(pipe) \in Nat
  BY LenProperties DEF BufferInv, TypeOK
<1>2. HeaderLength \in Nat \ {0}
  BY StartFacts
<1>3. FrameRead(recv_buffer) \in Nat /\ HeaderLength < FrameRead(recv_buffer)
  BY <1>2, LengthRead DEF FrameRead
<1> QED
  BY <1>1, <1>2, <1>3 DEF BufferInv, TypeOK

LEMMA SendBuffer ==
    ASSUME BufferInv, NEW k \in 0 .. Count, Send(k)
    PROVE  BufferInv'
<1>t. Len(pipe) \in Nat /\ arrived \in Nat /\ arrived =< Len(pipe)
  BY BufferSizes
<1>1. Written(k) \in Nat
  <2>1. Start[k] \in Nat /\ Start[sent] \in Nat /\ Room \in Nat
    BY StartFacts, SocketAssumption DEF BufferInv, TypeOK
  <2>2. Size(k) \in Int /\ Room - Len(pipe) \in Int
    BY <1>t, <2>1 DEF Size
  <2>3. Written(k) \in Int
    BY <2>2 DEF Written
  <2> QED
    BY <2>3 DEF Send
<1> DEFINE new == Bytes(Start[sent], Written(k))
<1>2. new \in Seq(Int) /\ Len(new) \in Nat
  <2>1. Start[sent] \in Int
    BY StartFacts DEF BufferInv, TypeOK
  <2> QED
    BY <1>1, <2>1, BytesProperties
<1>3. pipe' = pipe \o new /\ sent' = k /\ short' \in BOOLEAN
  BY DEF Send, BufferInv, TypeOK
<1> HIDE DEF new
<1>4. pipe' \in Seq(Int) /\ Len(pipe') = Len(pipe) + Len(new)
  BY <1>2, <1>3, ConcatProperties DEF BufferInv, TypeOK
<1>5. arrived' \in 0 .. Len(pipe')
  BY <1>t, <1>2, <1>4 DEF Send
<1>6. UNCHANGED <<state, current_offset, recv_buffer, slice, delivered>>
  BY DEF Send
<1>7. TypeOK'
  BY <1>3, <1>4, <1>5, <1>6 DEF BufferInv, TypeOK
<1>8. StateFitsBuffer'
  BY <1>6 DEF BufferInv, StateFitsBuffer
<1> QED
  BY <1>7, <1>8 DEF BufferInv

LEMMA ArriveBuffer == ASSUME BufferInv, Arrive PROVE BufferInv'
<1>1. arrived' \in 0 .. Len(pipe)
  BY BufferSizes DEF Arrive
<1> QED
  BY <1>1 DEF Arrive, BufferInv, TypeOK, StateFitsBuffer

\* The slice for the header or for the contents; resize keeps the header.
LEMMA next_read_bufferBuffer == ASSUME BufferInv, next_read_buffer PROVE BufferInv'
<1>t. /\ Len(recv_buffer) \in Nat /\ current_offset \in Nat
      /\ current_offset =< Len(recv_buffer)
      /\ FrameRead(recv_buffer) \in Nat /\ HeaderLength < FrameRead(recv_buffer)
      /\ HeaderLength \in Nat /\ HeaderLength > 0
  BY BufferSizes
<1>1. PICK n \in Nat :
        /\ recv_buffer' = Resized(recv_buffer, n)
        /\ current_offset < n
        /\ \/ /\ n = HeaderLength
              /\ state' = "WaitingForHeaderRead"
           \/ /\ n = FrameRead(recv_buffer) /\ HeaderLength =< current_offset
              /\ state' = "WaitingForContentsRead"
  <2>1. CASE state = "WaitingForHeader"
    <3>1. current_offset < HeaderLength
      BY <2>1 DEF BufferInv, StateFitsBuffer
    <3> QED
      BY <2>1, <3>1, <1>t DEF next_read_buffer
  <2>2. CASE state = "WaitingForContents"
    <3>1. HeaderLength =< current_offset /\ current_offset < FrameRead(recv_buffer)
      BY <2>2 DEF BufferInv, StateFitsBuffer
    <3>2. recv_buffer' = Resized(recv_buffer, FrameRead(recv_buffer))
          /\ state' = "WaitingForContentsRead"
      BY <2>2 DEF next_read_buffer, FrameRead
    <3> QED
      BY <3>1, <3>2, <1>t
  <2> QED
    BY <2>1, <2>2 DEF next_read_buffer
<1>2. /\ recv_buffer' \in Seq(Int) /\ Len(recv_buffer') = n
      /\ \A i \in 1 .. n : i =< Len(recv_buffer) => recv_buffer'[i] = recv_buffer[i]
  BY <1>1, ResizedProperties DEF BufferInv, TypeOK
<1>3. /\ slice' = n - current_offset
      /\ UNCHANGED <<sent, pipe, arrived, current_offset, delivered, short>>
  BY <1>2 DEF next_read_buffer
<1>4. TypeOK'
  <2>1. current_offset' \in 0 .. Len(recv_buffer') /\ slice' \in Nat
    BY <1>1, <1>2, <1>3, <1>t
  <2>2. state' \in State
    BY <1>1 DEF State
  <2> QED
    BY <1>2, <1>3, <2>1, <2>2 DEF BufferInv, TypeOK
<1>5. StateFitsBuffer'
  <2>1. CASE n = HeaderLength /\ state' = "WaitingForHeaderRead"
    BY <1>1, <1>2, <1>3, <2>1 DEF StateFitsBuffer
  <2>2. CASE /\ n = FrameRead(recv_buffer) /\ HeaderLength =< current_offset
             /\ state' = "WaitingForContentsRead"
    <3>1. \A i \in 1 .. HeaderLength : recv_buffer'[i] = recv_buffer[i]
      BY <1>2, <2>2, <1>t
    <3>2. FrameRead(recv_buffer') = FrameRead(recv_buffer)
      BY <1>2, <2>2, <3>1, <1>t, LengthOfSameHeader DEF FrameRead
    <3> QED
      BY <1>1, <1>2, <1>3, <2>2, <3>2 DEF StateFitsBuffer
  <2> QED
    BY <1>1, <2>1, <2>2
<1> QED
  BY <1>4, <1>5 DEF BufferInv

\* Both ways out of a read: buf is the buffer with n more bytes, whichever.
LEMMA MarkBuffer ==
    ASSUME BufferInv, slice # NoSlice, NEW n \in Nat, n =< slice,
           NEW buf \in Seq(Int), Len(buf) = Len(recv_buffer),
           \A i \in 1 .. current_offset : buf[i] = recv_buffer[i],
           pipe' \in Seq(Int), arrived' \in 0 .. Len(pipe'),
           mark_data_read(buf, n)
    PROVE  BufferInv'
<1>t. /\ Len(recv_buffer) \in Nat /\ current_offset \in Nat
      /\ current_offset =< Len(recv_buffer)
      /\ FrameRead(recv_buffer) \in Nat /\ HeaderLength < FrameRead(recv_buffer)
      /\ HeaderLength \in Nat /\ HeaderLength > 0
  BY BufferSizes
<1>1. PICK o \in Nat : o = current_offset + n
  BY <1>t
<1>2. /\ recv_buffer' = buf /\ current_offset' = o /\ slice' = NoSlice
      /\ UNCHANGED <<sent, delivered, short>>
      /\ state' = StateAfter(buf, o)
  BY <1>1 DEF mark_data_read
<1>3. slice = Len(recv_buffer) - current_offset
  BY DEF BufferInv, StateFitsBuffer
<1>4. o =< Len(recv_buffer)
  BY <1>1, <1>3, <1>t
<1>5. FrameRead(buf) \in Nat /\ HeaderLength < FrameRead(buf)
  BY <1>t, LengthRead DEF FrameRead
<1>6. StateFitsBuffer'
  <2>1. CASE state = "WaitingForHeaderRead"
    <3>1. Len(recv_buffer) = HeaderLength /\ o =< HeaderLength
      BY <1>4, <2>1 DEF BufferInv, StateFitsBuffer, NoSlice
    <3>2. CASE o >= HeaderLength
      <4>1. state' = "WaitingForContents" /\ o = HeaderLength
        BY <1>2, <2>1, <3>1, <3>2, <1>t DEF StateAfter
      <4>2. HeaderLength =< o /\ o < FrameRead(buf)
        BY <4>1, <1>5, <1>t
      <4> QED
        BY <1>2, <4>1, <4>2 DEF StateFitsBuffer
    <3>3. CASE ~(o >= HeaderLength)
      <4>1. state' = "WaitingForHeader" /\ o < HeaderLength
        BY <1>2, <2>1, <3>3, <1>t DEF StateAfter
      <4> QED
        BY <1>2, <4>1 DEF StateFitsBuffer
    <3> QED
      BY <3>2, <3>3
  <2>2. CASE state # "WaitingForHeaderRead"
    <3>1. /\ HeaderLength =< current_offset
          /\ Len(recv_buffer) = FrameRead(recv_buffer)
      BY <2>2 DEF BufferInv, StateFitsBuffer, NoSlice
    <3>2. \A i \in 1 .. HeaderLength : buf[i] = recv_buffer[i]
      BY <3>1, <1>t
    <3>3. FrameRead(buf) = FrameRead(recv_buffer)
      BY <3>1, <3>2, <1>t, LengthOfSameHeader DEF FrameRead
    <3>4. HeaderLength =< o /\ o =< FrameRead(buf) /\ Len(buf) = FrameRead(buf)
      BY <1>1, <1>4, <3>1, <3>3, <1>t
    <3>5. state' = IF o >= FrameRead(buf) THEN "WaitingForExtract"
                   ELSE "WaitingForContents"
      BY <1>2, <2>2 DEF StateAfter, FrameRead
    <3>6. CASE o >= FrameRead(buf)
      <4>1. o = FrameRead(buf) /\ state' = "WaitingForExtract"
        BY <3>4, <3>5, <3>6, <1>5
      <4> QED
        BY <1>2, <3>4, <4>1 DEF StateFitsBuffer
    <3>7. CASE ~(o >= FrameRead(buf))
      <4>1. o < FrameRead(buf) /\ state' = "WaitingForContents"
        BY <3>5, <3>7, <1>5
      <4> QED
        BY <1>2, <3>4, <4>1 DEF StateFitsBuffer
    <3> QED
      BY <3>6, <3>7
  <2> QED
    BY <2>1, <2>2
<1>7. TypeOK'
  <2>1. state' \in State
    BY <1>6 DEF StateFitsBuffer, State
  <2>2. o \in 0 .. Len(buf)
    BY <1>4
  <2> QED
    BY <1>2, <2>1, <2>2 DEF BufferInv, TypeOK
<1> QED
  BY <1>6, <1>7 DEF BufferInv

LEMMA ReadBuffer ==
    ASSUME BufferInv, NEW n \in 0 .. arrived, Read(n)
    PROVE  BufferInv'
<1>t. /\ Len(recv_buffer) \in Nat /\ Len(pipe) \in Nat /\ current_offset \in Nat
      /\ current_offset =< Len(recv_buffer)
      /\ arrived \in Nat /\ arrived =< Len(pipe)
  BY BufferSizes
<1>1. PICK p \in Nat, o \in Nat, l \in Nat :
        /\ p = Len(pipe) /\ o = current_offset /\ l = Len(recv_buffer)
        /\ DOMAIN recv_buffer = 1 .. l
  BY <1>t, LenProperties DEF BufferInv, TypeOK
<1>2. n \in Nat /\ slice # NoSlice /\ n =< slice /\ n =< p
  BY <1>t, <1>1 DEF Read, Readable
<1>3. \A i \in 1 .. p : pipe[i] \in Int
  BY <1>1, ElementOfSeq DEF BufferInv, TypeOK
<1>4. pipe' \in Seq(Int) /\ arrived' \in 0 .. Len(pipe')
  <2> DEFINE m == n + 1
  <2>1. pipe' = SubSeq(pipe, m, p) /\ arrived' = arrived - n
    BY <1>1 DEF Read
  <2>2. m \in Int /\ p \in Int /\ \A i \in m .. p : pipe[i] \in Int
    BY <1>2, <1>3
  <2>3. p - m + 1 = p - n /\ (~(m <= p) => p - n = 0)
    BY <1>2 DEF m
  <2> HIDE DEF m
  <2>4. /\ pipe' \in Seq(Int)
        /\ Len(pipe') = IF m <= p THEN p - m + 1 ELSE 0
    BY <2>1, <2>2, SubSeqProperties
  <2>5. Len(pipe') = p - n
    BY <2>3, <2>4
  <2>6. arrived - n \in 0 .. p - n
    BY <1>1, <1>2, <1>t DEF Read, Readable
  <2> QED
    BY <2>1, <2>4, <2>5, <2>6
<1>5. /\ Filled(n) \in Seq(Int) /\ Len(Filled(n)) = l
      /\ \A i \in 1 .. o : Filled(n)[i] = recv_buffer[i]
  <2>1. \A i \in 1 .. l : recv_buffer[i] \in Int
    BY <1>1, ElementOfSeq DEF BufferInv, TypeOK
  <2>2. \A i \in o + 1 .. o + n : i - o \in 1 .. p
    BY <1>2
  <2>3. Filled(n) = [i \in 1 .. l |-> IF i \in o + 1 .. o + n THEN pipe[i - o]
                                      ELSE recv_buffer[i]]
    BY <1>1 DEF Filled
  <2>4. Filled(n) \in [1 .. l -> Int]
    BY <1>3, <2>1, <2>2, <2>3
  <2>5. \A i \in 1 .. o : i \in 1 .. l /\ ~(i \in o + 1 .. o + n)
    BY <1>1, <1>t
  <2> QED
    BY <2>3, <2>4, <2>5, FunctionIsSequence
<1>6. mark_data_read(Filled(n), n)
  BY DEF Read
<1> QED
  BY <1>1, <1>2, <1>4, <1>5, <1>6, MarkBuffer

LEMMA WouldBlockBuffer == ASSUME BufferInv, WouldBlock PROVE BufferInv'
<1>1. /\ slice # NoSlice /\ pipe' = pipe /\ arrived' = arrived
      /\ mark_data_read(recv_buffer, 0)
  BY DEF WouldBlock
<1>2. slice \in Nat
  BY <1>1 DEF BufferInv, TypeOK
<1>3. recv_buffer \in Seq(Int) /\ pipe' \in Seq(Int) /\ arrived' \in 0 .. Len(pipe')
  BY <1>1 DEF BufferInv, TypeOK
<1> QED
  BY <1>1, <1>2, <1>3, MarkBuffer

LEMMA extract_archiveBuffer == ASSUME BufferInv, extract_archive PROVE BufferInv'
<1>t. /\ Len(recv_buffer) \in Nat /\ current_offset \in Nat
      /\ FrameRead(recv_buffer) \in Nat /\ HeaderLength < FrameRead(recv_buffer)
      /\ HeaderLength \in Nat /\ HeaderLength > 0
  BY BufferSizes
<1> DEFINE end == FrameRead(recv_buffer)
           buf == Resized(recv_buffer, end)
           out == SubSeq(buf, HeaderLength + 1, end)
<1>1. current_offset = end /\ slice = NoSlice
  BY DEF extract_archive, BufferInv, StateFitsBuffer
<1>2. /\ recv_buffer' = buf /\ delivered' = Append(delivered, out)
      /\ current_offset' = current_offset - end
      /\ state' = IF current_offset' > HeaderLength THEN "WaitingForContents"
                  ELSE "WaitingForHeader"
      /\ UNCHANGED <<sent, pipe, arrived, slice, short>>
  BY DEF extract_archive, FrameRead
<1>3. current_offset' = 0 /\ state' = "WaitingForHeader"
  BY <1>1, <1>2, <1>t
<1>4. buf \in Seq(Int) /\ Len(buf) = end
  BY <1>t, ResizedProperties DEF BufferInv, TypeOK
<1> HIDE DEF buf
<1>5. out \in Seq(Int)
  <2>1. \A i \in HeaderLength + 1 .. end : buf[i] \in Int
    <3>1. \A i \in 1 .. end : buf[i] \in Int
      BY <1>4, ElementOfSeq
    <3> QED
      BY <3>1, <1>t
  <2>2. HeaderLength + 1 \in Int /\ end \in Int
    BY <1>t
  <2> QED
    BY <2>1, <2>2, SubSeqProperties
<1> HIDE DEF out
<1>6. delivered' \in Seq(Seq(Int))
  BY <1>2, <1>5, AppendProperties DEF BufferInv, TypeOK
<1>7. 0 \in 0 .. Len(recv_buffer') /\ recv_buffer' \in Seq(Int)
  BY <1>2, <1>4, LenProperties
<1>8. TypeOK'
  BY <1>2, <1>3, <1>6, <1>7 DEF BufferInv, TypeOK, State
<1>9. StateFitsBuffer'
  BY <1>1, <1>2, <1>3, <1>t DEF StateFitsBuffer
<1> QED
  BY <1>8, <1>9 DEF BufferInv

-----------------------------------------------------------------------------

IInv == BufferInv /\ (~short => StreamInv)

LEMMA InitIInv == Init => IInv
<1> SUFFICES ASSUME Init PROVE IInv
  OBVIOUS
<1>1. StreamInv
  BY InitStep
<1>2. StateFitsBuffer
  BY StartFacts DEF Init, StateFitsBuffer
<1> QED
  BY <1>1, <1>2 DEF IInv, BufferInv, StreamInv

LEMMA NextIInv == IInv /\ [Next]_vars => IInv'
<1> SUFFICES ASSUME IInv, [Next]_vars PROVE IInv'
  OBVIOUS
<1>1. BufferInv
  BY DEF IInv
<1>2. BufferInv'
  <2>1. ASSUME NEW k \in 0 .. Count, Send(k) PROVE BufferInv'
    BY <1>1, <2>1, SendBuffer
  <2>2. CASE Arrive
    BY <1>1, <2>2, ArriveBuffer
  <2>3. CASE Receive
    BY <1>1, <2>3, next_read_bufferBuffer, ReadBuffer, WouldBlockBuffer,
       extract_archiveBuffer DEF Receive
  <2>4. CASE UNCHANGED vars
    BY <1>1, <2>4 DEF vars, BufferInv, TypeOK, StateFitsBuffer
  <2> QED
    BY <2>1, <2>2, <2>3, <2>4 DEF Next
<1>3. ASSUME ~short' PROVE StreamInv'
  <2>1. ~short
    BY <1>3 DEF Next, Send, Arrive, Receive, next_read_buffer, Read, WouldBlock,
                extract_archive, mark_data_read, vars
  <2> QED
    BY <1>3, <2>1, StreamStep DEF IInv
<1> QED
  BY <1>2, <1>3 DEF IInv

THEOREM Inductive == Spec => []IInv
<1> QED
  BY InitIInv, NextIInv, PTL DEF Spec

-----------------------------------------------------------------------------
(* What the runs check.                                                    *)

\* The variables keep their types, also when writes are short and the processor
\* reads headers where there are none; in particular the offset never leaves the
\* buffer.
THEOREM TypeCorrect == Spec => []TypeOK
<1>1. IInv => TypeOK
  BY DEF IInv, BufferInv
<1> QED
  BY <1>1, Inductive, PTL

\* For any lengths of packets, any cuts of the stream and any short writes, the
\* assertions of the processor hold: it never reads short of or beyond the frame
\* that the header in its buffer speaks of.
THEOREM AssertionsAlwaysHold == Spec => []AssertionsHold
<1>1. ASSUME IInv PROVE AssertionsHold
  BY <1>1, BufferSizes DEF IInv, BufferInv, StateFitsBuffer, FrameRead, AssertionsHold
<1> QED
  BY <1>1, Inductive, PTL

\* Until a write is short, no byte of a frame is lost, repeated or out of place
\* between the write and the delivery of its packet.
THEOREM NothingIsLost == Spec => []NothingLost
<1>1. ASSUME StreamInv PROVE NothingLost
  <2>t. Sizes
    BY <1>1, InvariantSizes
  <2>1. PICK a \in Nat, t \in Nat, o \in Nat, p \in Nat :
          /\ a = Start[Done] /\ t = Start[sent]
          /\ o = current_offset /\ p = Len(pipe)
    BY <2>t DEF Sizes
  <2>2. p = t - a - o /\ o =< Len(recv_buffer)
    BY <2>1, <2>t DEF Sizes
  <2> DEFINE held == SubSeq(recv_buffer, 1, o)
             all == Bytes(a, t - a)
  <2>3. /\ held \in Seq(Int) /\ Len(held) = o
        /\ \A i \in 1 .. o : held[i] = a + i - 1
    <3>1. \A i \in 1 .. o : recv_buffer[i] = a + i - 1
      BY <1>1, <2>1 DEF StreamInv, BufferContinues
    <3>2. \A i \in 1 .. o : recv_buffer[i] \in Int
      BY <3>1
    <3>3. /\ held \in Seq(Int)
          /\ Len(held) = IF 1 <= o THEN o - 1 + 1 ELSE 0
          /\ \A i \in 1 .. o - 1 + 1 : held[i] = recv_buffer[1 + i - 1]
      BY <3>2, SubSeqProperties
    <3>4. o - 1 + 1 = o /\ (~(1 <= o) => o = 0)
          /\ \A i \in 1 .. o : 1 + i - 1 = i
      OBVIOUS
    <3> QED
      BY <3>1, <3>3, <3>4
  <2>4. /\ pipe \in Seq(Int) /\ Len(pipe) = p
        /\ \A i \in 1 .. p : pipe[i] = a + o + i - 1
    BY <1>1, <2>1 DEF StreamInv, TypeOK, PipeContinues
  <2>5. /\ all \in Seq(Int) /\ Len(all) = t - a
        /\ \A i \in 1 .. t - a : all[i] = a + i - 1
    <3>1. t - a \in Nat /\ a \in Int
      BY <2>2
    <3> QED
      BY <3>1, BytesProperties
  <2> HIDE DEF held, all
  <2>6. /\ held \o pipe \in Seq(Int)
        /\ Len(held \o pipe) = Len(held) + Len(pipe)
        /\ \A i \in 1 .. Len(held) + Len(pipe) : (held \o pipe)[i] =
              IF i <= Len(held) THEN held[i] ELSE pipe[i - Len(held)]
    BY <2>3, <2>4, ConcatProperties
  <2>7. ASSUME NEW i \in 1 .. o + p PROVE (held \o pipe)[i] = all[i]
    <3>1. (held \o pipe)[i] = IF i <= o THEN held[i] ELSE pipe[i - o]
      BY <2>3, <2>4, <2>6
    <3>2. i \in 1 .. t - a
      BY <2>2
    <3>3. all[i] = a + i - 1
      BY <2>5, <3>2
    <3>4. CASE i <= o
      BY <2>3, <3>1, <3>3, <3>4
    <3>5. CASE ~(i <= o)
      <4>1. i - o \in 1 .. p
        BY <3>5
      <4>2. pipe[i - o] = a + o + (i - o) - 1
        BY <2>4, <4>1
      <4> QED
        BY <3>1, <3>3, <3>5, <4>2
    <3> QED
      BY <3>4, <3>5
  <2>8. Len(held \o pipe) = o + p /\ o + p = t - a
    BY <2>2, <2>3, <2>4, <2>6
  <2>9. held \o pipe = all
    BY <2>5, <2>6, <2>7, <2>8, SeqEqual
  <2> QED
    BY <2>1, <2>9 DEF NothingLost, Done, held, all
<1>2. IInv => NothingLost
  BY <1>1 DEF IInv, NothingLost
<1> QED
  BY <1>2, Inductive, PTL

-----------------------------------------------------------------------------
(* The queue.                                                              *)

Messages(n) == [i \in 1 .. n |-> Contents(i)]

LEMMA MessagesProperties ==
    ASSUME NEW n \in 0 .. Count
    PROVE  /\ Messages(n) \in Seq(Seq(Int)) /\ Len(Messages(n)) = n
           /\ \A i \in 1 .. n : Messages(n)[i] = Contents(i)
<1>1. ASSUME NEW i \in 1 .. n PROVE Contents(i) \in Seq(Int)
  <2>1. i - 1 \in 0 .. Count - 1 /\ (i - 1) + 1 = i
    BY StartFacts
  <2>2. Contents((i - 1) + 1) \in Seq(Int)
    BY <2>1, ContentsProperties
  <2> QED
    BY <2>1, <2>2
<1>2. Messages(n) \in [1 .. n -> Seq(Int)] /\ n \in Nat
  BY <1>1, StartFacts DEF Messages
<1> QED
  BY <1>2, FunctionIsSequence DEF Messages

LEMMA QueueStep ==
    ASSUME StreamInv, [Next]_vars
    PROVE  [Queue!Next]_(Queue!vars)
<1>t. Sizes
  BY InvariantSizes
<1>1. sent \in 0 .. Count
  BY <1>t DEF Sizes
<1>2. ASSUME NEW k \in 0 .. Count, Send(k) PROVE Queue!Put
  <2>1. sent' = k /\ UNCHANGED delivered /\ k > sent
    BY <1>2 DEF Send
  <2>2. Len(Messages(k)) > Len(Messages(sent))
    BY <1>1, <2>1, MessagesProperties
  <2>3. \A i \in 1 .. Len(Messages(sent)) : Messages(k)[i] = Messages(sent)[i]
    <3> SUFFICES ASSUME NEW i \in 1 .. Len(Messages(sent))
                 PROVE  Messages(k)[i] = Messages(sent)[i]
      OBVIOUS
    <3>1. i \in 1 .. sent
      BY <1>1, MessagesProperties
    <3>2. i \in 1 .. k
      BY <2>1, <3>1, <1>t DEF Sizes
    <3> QED
      BY <1>1, <3>1, <3>2, MessagesProperties
  <2> QED
    BY <2>1, <2>2, <2>3 DEF Queue!Put, Messages, Contents
<1>3. CASE extract_archive
  <2>1. /\ Done < sent /\ UNCHANGED sent
        /\ delivered' = Append(delivered, Contents(Done + 1))
    BY <1>3, ExtractsNext DEF extract_archive
  <2>2. Len(Messages(sent)) = sent
    BY <1>1, MessagesProperties
  <2>3. Messages(sent)[Done + 1] = Contents(Done + 1)
    <3>1. Done + 1 \in 1 .. sent
      BY <2>1, <1>t DEF Sizes
    <3> QED
      BY <1>1, <3>1, MessagesProperties
  <2>4. Queue!Get
    BY <2>1, <2>2, <2>3 DEF Queue!Get, Messages, Done, Contents
  <2> QED
    BY <2>4 DEF Queue!Next
<1>4. CASE Arrive \/ next_read_buffer \/ WouldBlock
           \/ (\E n \in 0 .. arrived : Read(n)) \/ UNCHANGED vars
  <2>1. UNCHANGED <<sent, delivered>>
    BY <1>4 DEF Arrive, next_read_buffer, WouldBlock, Read, mark_data_read, vars
  <2> QED
    BY <2>1 DEF Queue!vars, Contents
<1> QED
  BY <1>2, <1>3, <1>4 DEF Next, Receive, Queue!Next

\* The framing implements a queue of messages, for any packets and any cuts of
\* the stream, in all its steps up to the first write that is short.
THEOREM FramingImplementsQueue == Spec => ImplementsQueue
<1>1. Init => Queue!Init
  <2> SUFFICES ASSUME Init PROVE Queue!Init
    OBVIOUS
  <2>1. Messages(0) = <<>>
    <3>1. 0 \in 0 .. Count
      BY StartFacts
    <3>2. Messages(0) \in Seq(Seq(Int)) /\ Len(Messages(0)) = 0
      BY <3>1, MessagesProperties
    <3> QED
      BY <3>2, EmptySeq
  <2> QED
    BY <2>1 DEF Init, Queue!Init, Messages
<1>2. IInv /\ [Next]_vars => [~short' => [Queue!Next]_(Queue!vars)]_vars
  <2> SUFFICES ASSUME IInv, [Next]_vars, ~short' PROVE [Queue!Next]_(Queue!vars)
    OBVIOUS
  <2>1. ~short
    BY DEF Next, Send, Arrive, Receive, next_read_buffer, Read, WouldBlock,
           extract_archive, mark_data_read, vars
  <2> QED
    BY <2>1, QueueStep DEF IInv
<1> QED
  BY <1>1, <1>2, Inductive, PTL DEF Spec, ImplementsQueue
==============================================================================

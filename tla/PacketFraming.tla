----------------------------- MODULE PacketFraming -----------------------------
(***************************************************************************)
(* Packets on a byte stream (helicoid-protocol, bridge_logic.rs, and the   *)
(* write of tcp_bridge_async.rs): a frame is a header, which holds the     *)
(* length of the contents, and the contents.  The receive processor reads  *)
(* frame by frame into one buffer, in pieces of whatever size the socket   *)
(* has, and remembers between calls how far it has come.                   *)
(*                                                                         *)
(* A byte is its position in the concatenation of all frames, so that a    *)
(* byte that is lost, repeated or out of place shows.  The 12 bytes of     *)
(* alignment before the header (PACKET_HEADER_ADJUST) are left out of the  *)
(* buffer.                                                                 *)
(***************************************************************************)
EXTENDS Integers, Sequences

CONSTANTS
    HeaderLength,   \* PACKET_HEADER_LENGTH
    Count,          \* the number of packets
    Start,          \* where the frame of each begins, and after the last
    Room,           \* the bytes the socket takes before a write is short
    Garbled         \* the length that bytes read as that are no header

ASSUME FramesAssumption ==
    /\ HeaderLength \in Nat \ {0}
    /\ Count \in Nat
    /\ Start \in [0 .. Count -> Nat]
    /\ Start[0] = 0
    \* No archive is empty.
    /\ \A j, k \in 0 .. Count : j < k => Start[j] + HeaderLength < Start[k]

ASSUME SocketAssumption == Room \in Nat \ {0} /\ Garbled \in Nat \ {0}

VARIABLES
    sent,           \* the number of packets written
    pipe,           \* the bytes between the two sockets
    arrived,        \* how many of them are at the receiving one
    state,          \* TcpBridgeReceiveProcessor::state
    current_offset,
    recv_buffer,
    slice,          \* the length of the slice next_read_buffer handed out
    delivered,      \* what extract_archive has returned
    short           \* history: whether a write has been short

vars == <<sent, pipe, arrived, state, current_offset, recv_buffer, slice, delivered, short>>

State == {"WaitingForHeader", "WaitingForHeaderRead", "WaitingForContents",
          "WaitingForContentsRead", "WaitingForExtract"}
NoSlice == -1
Fill == -1      \* what resize puts in

TypeOK ==
    /\ sent \in 0 .. Count
    /\ pipe \in Seq(Int)
    /\ arrived \in 0 .. Len(pipe)
    /\ state \in State
    /\ recv_buffer \in Seq(Int)
    /\ current_offset \in 0 .. Len(recv_buffer)
    /\ slice \in Nat \cup {NoSlice}
    /\ delivered \in Seq(Seq(Int))
    /\ short \in BOOLEAN

Init ==
    /\ sent = 0
    /\ pipe = <<>>
    /\ arrived = 0
    /\ state = "WaitingForHeader"
    /\ current_offset = 0
    /\ recv_buffer = <<>>
    /\ slice = NoSlice
    /\ delivered = <<>>
    /\ short = FALSE

-----------------------------------------------------------------------------
(* The sender.                                                             *)

Bytes(from, n) == [i \in 1 .. n |-> from + i - 1]

Size(k) == Start[k] - Start[sent]

\* One write of the frames up to packet k.  The socket takes what it has
\* room for, and the code does not look at how much that was.
Written(k) ==
    LET free == Room - Len(pipe) IN IF Size(k) =< free THEN Size(k) ELSE free

Send(k) ==
    /\ k > sent
    /\ Written(k) > 0
    /\ pipe' = pipe \o Bytes(Start[sent], Written(k))
    /\ sent' = k
    /\ short' = (short \/ Written(k) < Size(k))
    /\ UNCHANGED <<arrived, state, current_offset, recv_buffer, slice, delivered>>

\* The network, which cuts the stream where it likes.
Arrive ==
    /\ arrived' \in arrived + 1 .. Len(pipe)
    /\ UNCHANGED <<sent, pipe, state, current_offset, recv_buffer, slice, delivered, short>>

-----------------------------------------------------------------------------
(* The receive processor.                                                  *)

\* Mutant: the buffer is cleared before it is resized.
Resized_Clears(buf, n) == [i \in 1 .. n |-> Fill]

Resized(buf, n) == [i \in 1 .. n |-> IF i =< Len(buf) THEN buf[i] ELSE Fill]

IsHeaderOf(buf, k) ==
    \A i \in 1 .. HeaderLength : i =< Len(buf) /\ buf[i] = Start[k] + i - 1

packet_length(buf) ==
    IF \E k \in 0 .. Count - 1 : IsHeaderOf(buf, k)
    THEN LET k == CHOOSE k \in 0 .. Count - 1 : IsHeaderOf(buf, k)
         IN  Start[k + 1] - Start[k] - HeaderLength
    ELSE Garbled

next_read_buffer ==
    /\ slice = NoSlice
    /\ \/ /\ state = "WaitingForHeader"
          /\ state' = "WaitingForHeaderRead"
          /\ recv_buffer' = Resized(recv_buffer, HeaderLength)
       \/ /\ state = "WaitingForContents"
          /\ state' = "WaitingForContentsRead"
          /\ recv_buffer' = Resized(recv_buffer,
                                    HeaderLength + packet_length(recv_buffer))
    /\ slice' = Len(recv_buffer') - current_offset
    /\ UNCHANGED <<sent, pipe, arrived, current_offset, delivered, short>>

\* Mutant: the contents are complete one byte later.
StateAfter_OneLater(buf, offset) ==
    IF state = "WaitingForHeaderRead"
    THEN IF offset >= HeaderLength THEN "WaitingForContents"
         ELSE "WaitingForHeader"
    ELSE IF offset > HeaderLength + packet_length(buf) THEN "WaitingForExtract"
         ELSE "WaitingForContents"

\* Mutant: the header is complete one byte later.
StateAfter_HeaderLater(buf, offset) ==
    IF state = "WaitingForHeaderRead"
    THEN IF offset > HeaderLength THEN "WaitingForContents"
         ELSE "WaitingForHeader"
    ELSE IF offset >= HeaderLength + packet_length(buf) THEN "WaitingForExtract"
         ELSE "WaitingForContents"

StateAfter(buf, offset) ==
    IF state = "WaitingForHeaderRead"
    THEN IF offset >= HeaderLength THEN "WaitingForContents"
         ELSE "WaitingForHeader"
    ELSE IF offset >= HeaderLength + packet_length(buf) THEN "WaitingForExtract"
         ELSE "WaitingForContents"

mark_data_read(buf, n) ==
    /\ recv_buffer' = buf
    /\ current_offset' = current_offset + n
    /\ state' = StateAfter(buf, current_offset + n)
    /\ slice' = NoSlice
    /\ UNCHANGED <<sent, delivered, short>>

\* Mutant: every read starts at the beginning of the buffer.
Filled_FromStart(n) ==
    [i \in DOMAIN recv_buffer |-> IF i \in 1 .. n THEN pipe[i]
                                  ELSE recv_buffer[i]]

\* The buffer with n bytes read into the slice.
Filled(n) ==
    [i \in DOMAIN recv_buffer |->
        IF i \in current_offset + 1 .. current_offset + n
        THEN pipe[i - current_offset] ELSE recv_buffer[i]]

\* try_read into the slice: at least a byte unless the slice is empty.
Readable(n) ==
    /\ n =< slice
    /\ n =< arrived
    /\ n = 0 => slice = 0

Read(n) ==
    /\ slice # NoSlice
    /\ Readable(n)
    /\ pipe' = SubSeq(pipe, n + 1, Len(pipe))
    /\ arrived' = arrived - n
    /\ mark_data_read(Filled(n), n)

WouldBlock ==
    /\ slice # NoSlice
    /\ arrived = 0
    /\ mark_data_read(recv_buffer, 0)
    /\ UNCHANGED <<pipe, arrived>>

\* The buffer is cut to the frame before what was read beyond it would be
\* moved to the front, so the code is right only as there is nothing beyond
\* it (AssertionsHold), and the move is left out.
extract_archive ==
    /\ state = "WaitingForExtract"
    /\ LET end == HeaderLength + packet_length(recv_buffer)
       IN  /\ recv_buffer' = Resized(recv_buffer, end)
           /\ delivered' = Append(delivered,
                                  SubSeq(recv_buffer', HeaderLength + 1, end))
           /\ current_offset' = current_offset - end
    /\ state' = IF current_offset' > HeaderLength THEN "WaitingForContents"
                ELSE "WaitingForHeader"
    /\ UNCHANGED <<sent, pipe, arrived, slice, short>>

Receive ==
    \/ next_read_buffer
    \/ \E n \in 0 .. arrived : Read(n)
    \/ WouldBlock
    \/ extract_archive

Next ==
    \/ \E k \in 0 .. Count : Send(k)
    \/ Arrive
    \/ Receive

Spec == Init /\ [][Next]_vars

\* The network delivers what it took, and the task of the receiving end runs
\* again while there is something to read; nothing makes the sender write.
FairSpec == Spec /\ WF_vars(Arrive) /\ WF_vars(Receive)

-----------------------------------------------------------------------------
(* What the two bridges rely on.                                           *)

\* What the debug_asserts of the processor say of state, offset and buffer,
\* and what extract_archive takes for granted: whatever the bytes are, also
\* those that follow a short write, and whatever the sizes of the reads, none of
\* them is short of or beyond the part of the frame it is for.
AssertionsHold ==
    LET frame == HeaderLength + packet_length(recv_buffer)
    IN  /\ state \in {"WaitingForHeader", "WaitingForHeaderRead"}
              => current_offset < HeaderLength
        /\ state \in {"WaitingForContents", "WaitingForContentsRead"}
              => HeaderLength =< current_offset /\ current_offset < frame
        /\ state = "WaitingForExtract"
              => current_offset = frame /\ frame =< Len(recv_buffer)

\* Until a write is short: every byte of the frames that were written and not
\* yet delivered is in the buffer or between the sockets, once and in order, and
\* a partial read that is taken up again continues where it stopped.
NothingLost ==
    LET from == Start[Len(delivered)]
    IN  ~short => SubSeq(recv_buffer, 1, current_offset) \o pipe
                     = Bytes(from, Start[sent] - from)

\* The contents of packet i, counted from 1.
Contents(i) ==
    Bytes(Start[i - 1] + HeaderLength, Start[i] - Start[i - 1] - HeaderLength)

Queue == INSTANCE MessageQueue WITH
            sent <- [i \in 1 .. sent |-> Contents(i)],
            received <- delivered

\* Until a write is short the framing implements a queue of messages, in all its
\* steps: what extract_archive returns is what was serialised, message by
\* message, however the stream was cut.  The code assumes that a write takes the
\* whole frame; after one that does not, the bytes of two frames run into each
\* other.
ImplementsQueue == Queue!Init /\ [][~short' => [Queue!Next]_(Queue!vars)]_vars

\* A packet that was written is delivered, unless a write was short: no order of
\* partial reads and of reads that find nothing leaves the processor in a state
\* without a next read.
EverythingArrives == \A k \in 1 .. Count : sent = k ~> Len(delivered) >= k \/ short
==============================================================================

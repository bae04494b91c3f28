----------------------------- MODULE FrameReader ----------------------------
(***************************************************************************)
(* Reading WebSocket frames: receive_frame of the client transport         *)
(* (eebus_sdk/websocket.py) and of the server connection                   *)
(* (eebus_sdk/_websocket_server.py), which differ only in who limits the   *)
(* wait.                                                                   *)
(*                                                                         *)
(* A frame arrives in parts, each read by one readexactly that takes all   *)
(* of the part or nothing.  What is between two reads is in local          *)
(* variables of receive_frame: a timeout that ends it loses them, and the  *)
(* callers that go on after a timeout call it anew.                        *)
(***************************************************************************)
EXTENDS Integers, Sequences, FiniteSets, SequencesExt

CONSTANTS
    MaxMessages,    \* bound: data messages the peer sends
    MaxPings,       \* bound: pings and pongs it sends
    MaxPieces,      \* bound: frames of one message
    MaxTimeouts     \* bound: timeouts of the reader

ASSUME PiecesAssumption == MaxPieces \in Nat \ {0}

Parts == <<"head", "mask", "payload">>
NoFrame == [op |-> "none", fin |-> TRUE, id |-> <<0, 0>>]

VARIABLES
    transit,    \* parts under way
    wire,       \* parts that have arrived
    frame,      \* the frame being read, of which the head has been taken
    part,       \* the number of the part that is read next
    fragments,  \* ids of the pieces kept, fragment_opcode and fragments
    phase,      \* reading, failed with an exception, or out of step with the wire
    delivered,  \* the messages returned, each the ids of its pieces
    pongs,      \* the pings answered
    piece,      \* the peer: pieces sent of the running message, 0 if none
    sent,       \* history: the messages the peer began, as their pieces' ids
    timeouts, others,
    cut         \* history: a timeout hit within a frame

readerVars == <<transit, wire, frame, part, fragments, phase, delivered, pongs, piece, sent,
          timeouts, others, cut>>

ReaderInit ==
    /\ transit = <<>> /\ wire = <<>> /\ frame = NoFrame /\ part = 1 /\ fragments = <<>>
    /\ phase = "reading" /\ delivered = <<>> /\ pongs = <<>>
    /\ piece = 0 /\ sent = <<>>
    /\ timeouts = 0 /\ others = 0 /\ cut = FALSE

-----------------------------------------------------------------------------
\* The peer, as long as it is read: encode_frame of either side, one write per
\* frame.
Encoded(op, fin, id) ==
    [i \in 1 .. 3 |-> [part |-> Parts[i], frame |-> [op |-> op, fin |-> fin, id |-> id]]]

\* A message is sent whole, or as a first piece and continuations; piece p of
\* message m has the id <<m, p>>.
SendFirst(fin) ==
    /\ phase = "reading" /\ piece = 0 /\ Len(sent) < MaxMessages
    /\ LET id == <<Len(sent) + 1, 1>>
       IN  /\ transit' = transit \o Encoded("data", fin, id)
           /\ sent' = Append(sent, <<id>>)
    /\ piece' = IF fin THEN 0 ELSE 1
    /\ UNCHANGED <<wire, frame, part, fragments, phase, delivered, pongs, timeouts, others, cut>>

SendContinuation(fin) ==
    /\ phase = "reading" /\ piece > 0
    /\ fin \/ piece + 1 < MaxPieces
    /\ LET id == <<Len(sent), piece + 1>>
       IN  /\ transit' = transit \o Encoded("continuation", fin, id)
           /\ sent' = [sent EXCEPT ![Len(sent)] = Append(@, id)]
    /\ piece' = IF fin THEN 0 ELSE piece + 1
    /\ UNCHANGED <<wire, frame, part, fragments, phase, delivered, pongs, timeouts, others, cut>>

\* Control frames may come between the pieces of a message.
SendOther(op) ==
    /\ phase = "reading" /\ others < MaxPings
    /\ others' = others + 1
    /\ transit' = transit \o Encoded(op, TRUE, <<0, others + 1>>)
    /\ UNCHANGED <<wire, frame, part, fragments, phase, delivered, pongs, piece, sent, timeouts, cut>>

\* TCP delivers the bytes in order, in portions of any size.
Arrive ==
    /\ transit # <<>>
    /\ wire' = Append(wire, Head(transit))
    /\ transit' = Tail(transit)
    /\ UNCHANGED <<frame, part, fragments, phase, delivered, pongs, piece, sent,
                   timeouts, others, cut>>

-----------------------------------------------------------------------------
\* The reader.

\* The head and the mask of a frame.
ReadPart ==
    /\ phase = "reading" /\ part < 3 /\ ~cut
    /\ wire # <<>>
    /\ wire' = Tail(wire)
    /\ frame' = IF part = 1 THEN Head(wire).frame ELSE frame
    /\ part' = part + 1
    /\ UNCHANGED <<transit, fragments, phase, delivered, pongs, piece, sent, timeouts, others, cut>>

\* Bytes taken for a frame they are not are any frame at all: an error, or
\* something returned.  Nothing is said of what is read after that.
ReadGarbage ==
    /\ phase = "reading" /\ cut
    /\ wire # <<>>
    /\ wire' = Tail(wire)
    /\ \/ phase' = "failed" /\ UNCHANGED delivered
       \/ phase' = "garbled" /\ delivered' = Append(delivered, <<0>>)
    /\ UNCHANGED <<transit, frame, part, fragments, pongs, piece, sent, timeouts, others, cut>>

\* Fault: a control frame ends the message it comes between, and what continues
\* nothing is skipped.
ReadPayloadForgetting ==
    /\ phase = "reading" /\ part = 3 /\ ~cut
    /\ wire # <<>>
    /\ wire' = Tail(wire)
    /\ frame' = NoFrame /\ part' = 1
    /\ LET kept == IF frame.op = "data" THEN <<>> ELSE fragments
           skipped == frame.op # "data" /\ (frame.op # "continuation" \/ fragments = <<>>)
       IN  /\ pongs' = IF frame.op = "ping" THEN Append(pongs, frame.id) ELSE pongs
           /\ delivered' = IF skipped \/ ~frame.fin THEN delivered
                           ELSE Append(delivered, Append(kept, frame.id))
           /\ fragments' = IF skipped \/ frame.fin THEN <<>> ELSE Append(kept, frame.id)
    /\ UNCHANGED <<transit, phase, piece, sent, timeouts, others, cut>>

\* The last part: a ping is answered, a pong skipped, a piece kept, and the
\* last piece ends the message.  A first piece forgets what was kept; a
\* continuation of nothing is an error.
ReadPayload ==
    /\ phase = "reading" /\ part = 3 /\ ~cut
    /\ wire # <<>>
    /\ wire' = Tail(wire)
    /\ frame' = NoFrame /\ part' = 1
    /\ LET kept == IF frame.op = "data" THEN <<>> ELSE fragments
           orphan == frame.op = "continuation" /\ fragments = <<>>
           ends == frame.op \in {"data", "continuation"} /\ frame.fin /\ ~orphan
       IN  /\ phase' = IF orphan THEN "failed" ELSE "reading"
           /\ pongs' = IF frame.op = "ping" THEN Append(pongs, frame.id) ELSE pongs
           /\ delivered' = IF ends THEN Append(delivered, Append(kept, frame.id)) ELSE delivered
           /\ fragments' = IF frame.op \in {"ping", "pong"} THEN fragments
                           ELSE IF frame.fin \/ orphan THEN <<>> ELSE Append(kept, frame.id)
    /\ UNCHANGED <<transit, piece, sent, timeouts, others, cut>>

\* The wait for the next part times out, and the caller reads on: events() and
\* the pending hello of ShipSession, the wait_for loops of the server.
Timeout ==
    /\ phase = "reading" /\ wire = <<>> /\ timeouts < MaxTimeouts
    /\ timeouts' = timeouts + 1
    /\ cut' = (cut \/ part > 1)
    /\ frame' = NoFrame /\ part' = 1 /\ fragments' = <<>>
    /\ UNCHANGED <<transit, wire, phase, delivered, pongs, piece, sent, others>>

ReadMore == ReadPart \/ ReadPayload \/ ReadGarbage

ReaderNext ==
    \/ \E fin \in BOOLEAN : SendFirst(fin) \/ SendContinuation(fin)
    \/ \E op \in {"ping", "pong"} : SendOther(op)
    \/ Arrive
    \/ ReadMore
    \/ Timeout

ReaderSpec == ReaderInit /\ [][ReaderNext]_readerVars

\* The network delivers and the reader is scheduled.
FairReaderSpec == ReaderSpec /\ WF_readerVars(Arrive) /\ WF_readerVars(ReadMore)
-----------------------------------------------------------------------------
\* The types; and unless a frame was cut, the reader is where the wire is.
ReaderTypeOK ==
    /\ part \in 1 .. 3 /\ phase \in {"reading", "failed", "garbled"}
    /\ cut \in BOOLEAN /\ piece \in 0 .. MaxPieces
    /\ ~cut /\ phase = "reading" /\ wire # <<>> =>
           /\ Head(wire).part = Parts[part]
           /\ part > 1 => Head(wire).frame = frame

\* The messages the peer has sent to their last piece.
Complete == IF piece = 0 THEN sent ELSE Front(sent)

\* Messages are returned whole, once, and in the order they were sent, however
\* control frames come between their pieces and however often the wait for a
\* new frame times out.  Only a timeout within a frame breaks this.
FramesIntact == ~cut => IsPrefix(delivered, Complete)

\* Every complete message is returned, unless a timeout interrupted one.
EveryMessageIsDelivered ==
    \A n \in 1 .. MaxMessages :
        Len(Complete) >= n ~> Len(delivered) >= n \/ cut \/ phase # "reading"
=============================================================================

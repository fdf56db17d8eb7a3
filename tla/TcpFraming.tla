----------------------------- MODULE TcpFraming -----------------------------
(***************************************************************************)
(* Frames over one direction of a TCP connection (src/src/tcp_transport.rs *)
(* PendingWrites and ConnState): a length of two bytes and the payload,    *)
(* queued whole, written as far as the kernel takes it, read as it comes   *)
(* and assembled again.                                                    *)
(***************************************************************************)
EXTENDS Bytes, SequencesExt

CONSTANTS
    Payload,        \* the frames send_to is called with
    LIMIT,          \* MAX_PENDING_WRITE_BYTES
    WireCapacity,   \* what the kernel buffers of the connection hold
    MaxAccepted     \* bound on the frames accepted

ASSUME FramingAssumption ==
    Payload \subseteq Seq(Byte) /\ {LIMIT, WireCapacity, MaxAccepted} \subseteq Nat

U16MAX == ByteBase * ByteBase - 1

VARIABLES
    bytes, offset,  \* PendingWrites
    wire,           \* bytes the kernel has accepted and the reader not yet read
    read_buf,       \* ConnState of the reader
    closed,         \* the writer has closed the connection, or it was reset
    accepted, delivered, open

framingVars == <<bytes, offset, wire, read_buf, closed, accepted, delivered, open>>

FramingInit ==
    /\ bytes = <<>> /\ offset = 0
    /\ wire = <<>> /\ read_buf = <<>>
    /\ accepted = <<>> /\ delivered = <<>>
    /\ open = TRUE /\ closed = FALSE

encoded(frame) == to_be_bytes(Len(frame), 2) \o frame

pending_len(q) == Len(q.bytes) - q.offset

\* compact
compact(q) == [bytes |-> SubSeq(q.bytes, q.offset + 1, Len(q.bytes)), offset |-> 0]

\* enqueue_frame: a frame that is too long or does not fit is refused whole.
Fits(q, frame) == pending_len(q) + Len(encoded(frame)) <= LIMIT

\* Mutant of enqueue_frame: as much of the frame as fits.
enqueue_frame_partly(q, frame) ==
    LET c == compact(q)
    IN  [c EXCEPT !.bytes = c.bytes \o SubSeq(encoded(frame), 1,
            IF Fits(q, frame) THEN Len(encoded(frame)) ELSE LIMIT - Len(c.bytes))]

enqueue_frame(q, frame) ==
    LET c == compact(q)
    IN  IF Fits(q, frame) THEN [c EXCEPT !.bytes = c.bytes \o encoded(frame)] ELSE q

\* flush_to, when the kernel takes k more bytes before it would block.
flush_to(q, k) ==
    IF q.offset + k = Len(q.bytes) THEN [bytes |-> <<>>, offset |-> 0]
    ELSE [q EXCEPT !.offset = q.offset + k]

Written(q, k) == SubSeq(q.bytes, q.offset + 1, q.offset + k)

\* What the kernel may take of a queue when `buffered' is already in its buffers.
Takes(q, buffered) ==
    {k \in 0 .. pending_len(q) : Len(buffered) + k <= WireCapacity}

Queue == [bytes |-> bytes, offset |-> offset]

SetQueue(q) == bytes' = q.bytes /\ offset' = q.offset

\* queue_frame under the lock of the connection: flush, enqueue, flush.
queue_frame ==
    /\ open /\ ~closed
    /\ Len(accepted) < MaxAccepted
    /\ \E frame \in Payload : \E k \in Takes(Queue, wire) :
          LET flushed == flush_to(Queue, k)
              sent == wire \o Written(Queue, k)
              ok == Len(frame) <= U16MAX /\ Fits(flushed, frame)
              queued == IF Len(frame) <= U16MAX THEN enqueue_frame(flushed, frame) ELSE flushed
          IN  \/ /\ ok
                 /\ \E j \in Takes(queued, sent) :
                       /\ SetQueue(flush_to(queued, j))
                       /\ wire' = sent \o Written(queued, j)
                 /\ accepted' = Append(accepted, frame)
              \/ /\ ~ok
                 /\ SetQueue(queued)
                 /\ wire' = sent
                 /\ UNCHANGED accepted
    /\ UNCHANGED <<read_buf, closed, delivered, open>>

\* Mutant of Flush: the receive loop flushes only a queue nothing was written of.
Flush_untouched ==
    /\ open /\ ~closed
    /\ offset = 0
    /\ pending_len(Queue) > 0
    /\ \E k \in Takes(Queue, wire) \ {0} :
          SetQueue(flush_to(Queue, k)) /\ wire' = wire \o Written(Queue, k)
    /\ UNCHANGED <<read_buf, closed, accepted, delivered, open>>

\* The receive loop of the writing side, in try_read_frame.
Flush ==
    /\ open /\ ~closed
    /\ pending_len(Queue) > 0
    /\ \E k \in Takes(Queue, wire) \ {0} :
          SetQueue(flush_to(Queue, k)) /\ wire' = wire \o Written(Queue, k)
    /\ UNCHANGED <<read_buf, closed, accepted, delivered, open>>

frame_len(buffer) == from_be_bytes(SubSeq(buffer, 1, 2))

\* A complete frame is at the front of the buffer.
Complete(buffer) == Len(buffer) >= 2 /\ Len(buffer) >= 2 + frame_len(buffer)

\* try_read_frame: read what has arrived, then take at most one frame.  What the
\* kernel had taken before a close may still arrive.
try_read_frame ==
    /\ open
    /\ \E k \in 0 .. Len(wire) :
          LET buffer == read_buf \o SubSeq(wire, 1, k)
          IN  /\ wire' = SubSeq(wire, k + 1, Len(wire))
              /\ IF Complete(buffer)
                 THEN /\ delivered' = Append(delivered,
                                             SubSeq(buffer, 3, 2 + frame_len(buffer)))
                      /\ read_buf' = SubSeq(buffer, 3 + frame_len(buffer), Len(buffer))
                 ELSE read_buf' = buffer /\ UNCHANGED delivered
    /\ UNCHANGED <<bytes, offset, closed, accepted, open>>

\* The connection is reset, or the writer goes and its queue with it ...
Close == open /\ ~closed /\ closed' = TRUE
         /\ UNCHANGED <<bytes, offset, wire, read_buf, accepted, delivered, open>>

\* ... and the reader finds the end of the stream, or an error at once after a
\* reset: what is on the wire, or was read and not returned, goes with it.
EndOfStream ==
    /\ open /\ closed
    /\ open' = FALSE
    /\ read_buf' = <<>> /\ wire' = <<>>
    /\ UNCHANGED <<bytes, offset, closed, accepted, delivered>>

FramingNext == queue_frame \/ Flush \/ try_read_frame \/ Close \/ EndOfStream

\* Both ends call try_read_frame again and again, which also flushes.
FramingSpec ==
    /\ FramingInit /\ [][FramingNext]_framingVars
    /\ WF_framingVars(Flush) /\ WF_framingVars(try_read_frame) /\ WF_framingVars(EndOfStream)

----------------------------------------------------------------------------
\* The bytes of a queue that were not written yet.
Unsent == SubSeq(bytes, offset + 1, Len(bytes))

\* "Keeping the remainder here is essential": what is read, on the wire and
\* pending is the encoding of the frames accepted and not delivered, byte by
\* byte, wherever a write or a read stopped.
StreamFramed ==
    open => read_buf \o wire \o Unsent =
        FlattenSeq([i \in 1 .. Len(accepted) - Len(delivered) |->
                       encoded(accepted[Len(delivered) + i])])

\* The queue, with the bytes it has not dropped yet, stays below the limit.
QueueBounded == Len(bytes) <= LIMIT /\ offset <= Len(bytes)

\* Between accepting and delivering, no byte is lost, added or moved.
StreamIntact == StreamFramed /\ QueueBounded

\* The framed stream implements the channel of frames, which breaks when the
\* reader finds the end.
Channel ==
    INSTANCE FrameChannel WITH
        Frame <- Payload, MaxAccepted <- MaxAccepted,
        accepted <- accepted, delivered <- delivered, open <- open

\* The detailed specification implements the abstract one, liveness included.
ImplementsChannel == Channel!ChannelSpec
=============================================================================

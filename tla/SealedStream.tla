----------------------------- MODULE SealedStream -----------------------------
(***************************************************************************)
(* DocumentCipher.seal_stream and open_stream (app/documents/crypto.py): a *)
(* document is sealed as a header and a sequence of chunks, each bound to  *)
(* its index and to whether it is the last; what comes back from the store *)
(* may be something else, and comes in blocks of any size.                 *)
(*                                                                         *)
(* The unit is a byte; the nonce and the tag of a frame are Overhead units *)
(* of it.  The plaintext is the sequence 1..length.  A frame opens for the *)
(* index and the finality it was sealed with and for nothing else.         *)
(***************************************************************************)
EXTENDS Integers, Sequences, FiniteSets

CONSTANTS
    Lengths,        \* the lengths a document may have
    ChunkSizes,     \* chunk_bytes
    Header,         \* bytes in the header: a key id may be longer than one byte
    MinimumHeader,  \* DocumentHeader.minimum_size
    Overhead        \* NONCE_BYTES + GCM_TAG_BYTES

ASSUME FormatAssumption ==
    /\ Lengths \subseteq Nat /\ ChunkSizes \subseteq Nat \ {0}
    /\ MinimumHeader \in Nat \ {0} /\ Header \in Nat /\ MinimumHeader <= Header
    /\ Overhead \in Nat \ {0}

VARIABLES
    length, chunk,
    writer,         \* seal_stream: how much has come, what waits in its two buffers
    frames,         \* what it has emitted
    stored,         \* what the reader will get: frames, cut off after some units
    reader,         \* open_stream
    opened          \* what it has yielded

streamVars == <<length, chunk, writer, frames, stored, reader, opened>>

Bytes(a, b) == [i \in 1..(IF b > a THEN b - a ELSE 0) |-> a + i]
Frame(index, plain, final) == [index |-> index, plain |-> plain, final |-> final]
Size(frame) == Overhead + Len(frame.plain)

\* The pending block of the writer is held back until the next one is there.
NoBlock == <<0>>
StreamInit ==
    /\ length \in Lengths /\ chunk \in ChunkSizes
    /\ writer = [step |-> "sealing", fed |-> 0, cut |-> 0, pending |-> NoBlock]
    /\ frames = <<>>
    /\ stored = [frames |-> <<>>, units |-> 0, intact |-> FALSE]
    /\ reader = [step |-> "waiting", taken |-> 0, buffered |-> 0, index |-> 0]
    /\ opened = <<>>

\* The source hands over a block of any size.
Feed(n) ==
    /\ writer.step = "sealing" /\ writer.fed + n <= length
    /\ writer.fed - writer.cut < chunk
    /\ writer' = [writer EXCEPT !.fed = @ + n]
    /\ UNCHANGED <<length, chunk, frames, stored, reader, opened>>

\* _rechunk yields a block, and the block before it is sealed.
Emits(final) == Append(frames, Frame(Len(frames), writer.pending, final))
Holds(a, b) == writer' = [writer EXCEPT !.cut = b, !.pending = Bytes(a, b)]
SealBlock ==
    LET rest == writer.fed - writer.cut
        last == writer.fed = length
        next == IF rest >= chunk THEN writer.cut + chunk ELSE writer.fed
    IN  /\ writer.step = "sealing"
        /\ rest >= chunk \/ (last /\ rest > 0)
        /\ Holds(writer.cut, next)
        /\ frames' = IF writer.pending = NoBlock THEN frames ELSE Emits(FALSE)
        /\ UNCHANGED <<length, chunk, stored, reader, opened>>

SealLast ==
    /\ writer.step = "sealing" /\ writer.fed = length /\ writer.cut = length
    /\ writer' = [writer EXCEPT !.step = "sealed"]
    /\ frames' = Append(frames, Frame(Len(frames),
                    IF writer.pending = NoBlock THEN <<>> ELSE writer.pending, TRUE))
    /\ UNCHANGED <<length, chunk, stored, reader, opened>>

-----------------------------------------------------------------------------
\* What the store gives back: the object, the object cut short, or its frames in
\* another order, some more than once, some not at all.
UnitsOf(fs) == UNION {{i} \X (1..Size(fs[i])) : i \in DOMAIN fs}
Total(fs) == Cardinality(UnitsOf(fs))
Arrangements ==
    UNION {{[i \in 1..n |-> frames[order[i]]] : order \in [1..n -> DOMAIN frames]} :
             n \in 0..Len(frames)}
Store ==
    /\ writer.step = "sealed"
    /\ writer' = [writer EXCEPT !.step = "stored"]
    /\ \E fs \in Arrangements : \E units \in 0..Header + Total(fs) :
         stored' = [frames |-> fs, units |-> units,
                    intact |-> fs = frames /\ units = Header + Total(fs)]
    /\ UNCHANGED <<length, chunk, frames, reader, opened>>

\* What the units from a up to b are: the frames that begin there and end there.
Starts(n) == Header + Total(SubSeq(stored.frames, 1, n - 1))
FrameAt(a, b) == {n \in DOMAIN stored.frames : Starts(n) = a /\ b = a + Size(stored.frames[n])}

Fails == reader' = [reader EXCEPT !.step = "failed"] /\ UNCHANGED opened
FrameSize == Overhead + chunk

\* A block arrives; the header is parsed from what the first ones held.
Arrive(n) ==
    LET buffered == reader.buffered + n
    IN  /\ writer.step = "stored"
        /\ reader.taken + buffered <= stored.units
        /\ IF reader.step = "waiting"
           THEN CASE buffered < MinimumHeader ->
                       reader' = [reader EXCEPT !.buffered = buffered] /\ UNCHANGED opened
                  [] buffered >= MinimumHeader /\ buffered < Header -> Fails
                  [] OTHER ->
                       /\ reader' = [reader EXCEPT !.step = "opening", !.taken = Header,
                                                   !.buffered = buffered - Header]
                       /\ UNCHANGED opened
           ELSE /\ reader.step = "opening" /\ reader.buffered <= FrameSize
                /\ reader' = [reader EXCEPT !.buffered = buffered]
                /\ UNCHANGED opened
        /\ UNCHANGED <<length, chunk, writer, frames, stored>>

\* _open_chunk: authenticated for the index the reader has come to.
OpensAnyIndex(n, final) == stored.frames[n].final = final                 \* mutant
Opens(n, final) == stored.frames[n].index = reader.index /\ stored.frames[n].final = final

Takes(units, final, step) ==
    LET fit == {n \in FrameAt(reader.taken, reader.taken + units) : Opens(n, final)}
    IN  IF fit = {} THEN Fails
        ELSE /\ reader' = [step |-> step, taken |-> reader.taken + units,
                           buffered |-> reader.buffered - units, index |-> reader.index + 1]
             /\ opened' = opened \o stored.frames[CHOOSE n \in fit : TRUE].plain

\* A whole frame is opened once there is a byte behind it.
OpenFrame ==
    /\ reader.step = "opening" /\ reader.buffered > FrameSize
    /\ Takes(FrameSize, FALSE, "opening")
    /\ UNCHANGED <<length, chunk, writer, frames, stored>>

\* The stream is over: what is left is the last frame.
OpenLast ==
    /\ writer.step = "stored" /\ reader.step \in {"waiting", "opening"}
    /\ reader.taken + reader.buffered = stored.units
    /\ reader.step = "opening" => reader.buffered <= FrameSize
    /\ IF reader.step = "waiting" THEN Fails ELSE Takes(reader.buffered, TRUE, "read")
    /\ UNCHANGED <<length, chunk, writer, frames, stored>>

StreamNext ==
    \/ \E n \in 1..length : Feed(n)
    \/ SealBlock \/ SealLast \/ Store
    \/ \E n \in 1..stored.units : Arrive(n)
    \/ OpenFrame \/ OpenLast

StreamSpec == StreamInit /\ [][StreamNext]_streamVars
-----------------------------------------------------------------------------
\* Whatever the store gives back, in whatever blocks, what has been yielded is a prefix
\* of the document, and a reader that comes to the end without an error has yielded all
\* of it; and the object itself opens once its header is parsed, which fails when a block
\* ends in it (crypto.py:36-47, 217-219, "either yields the exact plaintext or raises").
OpenedAsSealed ==
    /\ opened = Bytes(0, Len(opened)) /\ Len(opened) <= length
    /\ reader.step = "read" => Len(opened) = length
    /\ stored.intact /\ reader.step = "failed" => reader.taken < Header
=============================================================================

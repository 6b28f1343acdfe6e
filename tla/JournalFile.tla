----------------------------- MODULE JournalFile -----------------------------
(***************************************************************************)
(* The journal file byte by byte: header, frames, command records, and     *)
(* crashes that cut what is being written anywhere (journal.rs, wal.rs).   *)
(* It justifies the frames, whole or torn, that PersistentClob takes the   *)
(* journal for.                                                            *)
(***************************************************************************)
EXTENDS ClobTypes, Codec, Frames

CONSTANTS
    Batches,    \* what submit and submit_batch write: sequences of commands
    BaseSeqs,   \* the sequence numbers a rotation may happen at
    MaxAppends  \* bound: frames begun in a behaviour

ASSUME JournalAssumption ==
    /\ Batches \subseteq Seq(Command)
    /\ BaseSeqs \subseteq Nat
    /\ MaxAppends \in Nat

VARIABLES
    file,   \* the bytes of the file
    base_seq,   \* the number its header was written with
    frames, \* the frames whose bytes are behind the header
    up,     \* a process has it open
    appends \* how many frames were begun

vars == <<file, base_seq, frames, up, appends>>

----------------------------------------------------------------------------
(* Command records                                                          *)

TypeCodes == <<"Limit", "Market", "Stop", "StopLimit", "Iceberg">>

\* Mutant of Flags: the order type is shifted into the side.
Flags_TypeUnshifted(order) ==
    (IF order.side = "Sell" THEN 1 ELSE 0)
      + Code(TypeCodes, order.type)
      + 16 * Code(TifCodes, order.tif)
      + 64 * Code(StpCodes, order.stp)

\* Side, type, time in force and self-trade prevention in one byte.
Flags(order) ==
    (IF order.side = "Sell" THEN 1 ELSE 0)
      + 2 * Code(TypeCodes, order.type)
      + 16 * Code(TifCodes, order.tif)
      + 64 * Code(StpCodes, order.stp)

\* What an order of a type has besides its flags.
Payload(type) ==
    CASE type = "Limit" -> <<"price", "qty", "owner">>
      [] type = "Market" -> <<"qty", "owner">>
      [] type = "Stop" -> <<"trigger", "qty", "owner">>
      [] type = "StopLimit" -> <<"trigger", "price", "qty", "owner">>
      [] type = "Iceberg" -> <<"price", "display", "qty", "owner">>

EncodeCommand(c) ==
    CASE c.op = "New" ->
           LET fields == Payload(c.order.type)
           IN  U8(1) \o U8(Flags(c.order))
                 \o Varints([i \in DOMAIN fields |-> c.order[fields[i]]])
      [] c.op = "Cancel" -> U8(2) \o Varint(c.order_id)
      [] c.op = "Modify" -> U8(3) \o Varints(<<c.order_id, c.price, c.qty>>)

\* Fields that the record does not have are 0.
OrderOf(flags, values) ==
    LET type == TypeCodes[((flags \div 2) % 8) + 1]
        fields == Payload(type)
        field(name) ==
            IF Contains(fields, name)
            THEN values[CHOOSE i \in DOMAIN fields : fields[i] = name] ELSE 0
    IN  [side |-> IF flags % 2 = 1 THEN "Sell" ELSE "Buy", type |-> type,
         trigger |-> field("trigger"), display |-> field("display"),
         price |-> field("price"), qty |-> field("qty"),
         tif |-> TifCodes[((flags \div 16) % 4) + 1], owner |-> field("owner"),
         stp |-> StpCodes[((flags \div 64) % 4) + 1]]

Undecoded(r, err) == [r |-> Fail(r, err), item |-> None]

ReadNew(r) ==
    LET flags == Last(r.values)
        type  == ((flags \div 2) % 8) + 1
        got   == ReadRecord(r, Varying(Len(Payload(TypeCodes[type]))))
    IN  CASE r.err # NoError -> Undecoded(r, r.err)
          [] type \notin DOMAIN TypeCodes -> Undecoded(r, "UnknownOrderType")
          [] got.err # NoError -> Undecoded(got, got.err)
          [] OTHER -> [r |-> got, item |-> New(OrderOf(flags, got.values))]

ReadIds(r, count, CommandOf(_)) ==
    LET got == ReadRecord(r, Varying(count))
    IN  IF got.err # NoError THEN Undecoded(got, got.err)
        ELSE [r |-> got, item |-> CommandOf(got.values)]

\* A command, and the reader behind it.
DecodeCommand(reader) ==
    LET r   == ReadRecord(reader, <<"u8">>)
        tag == Last(r.values)
    IN  CASE r.err # NoError -> Undecoded(r, r.err)
          [] tag = 1 -> ReadNew(ReadRecord(r, <<"u8">>))
          [] tag = 2 -> ReadIds(r, 1, LAMBDA v : Cancel(v[1]))
          [] tag = 3 ->
                ReadIds(r, 3, LAMBDA v :
                            Modify(v[1], [price |-> v[2], qty |-> v[3]]))
          [] OTHER -> Undecoded(r, "UnknownCommand")

----------------------------------------------------------------------------
(* Header and frames *)

Magic == <<Byte(67), Byte(76), Byte(66), Byte(87)>>    \* CLBW
FormatVersion == 2

Header(seq) == Magic \o U16(FormatVersion) \o U64(seq)
HeaderLen == 6 + WordBytes

HeaderError(bytes) ==
    CASE Len(bytes) >= 4 /\ SubSeq(bytes, 1, 4) # Magic -> "BadMagic"
      [] Len(bytes) < HeaderLen -> "UnexpectedEof"
      [] SubSeq(bytes, 5, 6) # U16(FormatVersion) -> "UnsupportedVersion"
      [] OTHER -> NoError

BaseSeqOf(bytes) == ReadFixed(Reader(SubSeq(bytes, 7, HeaderLen)), WordBytes).values[1]

\* What commit writes: the length, then the records behind their count, and
\* the checksum of both.
Frame(batch) ==
    LET body == EncodeList(EncodeCommand, batch)
    IN  U32(Len(body) + 4) \o body \o Crc32(body)

\* Mutant of FrameIsWhole: the length alone decides.
FrameIsWhole_ByLength(bytes) ==
    LET len == ReadFixed(Reader(bytes), 4).values[1]
    IN  /\ Len(bytes) >= 4
        /\ len >= 4
        /\ Len(bytes) >= 4 + len

FrameIsWhole(bytes) ==
    LET len == ReadFixed(Reader(bytes), 4).values[1]
    IN  /\ Len(bytes) >= 4
        /\ len >= 4
        /\ Len(bytes) >= 4 + len
        /\ Crc32(SubSeq(bytes, 5, len)) = SubSeq(bytes, len + 1, len + 4)

\* One turn of the loop of read_segment, which ends with what is not a frame.
ReadFrame(s, i) ==
    IF s.over \/ ~FrameIsWhole(s.rest) THEN [s EXCEPT !.over = TRUE]
    ELSE LET len  == ReadFixed(Reader(s.rest), 4).values[1]
             body == ReadList(DecodeCommand, Reader(SubSeq(s.rest, 5, len)))
         IN  [rest |-> SubSeq(s.rest, len + 5, Len(s.rest)),
              commands |-> s.commands \o body.items,
              err |-> body.r.err,
              over |-> body.r.err # NoError]

\* The commands of the file, and what of it was not read.
ReadSegment(bytes) ==
    LET err == IF bytes = <<>> THEN NoError ELSE HeaderError(bytes)
        start == [rest |-> IF err # NoError THEN bytes
                           ELSE SubSeq(bytes, HeaderLen + 1, Len(bytes)),
                  commands |-> <<>>, err |-> err, over |-> err # NoError]
    IN  FoldOnce(ReadFrame, start, [i \in 1..(Len(bytes) \div 8) |-> i])

----------------------------------------------------------------------------
(* The life of the file *)

Init ==
    /\ file = <<>>
    /\ base_seq = 0
    /\ frames = <<>>
    /\ up = FALSE
    /\ appends = 0

Start(seq) ==
    /\ file' = Header(seq)
    /\ base_seq' = seq
    /\ frames' = <<>>

\* A file that is not empty must be readable, and is appended to as it is.
Open ==
    /\ ~up
    /\ ReadSegment(file).err = NoError
    /\ IF file = <<>> THEN \E seq \in BaseSeqs : Start(seq)
       ELSE UNCHANGED <<file, base_seq, frames>>
    /\ up' = TRUE
    /\ UNCHANGED appends

\* A record does not hold the price of an order that has none.
Recorded(c) ==
    IF c.op = "New" /\ c.order.type \in {"Market", "Stop"}
    THEN New([c.order EXCEPT !.price = 0]) ELSE c

RecordedBatch(batch) == [i \in DOMAIN batch |-> Recorded(batch[i])]

BeginAppend ==
    /\ up
    /\ appends < MaxAppends
    /\ appends' = appends + 1
    /\ UNCHANGED base_seq

Commit(batch) ==
    /\ BeginAppend
    /\ file' = file \o Frame(batch)
    /\ frames' = Append(frames, WholeFrame(RecordedBatch(batch)))
    /\ UNCHANGED up

Rotate ==
    /\ up
    /\ \E seq \in BaseSeqs : Start(seq)
    /\ UNCHANGED <<up, appends>>

\* Of what was being appended, the file keeps the first bytes.
CutOff(bytes) ==
    /\ \E count \in 1..(Len(bytes) - 1) : file' = file \o SubSeq(bytes, 1, count)
    /\ up' = FALSE

CrashInOpen ==
    /\ ~up
    /\ file = <<>>
    /\ \E seq \in BaseSeqs : CutOff(Header(seq))
    /\ UNCHANGED <<base_seq, frames, appends>>

CrashInCommit(batch) ==
    /\ BeginAppend
    /\ CutOff(Frame(batch))
    /\ frames' = Append(frames, TornFrame(RecordedBatch(batch)))

Crash == up /\ up' = FALSE /\ UNCHANGED <<file, base_seq, frames, appends>>

Next ==
    \/ Open
    \/ \E batch \in Batches : Commit(batch) \/ CrashInCommit(batch)
    \/ Rotate
    \/ CrashInOpen
    \/ Crash

Spec == Init /\ [][Next]_vars

----------------------------------------------------------------------------
HeaderIsWhole == file # <<>> /\ HeaderError(file) = NoError

\* Whatever cuts and appends behind them the file has seen: the commands
\* come back as they were written, a frame that was cut counts as not there,
\* and so does everything behind it until the next rotation.
ReadsIntactFrames ==
    HeaderIsWhole =>
        /\ BaseSeqOf(file) = base_seq
        /\ ReadSegment(file).commands = CommandsIn(frames)

\* What read_segment takes for a frame is one: none of its records fails to
\* decode, which would make open refuse the journal.  Only a file that was
\* cut within its header, and has no command in it, is refused.
OnlyTornHeaderRefused ==
    ReadSegment(file).err = NoError \/ (~HeaderIsWhole /\ frames = <<>>)
==============================================================================

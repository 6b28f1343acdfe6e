---------------------------- MODULE SnapshotFile ----------------------------
(***************************************************************************)
(* The bytes of the snapshot file (snapshot.rs): what Clob::capture gives, *)
(* behind a magic and a version and with a checksum at its end.            *)
(*                                                                         *)
(* A position is a varint of 128 bits in the code; here every varint has   *)
(* the width of Codec.  The timestamp of an order is its seq.              *)
(***************************************************************************)
EXTENDS ClobTypes, Codec

SnapMagic == <<Byte(67), Byte(76), Byte(66), Byte(83)>>    \* CLBS
SnapVersion == 3
MinLen == 10

SideCode(side) == IF side = "Sell" THEN 1 ELSE 0
DecodeSide(code) == IF code = 1 THEN "Sell" ELSE "Buy"

Zigzag(n) == IF n >= 0 THEN 2 * n ELSE -2 * n - 1

\* Mutant of Unzigzag: the sign bit is shifted out and forgotten.
Unzigzag_Unsigned(z) == z \div 2

Unzigzag(z) == IF z % 2 = 0 THEN z \div 2 ELSE -((z + 1) \div 2)

EncodeOption(option, Encode(_)) ==
    IF option = None THEN U8(0) ELSE U8(1) \o Encode(option)

----------------------------------------------------------------------------
EncodeOrder(entry) ==
    U8(SideCode(entry.order.side))
      \o Varints(<<entry.id, entry.order.seq, entry.order.price,
                   entry.order.qty, entry.order.seq, entry.order.owner>>)
      \o EncodeOption(entry.reserve,
                      LAMBDA r : Varints(<<r.display, r.hidden>>))

EncodeStop(stop) ==
    Varint(stop.id) \o U8(SideCode(stop.side)) \o Varint(stop.trigger)
      \o (IF stop.limit_price = None THEN U8(0) \o Varint(0)
                                     ELSE U8(1) \o Varint(stop.limit_price))
      \o Varint(stop.qty) \o U8(Code(TifCodes, stop.tif))
      \o Varint(stop.owner) \o U8(Code(StpCodes, stop.stp))

EncodeState(state) ==
    LET net == state.account_net
        owners == SetToSortSeq(DOMAIN net, LAMBDA a, b : a < b)
        body ==
            SnapMagic \o U16(SnapVersion)
              \o Varints(<<state.seq, state.next_order_id>>)
              \o EncodeOption(state.last_trade_price, Varint)
              \o EncodeList(EncodeOrder, state.orders)
              \o EncodeList(EncodeStop, state.stops)
              \o EncodeList(LAMBDA a : Varints(<<a, Zigzag(net[a])>>), owners)
    IN  body \o Crc32(body)

----------------------------------------------------------------------------
\* The option that ends a record whose last field says whether it is there.
ReadOption(r, kinds) ==
    IF r.err = NoError /\ Last(r.values) = 1 THEN ReadRecord(r, kinds) ELSE r

Item(r, item) == [r |-> r, item |-> IF r.err = NoError THEN item ELSE None]

\* A resting order of its fields and those of its reserve, if it has one.
OrderEntry(v, reserve) ==
    [id |-> v[2],
     order |-> [side |-> DecodeSide(v[1]), price |-> v[4], qty |-> v[5],
                seq |-> v[3], owner |-> v[7]],
     reserve |-> IF v[8] # 1 THEN None
                 ELSE [display |-> reserve[1], hidden |-> reserve[2]]]

ReadOrder(reader) ==
    LET r == ReadRecord(reader, <<"u8">> \o Varying(6) \o <<"u8">>)
        reserve == ReadOption(r, Varying(2))
    IN  Item(reserve, OrderEntry(r.values, reserve.values))

StopEntry(v) ==
    [id |-> v[1], side |-> DecodeSide(v[2]), trigger |-> v[3],
     limit_price |-> IF v[4] = 1 THEN v[5] ELSE None,
     qty |-> v[6], tif |-> TifCodes[v[7] + 1], owner |-> v[8],
     stp |-> StpCodes[v[9] + 1]]

ReadStop(reader) ==
    LET r == ReadRecord(reader,
                        <<"varint", "u8", "varint", "u8", "varint", "varint",
                          "u8", "varint", "u8">>)
    IN  Item(r, StopEntry(r.values))

ReadNet(reader) ==
    LET r == ReadRecord(reader, Varying(2))
    IN  Item(r, [owner |-> r.values[1], net |-> Unzigzag(r.values[2])])

Undecodable(err) == [err |-> err, state |-> None]

\* The state of what was read: its numbers, the option behind them, and the
\* items of its lists.
StateOf(numbers, price, orders, pending, nets) ==
    [seq |-> numbers[1], next_order_id |-> numbers[2],
     last_trade_price |-> IF numbers[3] = 1 THEN price[1] ELSE None,
     orders |-> orders, stops |-> pending,
     account_net |-> [a \in {n.owner : n \in ToSet(nets)} |->
                         (CHOOSE n \in ToSet(nets) : n.owner = a).net]]

ReadState(body) ==
    LET head  == ReadFields(Reader(SubSeq(body, 7, Len(body))),
                            <<"varint", "varint", "u8">>)
        price == ReadOption(head, <<"varint">>)
        orders == ReadList(ReadOrder, price)
        pending == ReadList(ReadStop, orders.r)
        nets  == ReadList(ReadNet, pending.r)
    IN  [err |-> nets.r.err,
         state |-> StateOf(head.values, price.values, orders.items,
                           pending.items, nets.items)]

DecodeState(data) ==
    LET body == SubSeq(data, 1, Len(data) - 4)
    IN  IF Len(data) < MinLen \/ body \o Crc32(body) # data
        THEN Undecodable("CorruptSnapshot")
        ELSE IF SubSeq(body, 1, 4) # SnapMagic THEN Undecodable("BadMagic")
        ELSE IF SubSeq(body, 5, 6) # U16(SnapVersion)
        THEN Undecodable("UnsupportedVersion")
        ELSE ReadState(body)
==============================================================================

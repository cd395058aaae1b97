-------------------------------- MODULE Packets --------------------------------
(***************************************************************************)
(* Packets and their sizes (src/messaging.rs, src/protocol.rs and the      *)
(* PacketCodec of src/transport.rs).  What a payload holds is its          *)
(* identity; of its bytes only their number matters: it is compared with   *)
(* limits and thresholds, grows by the envelope of an internal message and *)
(* shrinks when the payload compresses.                                    *)
(***************************************************************************)
EXTENDS Integers

CONSTANTS
  UserStart,   \* USER_MESSAGE_START: smaller types are internal
  Envelope     \* what postcard adds to a payload it carries, at least one byte

ASSUME PacketAssumption ==
  UserStart \in Nat \ {0} /\ Envelope \in Nat \ {0}

\* A payload: `id` is what it says, `raw` its length and `size` the length it
\* is sent with; `packs` says whether LZ4 makes it shorter.
Payload(id, raw, packs) ==
  [id |-> id, raw |-> raw, size |-> raw, packs |-> packs]

TooLarge(length, limit) == length > limit

IsCompressed(flags) == flags % 2 = 1
CleanFlags(flags) == flags - (flags % 2)
IsInternal(type) == type < UserStart

\* lz4_flex::block::compress_prepend_size, and its inverse, which fails on
\* what was not compressed.
Compressed(pay) ==
  [pay EXCEPT !.size = IF pay.packs THEN @ - 1 ELSE @ + 1]
WasCompressed(pay) == pay.size # pay.raw

\* Mutated form: the compression bit of the caller's flags is kept.
BadEncodePacket(type, flags, pay, threshold) ==
  [type |-> type, flags |-> flags, pay |-> pay]

\* encode_packet: compressed when longer than the threshold and shorter
\* afterwards.  Encodable is the test it makes first.
EncodePacket(type, flags, pay, threshold) ==
  IF pay.raw > threshold /\ Compressed(pay).size < pay.raw
    THEN [type |-> type, flags |-> CleanFlags(flags) + 1,
          pay |-> Compressed(pay)]
    ELSE [type |-> type, flags |-> CleanFlags(flags), pay |-> pay]

\* Mutated form: the payload is passed on as it came.
BadDecodePayload(packet) == packet.pay

\* decode_payload, for a packet that Decodes.
Decodes(packet) == IsCompressed(packet.flags) => WasCompressed(packet.pay)
DecodePayload(packet) ==
  IF IsCompressed(packet.flags)
    THEN [packet.pay EXCEPT !.size = packet.pay.raw] ELSE packet.pay

\* The length field of the packet's header: the payload, in an envelope when
\* the message is internal.
WireSize(packet) ==
  IF IsInternal(packet.type) THEN packet.pay.size + Envelope
  ELSE packet.pay.size

\* Mutated form: the envelope is not counted.
BadEncodable(packet, limit) == ~TooLarge(packet.pay.raw, limit)

\* Whether encode_packet and encode_internal return a packet and not
\* MessageTooLarge: a user payload is measured before it is compressed, an
\* internal message with its envelope.
Encodable(packet, limit) ==
  ~TooLarge(IF IsInternal(packet.type) THEN WireSize(packet)
            ELSE packet.pay.raw, limit)

\* PacketCodec: the encoder refuses what exceeds its own limit and the decoder
\* what exceeds its own; either error ends the channel.
CodecAccepts(packet, limit) == ~TooLarge(WireSize(packet), limit)
=============================================================================

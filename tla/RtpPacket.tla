----------------------------- MODULE RtpPacket -----------------------------
(***************************************************************************)
(* RtpPacket (rtp_packet.cpp) as a record and the operators that build it, *)
(* and the map of header extensions it is given.  A payload is a sequence  *)
(* of bytes, a header extension the value it carries and where it lies.    *)
(* The source list is always empty and padding is never set.               *)
(***************************************************************************)
EXTENDS Naturals, Sequences, SequencesExt

CONSTANT Capacity   \* kDefaultCapacity, the size of the buffer, 1500

ASSUME RtpPacketAssumption == Capacity \in Nat /\ Capacity >= 12

FixedHeaderSize == 12
ExtensionsOffset == FixedHeaderSize + 4   \* after the profile and the length
OneByteMaxId == 14
OneByteMaxLength == 16
MaxValueSize == 255

\* The types of extensions that exist: one, with the id PeerConnection
\* registers for it, and two bytes long.
ExtensionTypes == {"transport_seq"}
TransportSeqId == 1
TransportSeqSize == 2
InvalidId == 0

NoExtensions == [type \in ExtensionTypes |-> InvalidId]

\* RtpHeaderExtensionMap::RegisterUri: an id has one type.
Register(ids, id, type) ==
    IF id \notin 1..255 \/ type \notin ExtensionTypes
       \/ \E other \in ExtensionTypes : ids[other] = id
    THEN ids
    ELSE [ids EXCEPT ![type] = id]

\* A packet, cleared, with the extensions that may be added to it.
NewPacket(ids) ==
    [ids |-> ids, marker |-> FALSE, pt |-> 0, seq |-> 0, ts |-> 0, ssrc |-> 0,
     entries |-> <<>>, twoByte |-> FALSE, extensionSize |-> 0,
     payloadOffset |-> FixedHeaderSize, payload |-> <<>>]

Size(packet) == packet.payloadOffset + Len(packet.payload)

\* AllocatePayload finds room, or returns no buffer.
HasRoom(packet, size) == packet.payloadOffset + size <= Capacity

\* AllocatePayload, and the bytes its caller copies into the buffer.
WithPayload(packet, bytes) == [packet EXCEPT !.payload = bytes]

-----------------------------------------------------------------------------

\* The entry of a type, in a set; no two entries have one id.
FindExtension(packet, type) ==
    {entry \in ToSet(packet.entries) :
        packet.ids[type] # InvalidId /\ entry.id = packet.ids[type]}

\* SetExtensionLengthMaybeAddZeroPadding, for a total of size bytes: the
\* header ends at a multiple of four.
WithExtensionSize(packet, size) ==
    [packet EXCEPT !.extensionSize = size,
                   !.payloadOffset = ExtensionsOffset + 4 * ((size + 3) \div 4)]

\* PromoteToTwoByteHeaderExtension: the header of every entry grows a byte.
Promote(packet) ==
    WithExtensionSize(
        [packet EXCEPT !.twoByte = TRUE,
                       !.entries = [i \in DOMAIN @ |-> [@[i] EXCEPT !.offset = @ + i]]],
        packet.extensionSize + Len(packet.entries))

\* The end of AllocateRawExtension: a new entry after those there are.
AppendExtension(packet, id, length, value) ==
    LET header == IF packet.twoByte THEN 2 ELSE 1
        entry == [id |-> id, length |-> length, value |-> value,
                  offset |-> ExtensionsOffset + packet.extensionSize + header]
        size == packet.extensionSize + header + length
    IN  IF size > Capacity THEN packet
        ELSE WithExtensionSize([packet EXCEPT !.entries = Append(@, entry)], size)

\* AllocateRawExtension, and the value its caller writes.  The packet is left
\* alone when no extension can be added any more: its payload is set.
WriteRawExtension(packet, id, length, value) ==
    LET added == {i \in DOMAIN packet.entries : packet.entries[i].id = id}
        wide == id > OneByteMaxId \/ length > OneByteMaxLength
        first == packet.extensionSize = 0
        promoted == packet.extensionSize + Len(packet.entries) + 2 + length
    IN  CASE added # {} ->
               [packet EXCEPT !.entries =
                   [i \in DOMAIN @ |-> IF i \in added /\ @[i].length = length
                                       THEN [@[i] EXCEPT !.value = value] ELSE @[i]]]
          [] added = {} /\ packet.payload # <<>> -> packet
          [] added = {} /\ packet.payload = <<>> /\ ~first /\ wide /\ ~packet.twoByte ->
               IF ExtensionsOffset + promoted > Capacity THEN packet
               ELSE AppendExtension(Promote(packet), id, length, value)
          [] OTHER ->
               AppendExtension([packet EXCEPT !.twoByte = IF first THEN wide ELSE @],
                               id, length, value)

\* SetExtension, and ReserveExtension with the value 0.
SetExtension(packet, type, length, value) ==
    IF length \notin 1..MaxValueSize \/ packet.ids[type] = InvalidId THEN packet
    ELSE WriteRawExtension(packet, packet.ids[type], length, value)
=============================================================================

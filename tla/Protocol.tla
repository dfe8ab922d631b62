------------------------------- MODULE Protocol -------------------------------
(***************************************************************************)
(* The wire protocol (protocol encoder.py, parser.py, framer.py) and the   *)
(* loops that read it: one direction of a connection, which carries        *)
(* commands or responses.                                                  *)
(*                                                                         *)
(* Text is a sequence of words, what lies between two spaces; a word is    *)
(* the sequence of atoms between its commas.  A name or a free text is     *)
(* text (more than one word if it has a space), a list of names a sequence *)
(* of atoms.  Every atom is one character, of two bytes if it is Wide.     *)
(*                                                                         *)
(* The prefix counts the bytes of the encoded header, so a frame is always *)
(* read whole; the payload of MSG, RPL and TML follows without a prefix,   *)
(* and its length is what the header says.                                 *)
(***************************************************************************)
EXTENDS Integers, SequencesExt, TLC

CONSTANTS
  Commands, Responses,  \* the messages sent
  Wide,                 \* atoms that are not ASCII
  MaxSent               \* bound: messages on the connection

ASSUME ProtocolAssumption == MaxSent \in Nat

VARIABLES
  side,      \* does this direction carry commands or responses
  checksum,  \* checksum_enable of encode_command
  verify,    \* checksum_enable of parse_command
  sent,      \* messages written
  wire,      \* frames and payloads on their way
  reader,    \* what the reader waits for, or how it ended
  head,      \* the parsed header of the payload it waits for
  got        \* messages received

vars == <<side, checksum, verify, sent, wire, reader, head, got>>

-----------------------------------------------------------------------------
(* encoder.py: the fields behind each tag, in the order they are written. *)

CommandFields ==
  [REG |-> <<>>, CID |-> <<"client_id">>, SUB |-> <<"topic">>,
   CMT |-> <<"topic", "acks", "offset">>, FCH |-> <<"topic">>,
   PUB |-> <<"topic", "acks", "payload">>, PUL |-> <<"topic", "offset", "size">>,
   PNG |-> <<>>, RFH |-> <<"replica_id", "topic", "offset", "size">>,
   RGT |-> <<"topic">>, MTR |-> <<"topic">>, BRK |-> <<"broker_id", "host", "port">>,
   CPG |-> <<"broker_id">>, ISR |-> <<"topic", "isr_list">>]

ResponseFields ==
  [CID |-> <<"client_id">>, PNG |-> <<>>, OAK |-> <<"topic", "acks", "offset">>,
   FCR |-> <<"topic", "offset">>, ACK |-> <<"topic", "acks", "offset">>,
   ERR |-> <<"code", "message">>, MSG |-> <<"topic", "length">>,
   RPL |-> <<"topic", "log_end_offset", "high_watermark", "length">>,
   TMD |-> <<"topic", "leader_id", "leader_addr", "leader_port", "replica_list", "version">>,
   TML |-> <<"length">>, CPR |-> <<>>, NLC |-> <<"leader_id", "leader_host", "leader_port">>]

MetaLine == ResponseFields.TMD

Ints == {"acks", "offset", "size", "port", "code", "length", "log_end_offset",
         "high_watermark", "leader_port", "version"}
Lists == {"replica_list", "isr_list"}

\* str(i); int() raises for what is not here.
Digits == [i \in -1..60 |-> ToString(i)]

\* ",".join: nothing joined is the empty word.
Join(list) == IF list = <<>> THEN <<"">> ELSE list

\* Mutant: no sign for an empty list.
MutWords(x, v) == IF x \in Ints THEN <<<<Digits[v]>>>> ELSE IF x \in Lists THEN <<Join(v)>> ELSE v

\* The words that stand for value v of field x.
Words(x, v) ==
  IF x \in Ints THEN <<<<Digits[v]>>>>
  ELSE IF x = "replica_list" /\ v = <<>> THEN <<<<"-">>>>
  ELSE IF x \in Lists THEN <<Join(v)>>
  ELSE v

Fields(order, f) == FlattenSeq([i \in 1..Len(order) |-> Words(order[i], f[order[i]])])

\* zlib.crc32 in decimal, external.
Crc(text) == <<Digits[Len(text)]>>

\* encode_packet_header.
Header(m) == IF m.crr = "" THEN <<>> ELSE <<<<"CRR", m.crr>>>>

\* The payload of a response: the lines of a metadata list, or opaque records.
Payload(m) ==
  IF m.type = "TML" THEN [i \in 1..Len(m.metas) |-> Fields(MetaLine, m.metas[i])]
  ELSE IF m.type \in {"MSG", "RPL"} THEN m.records
  ELSE <<>>

\* Its length in characters and in bytes; separators count for nothing.
Atoms(lines) == FlattenSeq(FlattenSeq(lines))
Chars(lines) == Len(Atoms(lines))
Bytes(lines) == Chars(lines) + Len(SelectSeq(Atoms(lines), LAMBDA a : a \in Wide))

\* What the header says of the payload: bytes, but for TML len() of a str.
Length(m) == IF m.type = "TML" THEN Chars(Payload(m)) ELSE Bytes(Payload(m))

\* encode_command: a checksum goes before the payload of a PUB.
EncodeCommand(m) ==
  LET f == IF m.type = "PUB" /\ checksum
           THEN [m.f EXCEPT !.payload = <<Crc(@)>> \o @] ELSE m.f
  IN  Header(m) \o <<<<m.type>>>> \o Fields(CommandFields[m.type], f)

\* encode_response.
EncodeResponse(m) ==
  LET f == IF m.type \in {"MSG", "RPL", "TML"} THEN ("length" :> Length(m)) @@ m.f ELSE m.f
  IN  Header(m) \o <<<<m.type>>>> \o Fields(ResponseFields[m.type], f)

-----------------------------------------------------------------------------
(* parser.py: the fields of each message by the part that holds them,      *)
(* after data.split(" ", n) with n the number of fields.                   *)

ParsedCommands ==
  [REG |-> <<>>, CID |-> <<"client_id">>, SUB |-> <<"topic">>,
   CMT |-> <<"topic", "acks", "offset">>, FCH |-> <<"topic">>,
   PUB |-> <<"topic", "acks", "payload">>, PUL |-> <<"topic", "offset", "size">>,
   RFH |-> <<"replica_id", "topic", "offset", "size">>, PNG |-> <<>>,
   RGT |-> <<"topic">>, MTR |-> <<"topic">>, BRK |-> <<"broker_id", "host", "port">>,
   CPG |-> <<"broker_id">>, ISR |-> <<"topic", "isr_list">>]

ParsedResponses ==
  [CID |-> <<"client_id">>, PNG |-> <<>>, ACK |-> <<"topic", "acks", "offset">>,
   OAK |-> <<"topic", "acks", "offset">>, FCR |-> <<"topic", "offset">>,
   ERR |-> <<"code", "message">>, MSG |-> <<"topic", "length">>,
   RPL |-> <<"topic", "log_end_offset", "high_watermark", "length">>, CPR |-> <<>>,
   TMD |-> <<"topic", "leader_id", "leader_addr", "leader_port", "replica_list", "version">>,
   TML |-> <<"length">>, NLC |-> <<"leader_id", "leader_host", "leader_port">>]

\* text.split(" ", n)
Split(text, n) ==
  [i \in 1..(IF Len(text) <= n THEN Len(text) ELSE n + 1) |->
     IF i <= n THEN <<text[i]>> ELSE SubSeq(text, i, Len(text))]

\* Can the parser make a value of field x of this part?
Parses(x, part) ==
  /\ x \in Ints => \E i \in DOMAIN Digits : part = <<<<Digits[i]>>>>
  /\ x = "acks" => part \in {<<<<"-1">>>>, <<<<"0">>>>, <<<<"1">>>>}

Value(x, part) ==
  IF x \in Ints THEN CHOOSE i \in DOMAIN Digits : part = <<<<Digits[i]>>>>
  ELSE IF x \in Lists THEN (IF part = <<<<"-">>>> THEN <<>> ELSE FlattenSeq(part))
  ELSE part

\* Every part exists and can be parsed; parts[1] is the tag.
CanParse(order, parts) ==
  \A i \in 1..Len(order) : i < Len(parts) /\ Parses(order[i], parts[i + 1])

Parsed(order, parts) ==
  [x \in ToSet(order) |-> Value(x, parts[1 + CHOOSE i \in 1..Len(order) : order[i] = x])]

\* parse_packet_header.
HasHeader(text) == Len(text[1]) = 2 /\ text[1][1] = "CRR"
Body(text) == IF HasHeader(text) THEN Tail(text) ELSE text
Crr(text) == IF HasHeader(text) THEN text[1][2] ELSE ""

\* parse_command with checksum_enable: the first word must be the checksum of the
\* rest.
ChecksumOK(type, f) ==
  (type = "PUB" /\ verify) =>
    Len(f.payload) >= 2 /\ Head(f.payload) = Crc(Tail(f.payload))

\* parse_command and parse_response, for a tag the encoder wrote.
Order(type) == IF side = "command" THEN ParsedCommands[type] ELSE ParsedResponses[type]
Parts(text) == Split(Body(text), Len(Order(Body(text)[1][1])))
Readable(text) ==
  LET type == Body(text)[1][1]
  IN  CanParse(Order(type), Parts(text)) /\ ChecksumOK(type, Parsed(Order(type), Parts(text)))
ParseFrame(text) ==
  LET type == Body(text)[1][1]
  IN  [type |-> type, crr |-> Crr(text), f |-> Parsed(Order(type), Parts(text))]

\* parse_metadata_list_payload: line.split(" "), with no word for the tag.
LineParts(line) == <<<<>>>> \o [i \in 1..Len(line) |-> <<line[i]>>]
ReadableLines(lines) == \A i \in 1..Len(lines) : CanParse(ParsedResponses.TMD, LineParts(lines[i]))
ParseLines(lines) == [i \in 1..Len(lines) |-> Parsed(ParsedResponses.TMD, LineParts(lines[i]))]

-----------------------------------------------------------------------------
(* The connection *)

Init ==
  /\ side \in {"command", "response"}
  /\ checksum \in BOOLEAN /\ verify \in BOOLEAN
  /\ side = "response" => ~checksum /\ ~verify
  /\ sent = <<>> /\ wire = <<>> /\ got = <<>>
  /\ reader = "frame" /\ head = <<>>

\* _send_response and _send_command: header and payload in one go.
Send(m) ==
  /\ Len(sent) < MaxSent
  /\ sent' = Append(sent, m)
  /\ wire' = wire \o IF side = "command" THEN <<[frame |-> EncodeCommand(m)]>>
                     ELSE <<[frame |-> EncodeResponse(m)]>> \o
                          IF Payload(m) = <<>> THEN <<>> ELSE <<[payload |-> Payload(m)]>>
  /\ UNCHANGED <<side, checksum, verify, reader, head, got>>

\* A message without a payload is complete.
Complete(m) ==
  IF m.type = "TML" THEN [type |-> m.type, crr |-> m.crr, metas |-> <<>>]
  ELSE IF m.type \in {"MSG", "RPL"} THEN m @@ ("records" :> <<>>)
  ELSE m

HasPayload(m) == m.type \in {"MSG", "RPL", "TML"} /\ m.f.length > 0

\* The prefix and the frame are read and parsed; what cannot be parsed ends the
\* reader.
ReadFrame ==
  /\ reader = "frame" /\ wire # <<>>
  /\ LET text == Head(wire).frame
         m    == ParseFrame(text)
     IN  IF ~Readable(text)
         THEN reader' = "raised" /\ UNCHANGED <<head, got>>
         ELSE IF HasPayload(m)
         THEN reader' = "payload" /\ head' = m /\ UNCHANGED got
         ELSE got' = Append(got, Complete(m)) /\ UNCHANGED <<reader, head>>
  /\ wire' = Tail(wire)
  /\ UNCHANGED <<side, checksum, verify, sent>>

\* readexactly(length).  A length that is not the payload's leaves the reader out of
\* step with the frames.
ReadPayload ==
  /\ reader = "payload" /\ wire # <<>>
  /\ LET lines == Head(wire).payload
     IN  IF head.f.length # Bytes(lines)
         THEN reader' = "garbled" /\ UNCHANGED got
         ELSE IF head.type = "TML" /\ ~ReadableLines(lines)
         THEN reader' = "raised" /\ UNCHANGED got
         ELSE /\ reader' = "frame"
              /\ got' = Append(got, IF head.type = "TML"
                          THEN [type |-> "TML", crr |-> head.crr, metas |-> ParseLines(lines)]
                          ELSE head @@ ("records" :> lines))
  /\ wire' = Tail(wire) /\ head' = <<>>
  /\ UNCHANGED <<side, checksum, verify, sent>>

Next ==
  \/ ReadFrame \/ ReadPayload
  \/ \E m \in IF side = "command" THEN Commands ELSE Responses : Send(m)

Spec == Init /\ [][Next]_vars

-----------------------------------------------------------------------------
\* What the receiver should have of m: the message, with the payload's length and
\* the checksum that travels with it.
Received(m) ==
  IF m.type \in {"MSG", "RPL"} THEN [m EXCEPT !.f = ("length" :> Length(m)) @@ @]
  ELSE IF m.type = "PUB" /\ checksum THEN [m EXCEPT !.f.payload = <<Crc(@)>> \o @]
  ELSE IF m.type = "TML" THEN [type |-> m.type, crr |-> m.crr, metas |-> m.metas]
  ELSE m

OneWord(order, f, last) ==
  \A i \in 1..Len(order) :
    order[i] \notin Ints \cup Lists /\ (last \/ i < Len(order)) => Len(f[order[i]]) = 1

\* The messages the protocol can carry: no space in a name unless it comes last,
\* no empty ISR, only ASCII in a metadata list, and a checksum if one is expected.
Fits(m) ==
  /\ IF side = "command" THEN OneWord(CommandFields[m.type], m.f, FALSE)
     ELSE OneWord(SelectSeq(ResponseFields[m.type], LAMBDA x : x # "length"), m.f, m.type \in {"MSG", "RPL"})
  /\ m.type = "TML" => /\ \A i \in 1..Len(m.metas) : OneWord(MetaLine, m.metas[i], FALSE)
                       /\ Chars(Payload(m)) = Bytes(Payload(m))
  /\ m.type = "ISR" => m.f.isr_list # <<>>
  /\ m.type = "PUB" => checksum \/ ~verify

\* How many messages were sent before the first that does not fit.
Carried == Len(SelectSeq([i \in 1..Len(sent) |-> \A j \in 1..i : Fits(sent[j])], LAMBDA b : b))

\* The receiver gets the messages that were sent, field by field and with their
\* correlation ids, up to the first that the protocol cannot carry; encoder and
\* parser agree on every tag, and no payload puts the reader out of step.
InSync ==
  /\ \A i \in 1..Len(got) : i <= Carried => got[i] = Received(sent[i])
  /\ reader \in {"raised", "garbled"} => Len(got) >= Carried
=============================================================================

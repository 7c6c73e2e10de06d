----------------------------- MODULE WireFormat -----------------------------
(***************************************************************************)
(* The wire format of src/etst/protocol.py: "<content> *XX" with a CRC-8.   *)
(* A line is its content in bytes, whether the end is still " *" and two    *)
(* hex digits, and what the digits say.  A byte is the set of its one bits, *)
(* bit 7 the first on the wire.  The board checks the bytes, the host what  *)
(* is left of them after decoding and encoding.                             *)
(***************************************************************************)
EXTENDS Naturals, Sequences, FiniteSetsExt

CONSTANTS
    Contents,  \* the contents that are sent
    Bursts     \* what damage does to two neighbouring bytes: xored to them

Bits == 0..7
Bytes == SUBSET Bits

(* A burst spans eight bits at most: the last k of a byte and the first     *)
(* 8 - k of the next.                                                       *)
Spans(burst, k) ==
    burst[1] \subseteq 0..(k - 1) /\ burst[2] \subseteq k..7

ASSUME WireAssumption ==
    /\ Contents \subseteq Seq(Bytes)
    /\ Bursts \subseteq Bytes \X Bytes
    /\ \A b \in Bursts : \E k \in 0..8 : Spans(b, k)

VARIABLES
    sent,  \* the content the sender formatted
    line   \* what is on the wire

wireVars == <<sent, line>>

Xor(a, b) == (a \ b) \cup (b \ a)

(* _CRC8_POLY, 0x31.                                                        *)
Poly == {0, 4, 5}

MutantShift(crc) == {i \in 1..7 : i - 1 \in crc}

(* One bit of compute_crc8(): the byte moves up, and what falls off the end *)
(* brings the polynomial in.                                                *)
Shift(crc) ==
    LET up == {i \in 1..7 : i - 1 \in crc}
    IN  IF 7 \in crc THEN Xor(up, Poly) ELSE up

FourShifts(crc) == Shift(Shift(Shift(Shift(crc))))

AddByte(crc, byte) == FourShifts(FourShifts(Xor(crc, byte)))

(* compute_crc8(), byte by byte.                                            *)
CrcUpTo(content) ==
    LET crc[i \in 0..Len(content)] ==
            IF i = 0 THEN {} ELSE AddByte(crc[i - 1], content[i])
    IN  crc

Crc8(content) == CrcUpTo(content)[Len(content)]

(* format_crc().                                                            *)
Format(content) == [content |-> content, marked |-> TRUE, crc |-> Crc8(content)]

-----------------------------------------------------------------------------
(* UTF-8 as Python decodes it: how long the character is that a byte        *)
(* begins, 0 if none does, and which bytes may follow.                      *)
Byte(n) == {i \in Bits : (n \div 2^i) % 2 = 1}

Span(lead) ==
    CASE 7 \notin lead -> 1
      [] lead \ (0..4) = {6, 7} /\ lead \cap (1..4) # {} -> 2
      [] lead \ (0..3) = {5, 6, 7} -> 3
      [] lead \ (0..1) = {4, 5, 6, 7} \/ lead = Byte(244) -> 4
      [] OTHER -> 0

Continues(byte) == 7 \in byte /\ 6 \notin byte

Second(lead, byte) ==
    /\ Continues(byte)
    /\ lead = Byte(224) => 5 \in byte
    /\ lead = Byte(237) => 5 \notin byte
    /\ lead = Byte(240) => {4, 5} \cap byte # {}
    /\ lead = Byte(244) => {4, 5} \cap byte = {}

(* At i: the bytes that are a character as far as they go, one at least.    *)
Taken(bytes, i) ==
    LET Begins(n) ==
            /\ n <= Span(bytes[i]) /\ i + n - 1 <= Len(bytes)
            /\ n > 1 => Second(bytes[i], bytes[i + 1])
            /\ \A k \in (i + 2)..(i + n - 1) : Continues(bytes[k])
    IN  Max({1} \cup {n \in 2..4 : Begins(n)})

(* U+FFFD, which stands for what is no whole character.                     *)
Replacement == <<Byte(239), Byte(191), Byte(189)>>

(* bytes.decode("utf-8", errors="replace").encode("utf-8").                 *)
Reencoded(bytes) ==
    LET from[i \in 1..(Len(bytes) + 1)] ==
            IF i > Len(bytes) THEN <<>>
            ELSE LET n == Taken(bytes, i)
                 IN  (IF n = Span(bytes[i]) THEN SubSeq(bytes, i, i + n - 1)
                                            ELSE Replacement) \o from[i + n]
    IN  from[1]

MutantHostContent(ln, cut) ==
    Reencoded(SubSeq(ln.content, cut + 1, Len(ln.content)))

(* _on_serial_data(): each read is decoded on its own.  The first of two    *)
(* ends after cut bytes of the content.                                     *)
HostContent(ln, cut) ==
    Reencoded(SubSeq(ln.content, 1, cut))
        \o Reencoded(SubSeq(ln.content, cut + 1, Len(ln.content)))

Cuts(ln) == 0..Len(ln.content)

(* parse_line(): crc_valid.  Without the mark the whole line is content.    *)
CrcOf(ln, cut) ==
    IF ~ln.marked THEN "absent"
    ELSE IF Crc8(HostContent(ln, cut)) = ln.crc THEN "ok" ELSE "bad"

MutantBoardAccepts(ln) == ln.marked => Crc8(ln.content) = ln.crc

(* validate_crc() of protocol.h.  Without the mark the line is refused.     *)
BoardAccepts(ln) ==
    ln.marked /\ Len(ln.content) > 0 /\ Crc8(ln.content) = ln.crc

-----------------------------------------------------------------------------
WireInit == sent \in Contents /\ line = Format(sent)

(* A burst of up to eight bits in the content.                              *)
Garbled(content, i, burst) ==
    [j \in DOMAIN content |-> CASE j = i     -> Xor(content[j], burst[1])
                                [] j = i + 1 -> Xor(content[j], burst[2])
                                [] OTHER     -> content[j]]

(* With a line end in it the line would be two.                             *)
LineEnd == Byte(10)

DamageContent ==
    /\ line = Format(sent)
    /\ \E i \in DOMAIN sent, b \in Bursts :
          /\ \A j \in DOMAIN sent : Garbled(sent, i, b)[j] # LineEnd
          /\ line' = [line EXCEPT !.content = Garbled(sent, i, b)]
    /\ UNCHANGED sent

DamageDigits ==
    /\ line = Format(sent)
    /\ \E c \in Bytes : line' = [line EXCEPT !.crc = c]
    /\ UNCHANGED sent

(* The end is lost, or no longer " *" and hex digits.                       *)
DamageMark ==
    /\ line.marked
    /\ \E n \in 0..Len(sent) :
          line' = [line EXCEPT !.marked = FALSE, !.content = SubSeq(@, 1, n)]
    /\ UNCHANGED sent

WireNext == DamageContent \/ DamageDigits \/ DamageMark

WireSpec == WireInit /\ [][WireNext]_wireVars

-----------------------------------------------------------------------------
(* Properties.                                                              *)

(* Neither side takes a garbled line for a line with a CRC, one with a      *)
(* burst of up to eight bits or one with other digits: the board never, and *)
(* not one whose CRC is gone either; the host, however the line is cut into *)
(* reads, as long as what it decoded is still the bytes of the line.        *)
GarbledIsRejected ==
    /\ BoardAccepts(line) => line = Format(sent)
    /\ \A cut \in Cuts(line) :
          CrcOf(line, cut) = "ok" /\ HostContent(line, cut) = line.content
              => line = Format(sent)

(* A line that arrives whole is accepted, if no read ends inside one of its *)
(* characters.                                                              *)
WholeIsAccepted ==
    line = Format(sent) =>
        \A cut \in Cuts(line) :
            cut = Len(sent) \/ ~Continues(sent[cut + 1]) => CrcOf(line, cut) = "ok"

(* protocol.h: "The CRC lets the host reject garbled lines".  It does not   *)
(* when a byte is no text any more: see README, known limits.               *)
HostRejectsGarbled == CrcOf(line, 0) = "ok" => line = Format(sent)

(* runner.py, _on_serial_data(): markers split across two serial reads "are *)
(* handled correctly".  Not between the bytes of a character: see README,   *)
(* known limits.                                                            *)
SplitIsAccepted ==
    line = Format(sent) => \A cut \in Cuts(line) : CrcOf(line, cut) = "ok"
=============================================================================

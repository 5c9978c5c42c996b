-------------------------------- MODULE Codec --------------------------------
(***************************************************************************)
(* The helpers of src/util/buf.h that pack integers into a byte buffer and *)
(* unpack them, least significant byte first.  The application writes      *)
(* fields of 16, 32 and 64 bits anywhere in a buffer; a later field may    *)
(* overwrite an earlier one in part.                                       *)
(***************************************************************************)
EXTENDS Naturals

CONSTANTS
    Base,   \* values of a byte; 256 in the code
    Size    \* bytes of the buffer

ASSUME CodecAssumption == Base \in Nat \ {0, 1} /\ Size \in Nat

VARIABLES
    buf,    \* the bytes
    fields  \* history: the fields written and not overwritten since

codecVars == <<buf, fields>>

Byte == 0..(Base - 1)
Cells == 0..(Size - 1)

(* Base to the power k, what a shift by k bytes multiplies or divides by. *)
Weight(k) ==
    LET two == Base * Base
        four == two * two
    IN  CASE k = 0 -> 1
          [] k = 1 -> Base
          [] k = 2 -> two
          [] k = 3 -> two * Base
          [] k = 4 -> four
          [] k = 5 -> four * Base
          [] k = 6 -> four * two
          [] k = 7 -> four * two * Base
          [] k = 8 -> four * four

Span(f) == f.at..(f.at + f.width - 1)

(* The buffer is the application's and holds anything at first. *)
CodecInit == buf \in [Cells -> Byte] /\ fields = {}

-------------------------------------------------------------------------------
ByteOf(value, k) == (value \div Weight(k)) % Base  \* (value >> 8 * k) & 0xFF

(* Bytes b[0], b[1], ... are stored from at on. *)
Stored(at, width, b) ==
    [i \in Cells |-> IF i \in at..(at + width - 1) THEN b[i - at] ELSE buf[i]]

EncodedWide(at, value, width) ==         \* mutant: a byte more than its width
    Stored(at, width + 1, [k \in 0..width |-> ByteOf(value, k)])
EncodedSwapped(at, value, width) ==      \* mutant: most significant byte first
    Stored(at, width, [k \in 0..(width - 1) |-> ByteOf(value, width - 1 - k)])
Encoded(at, value, width) ==
    Stored(at, width, [k \in 0..(width - 1) |-> ByteOf(value, k)])

(* encode_uint16_le, encode_uint32_le, encode_uint64_le. *)
encode_le(at, value, width) ==
    LET new == [at |-> at, width |-> width, value |-> value]
    IN  /\ buf' = Encoded(at, value, width)
        /\ fields' = {f \in fields : Span(f) \cap Span(new) = {}} \cup {new}

decode_uint16_le(at) == buf[at] + buf[at + 1] * Weight(1)
decode_uint32_le(at) ==
    buf[at] + buf[at + 1] * Weight(1) + buf[at + 2] * Weight(2) + buf[at + 3] * Weight(3)
decode_uint64_le(at) ==
    buf[at] + buf[at + 1] * Weight(1) + buf[at + 2] * Weight(2) + buf[at + 3] * Weight(3)
    + buf[at + 4] * Weight(4) + buf[at + 5] * Weight(5) + buf[at + 6] * Weight(6)
    + buf[at + 7] * Weight(7)

CodecNext ==
    \E width \in {2, 4, 8} :
       \E at \in {i \in Cells : i + width <= Size}, value \in 0..(Weight(width) - 1) :
          encode_le(at, value, width)

CodecSpec == CodecInit /\ [][CodecNext]_codecVars

-------------------------------------------------------------------------------
Decoded(f) ==
    CASE f.width = 2 -> decode_uint16_le(f.at)
      [] f.width = 4 -> decode_uint32_le(f.at)
      [] f.width = 8 -> decode_uint64_le(f.at)

(* Every decode_uint*_le gives back what encode_uint*_le of its width has      *)
(* stored, whatever was encoded into the other parts of the buffer since.      *)
ReadBack == \A f \in fields : Decoded(f) = f.value

(* The order of the bytes is that of the wire, little endian: the first two    *)
(* bytes of a wider field decode to its low 16 bits, the last two to its high  *)
(* ones.  An encoder and a decoder that swap bytes alike still break it.       *)
LittleEndian ==
    \A f \in fields :
       /\ decode_uint16_le(f.at) = f.value % Weight(2)
       /\ decode_uint16_le(f.at + f.width - 2) = f.value \div Weight(f.width - 2)

===============================================================================

--------------------------- MODULE SandboxPolyfills ---------------------------
(***************************************************************************)
(* The globals the sandbox installs for Effect, and what they compute: the *)
(* UTF-8 bytes of a text, written into a buffer that may be too small, and *)
(* the blocks SHA-256 reads of a message.  The compression of a block is   *)
(* left out.                                                               *)
(***************************************************************************)
EXTENDS Integers, Sequences, SequencesExt

CONSTANTS
  Units,     \* the UTF-16 code units of a text
  MaxUnits,  \* bound: the length of a text
  Rooms,     \* the sizes of the buffer
  Lengths,   \* the lengths, in bytes, of the messages
  WordRange  \* the numbers of a word: 2 ^ 32 in the code

ASSUME TextAssumption ==
  Units \subseteq Nat /\ (\A u \in Units : u < 65536) /\ MaxUnits \in Nat /\ Rooms \subseteq Nat
ASSUME DigestAssumption == Lengths \subseteq Nat /\ WordRange \in Nat \ {0} /\ WordRange % 8 = 0

VARIABLES
  text, room,   \* the arguments of encodeInto
  read, buffer, \* units read and bytes written so far
  encoding,     \* "begun" or "done"
  length,       \* of the message of digest
  offset,       \* where the block is that SHA-256 reads next
  globals,      \* global -> "missing", "native" or "sandbox"
  before,       \* what they were when the isolate was created
  inWorkflow    \* inWorkflowContext()

sandboxVars == <<text, room, read, buffer, encoding, length, offset, globals, before, inWorkflow>>

-----------------------------------------------------------------------------
(* SandboxTextEncoder.                                                     *)

IsHigh(u) == u >= 55296 /\ u <= 56319
IsLow(u) == u >= 56320 /\ u <= 57343

\* The code the loop is at: of a pair, the unit itself, or a replacement.
CodeAt(input, i) ==
  LET u == input[i]
      next == IF i < Len(input) THEN input[i + 1] ELSE 0 IN
  IF IsHigh(u) /\ IsLow(next) THEN 65536 + (u - 55296) * 1024 + (next - 56320)
  ELSE IF IsHigh(u) \/ IsLow(u) THEN 65533 ELSE u

Continued(code, weight) == 128 + ((code \div weight) % 64)
BytesOf(code) ==
  IF code <= 127 THEN <<code>>
  ELSE IF code <= 2047 THEN <<192 + (code \div 64), Continued(code, 1)>>
  ELSE IF code <= 65535 THEN <<224 + (code \div 4096), Continued(code, 64), Continued(code, 1)>>
  ELSE <<240 + (code \div 262144), Continued(code, 4096), Continued(code, 64), Continued(code, 1)>>

\* A code of a pair skips the unit after it.
After(input, i) == IF CodeAt(input, i) > 65535 THEN i + 2 ELSE i + 1

encode(input) ==
  FoldLeft(LAMBDA acc, i :
             IF i < acc.i THEN acc
             ELSE [bytes |-> acc.bytes \o BytesOf(CodeAt(input, i)), i |-> After(input, i)],
           [bytes |-> <<>>, i |-> 1], [i \in DOMAIN input |-> i]).bytes

\* The code point the iterator of the string is at: a pair or one unit.
CodePoint ==
  IF read + 1 < Len(text) /\ IsHigh(text[read + 1]) /\ IsLow(text[read + 2])
  THEN SubSeq(text, read + 1, read + 2) ELSE <<text[read + 1]>>

FitsBug == Len(encode(CodePoint)) <= room - read
Fits == Len(encode(CodePoint)) <= room - Len(buffer)

encodeInto ==
  /\ encoding = "begun"
  /\ IF read < Len(text) /\ Fits
     THEN /\ buffer' = buffer \o encode(CodePoint)
          /\ read' = read + Len(CodePoint)
          /\ UNCHANGED encoding
     ELSE encoding' = "done" /\ UNCHANGED <<buffer, read>>
  /\ UNCHANGED <<text, room, length, offset, globals, before, inWorkflow>>

-----------------------------------------------------------------------------
(* sandboxSubtleDigest: the padded message, block by block.                *)

\* The message, the bit 1, and its length in bits in two words at the end.  (The
\* code shifts 32-bit integers, which wrap from 2^31 bytes on; no text of the
\* platform has as many.)
paddedLength == (((length + 8) \div 64) + 1) * 64
LengthWords == <<length \div (WordRange \div 8), (length * 8) % WordRange>>

ReadBlock ==
  /\ offset < paddedLength
  /\ offset' = offset + 64
  /\ UNCHANGED <<text, room, read, buffer, encoding, length, globals, before, inWorkflow>>

-----------------------------------------------------------------------------
(* ensureSandboxPolyfills.                                                 *)

crypto == {"getRandomValues", "subtle", "digest"}
Globals == {"TextEncoder", "crypto", "performance"} \cup crypto

Isolates ==
  {g \in [Globals -> {"missing", "native"}] :
     /\ g["crypto"] = "missing" => \A c \in crypto : g[c] = "missing"
     /\ g["subtle"] = "missing" => g["digest"] = "missing"}

\* Missing globals are installed, and performance always is.
ensureSandboxPolyfills ==
  /\ globals' = [g \in Globals |->
       IF inWorkflow /\ (g = "performance" \/ globals[g] = "missing") THEN "sandbox" ELSE globals[g]]
  /\ UNCHANGED <<text, room, read, buffer, encoding, length, offset, before, inWorkflow>>

\* The context is used for another workflow, or the module is loaded outside.
Enter ==
  /\ inWorkflow' \in BOOLEAN
  /\ UNCHANGED <<text, room, read, buffer, encoding, length, offset, globals, before>>

-----------------------------------------------------------------------------
SandboxInit ==
  /\ text \in UNION {[1 .. n -> Units] : n \in 0 .. MaxUnits}
  /\ room \in Rooms /\ read = 0 /\ buffer = <<>> /\ encoding = "begun"
  /\ length \in Lengths /\ offset = 0
  /\ globals \in Isolates /\ before = globals /\ inWorkflow \in BOOLEAN

SandboxNext == encodeInto \/ ReadBlock \/ ensureSandboxPolyfills \/ Enter

SandboxSpec == SandboxInit /\ [][SandboxNext]_sandboxVars

-----------------------------------------------------------------------------
(* Properties.  The reference for the encoder looks from the other side:   *)
(* where a character starts in a text, and how a decoder reads bytes.      *)

\* The units at which the characters of a text start.
Firsts(units) == {i \in DOMAIN units : ~(i > 1 /\ IsLow(units[i]) /\ IsHigh(units[i - 1]))}

\* The scalar value of one; a surrogate without its other half is U+FFFD.
Scalar(units, i) ==
  IF i + 1 \in DOMAIN units \ Firsts(units) THEN 65536 + (units[i] % 1024) * 1024 + (units[i + 1] % 1024)
  ELSE IF IsHigh(units[i]) \/ IsLow(units[i]) THEN 65533 ELSE units[i]

\* How many bytes it takes at least.
Width(scalar) == IF scalar < 128 THEN 1 ELSE IF scalar < 2048 THEN 2 ELSE IF scalar < 65536 THEN 3 ELSE 4

\* The bytes at which a decoder starts a character.
Leads(bytes) == {j \in DOMAIN bytes : bytes[j] < 128 \/ bytes[j] > 191}

\* The bytes from j on are that scalar value, in no more bytes than it takes.
ReadsAs(bytes, j, scalar) ==
  LET rest(k) == bytes[j + k] - 128 IN
  /\ j \in Leads(bytes)
  /\ \A k \in 1 .. Width(scalar) - 1 : j + k \in DOMAIN bytes \ Leads(bytes)
  /\ Width(scalar) = 1 => bytes[j] = scalar
  /\ Width(scalar) = 2 => (bytes[j] - 192) * 64 + rest(1) = scalar
  /\ Width(scalar) = 3 => (bytes[j] - 224) * 4096 + rest(1) * 64 + rest(2) = scalar
  /\ Width(scalar) = 4 => (bytes[j] - 240) * 262144 + rest(1) * 4096 + rest(2) * 64 + rest(3) = scalar

\* The bytes are the characters of the first n units, in their order, and no
\* others: at tells where the character that starts at a unit is.
Encodes(bytes, units, n) ==
  \E at \in [{i \in Firsts(units) : i <= n} -> DOMAIN bytes] :
    /\ \A i \in DOMAIN at : ReadsAs(bytes, at[i], Scalar(units, i))
    /\ \A i, k \in DOMAIN at : i < k => at[i] < at[k]
    /\ \A j \in DOMAIN bytes : \E i \in DOMAIN at : at[i] <= j /\ j < at[i] + Width(Scalar(units, i))

\* At every step the buffer holds exactly the shortest encoding of the units
\* read, whole characters and within its room, and encodeInto stops only
\* when the next one does not fit; encode encodes the same way.
EncodesText ==
  /\ Encodes(encode(text), text, Len(text))
  /\ Encodes(buffer, text, read) /\ Len(buffer) <= room
  /\ read = Len(text) \/ read + 1 \in Firsts(text)
  /\ encoding = "done" /\ read < Len(text) => Len(buffer) + Width(Scalar(text, read + 1)) > room

\* SHA-256 reads the message and the padding that FIPS 180-4 asks for, in the
\* fewest blocks; the two words at the end are the length in bits.
PadsMessage ==
  /\ offset <= paddedLength
  /\ offset = paddedLength => offset - 64 < length + 9 /\ length + 9 <= offset
  /\ LengthWords[1] * WordRange + LengthWords[2] = length * 8

\* However often and wherever it runs, no native global but performance is
\* replaced, what is installed stays, and a sandbox is given all or nothing.
InstallsGlobals ==
  /\ \A g \in Globals : globals[g] # before[g] =>
       globals[g] = "sandbox" /\ (g = "performance" \/ before[g] = "missing")
  /\ globals # before => \A g \in Globals : globals[g] # "missing"

\* What Effect computes with the polyfills is what it computes outside.
PolyfillsAgree == EncodesText /\ PadsMessage /\ InstallsGlobals
=============================================================================

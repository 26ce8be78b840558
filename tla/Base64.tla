------------------------------- MODULE Base64 --------------------------------
(***************************************************************************)
(* DecodeBase64 of the HTTP service: the text of an image in a request, to *)
(* bytes, under a limit.  A text is a sequence of characters: the values   *)
(* 0 to 63 stand for the letters of the alphabet, three more for the rest. *)
(***************************************************************************)
EXTENDS Integers, Sequences, FiniteSets

Pad == 64
Space == 65
Other == 66

\* A text in a request: behind a prefix "data:" its characters count from the marker
\* ";base64," on.
Text(prefix, characters) == [prefix |-> prefix, characters |-> characters]
Prefixes == {"none", "data:;base64,", "data:"}

IsLetter(c) == c \in 0 .. 63

Error(what) == [error |-> what, output |-> <<>>]

Power2(n) == CASE n = 0 -> 1 [] n = 2 -> 4 [] n = 4 -> 16 [] n = 6 -> 64 [] n = 8 -> 256

(***************************************************************************)
(* One letter.  Of the accumulator nothing is ever read but the low bits   *)
(* that have not gone out yet, which are kept here as "rest": fewer than 8 *)
(* before a letter.                                                        *)
(***************************************************************************)
PutLetter(s, letter, maximum_output_bytes) ==
    LET rest == 64 * s.rest + letter
        bits == s.bits + 6 IN
    IF bits < 8 THEN [s EXCEPT !.symbols = @ + 1, !.rest = rest, !.bits = bits]
    ELSE IF Len(s.output) >= maximum_output_bytes THEN [s EXCEPT !.error = "too large"]
    ELSE [s EXCEPT !.symbols = @ + 1, !.bits = bits - 8, !.rest = rest % Power2(bits - 8),
                   !.output = Append(@, rest \div Power2(bits - 8))]

\* One character of the loop, which the first error ends.
Step(s, c, maximum_output_bytes) ==
    IF s.error # "none" \/ c = Space THEN s
    ELSE IF c = Pad THEN
        IF s.padding = 2 THEN [s EXCEPT !.error = "invalid padding"]
        ELSE [s EXCEPT !.symbols = @ + 1, !.padding = @ + 1]
    ELSE IF s.padding > 0 \/ ~IsLetter(c) THEN [s EXCEPT !.error = "invalid characters"]
    ELSE PutLetter(s, c, maximum_output_bytes)

Started == [error |-> "none", output |-> <<>>, rest |-> 0, bits |-> 0, symbols |-> 0, padding |-> 0]

\* Mutant: the bits that are left over are not looked at.
WellPaddedLoosely(s) ==
    /\ s.symbols % 4 = 0
    /\ s.bits # 6
    /\ s.padding = 1 => s.bits = 2
    /\ s.padding = 2 => s.bits = 4

\* At the end of the text.
WellPadded(s) ==
    /\ s.symbols % 4 = 0
    /\ s.bits # 6
    /\ s.rest = 0
    /\ s.padding = 1 => s.bits = 2
    /\ s.padding = 2 => s.bits = 4

\* The bound on the length of a text, before any of it is decoded.
EncodedLimit(maximum_output_bytes) == ((maximum_output_bytes + 2) \div 3) * 4 + 16

DecodeBase64(text, maximum_output_bytes) ==
    IF text.prefix = "data:" THEN Error("not Base64")
    ELSE IF Len(text.characters) > EncodedLimit(maximum_output_bytes) THEN Error("too large")
    ELSE LET after[i \in 0 .. Len(text.characters)] ==
                 IF i = 0 THEN Started
                 ELSE Step(after[i - 1], text.characters[i], maximum_output_bytes)
             s == after[Len(text.characters)] IN
         IF s.error # "none" THEN Error(s.error)
         ELSE IF s.output = <<>> THEN Error("empty")
         ELSE IF ~WellPadded(s) THEN Error("invalid padding")
         ELSE [error |-> "none", output |-> s.output]
------------------------------------------------------------------------------
\* The encoding as RFC 4648 defines it, letter by letter: 24 bits of three bytes are
\* four letters of 6 bits, and where bytes are missing at the end there is padding.
Letter(bytes, k) ==
    LET first == 3 * ((k - 1) \div 4) + 1
        Byte(i) == IF i <= Len(bytes) THEN bytes[i] ELSE 0 IN
    CASE k % 4 = 1 -> Byte(first) \div 4
      [] k % 4 = 2 -> 16 * (Byte(first) % 4) + Byte(first + 1) \div 16
      [] k % 4 = 3 -> IF first + 1 > Len(bytes) THEN Pad
                      ELSE 4 * (Byte(first + 1) % 16) + Byte(first + 2) \div 64
      [] k % 4 = 0 -> IF first + 2 > Len(bytes) THEN Pad ELSE Byte(first + 2) % 64

Encode(bytes) == [k \in 1 .. 4 * ((Len(bytes) + 2) \div 3) |-> Letter(bytes, k)]

\* Characters up to the i-th that are no white space.
Written(characters, i) == Cardinality({j \in 1 .. i : characters[j] # Space})

\* White space apart, the characters are the encoding of the bytes.
Encodes(characters, bytes) ==
    /\ Written(characters, Len(characters)) = Len(Encode(bytes))
    /\ \A i \in DOMAIN characters :
          characters[i] # Space => characters[i] = Encode(bytes)[Written(characters, i)]
==============================================================================

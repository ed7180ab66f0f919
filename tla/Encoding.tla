------------------------------- MODULE Encoding -------------------------------
(***************************************************************************)
(* encoding.c: keys as base64 and as hexadecimal text, without a branch or *)
(* a table that depends on a key.  A character is its code; a key is a     *)
(* sequence of bytes; a text that is not a key is read as None.            *)
(***************************************************************************)
EXTENDS Integers, SequencesExt, Bitwise

CONSTANT WG_KEY_LEN  \* 32 in the code; like it, not a multiple of 3 but one more byte would be

ASSUME KeyLenAssumption == WG_KEY_LEN \in Nat /\ WG_KEY_LEN % 3 = 2

LOCAL None == <<>>

\* The length of the text, without its terminator.
Base64Len == ((WG_KEY_LEN + 2) \div 3) * 4

\* (x >> 8) & m, for an x that is not below -256.
Mask(x, m) == IF x < 0 THEN m ELSE 0

\* ((x & y) >> 8) & v: the sign of x & y is set if both signs are.
Both(x, y, v) == IF x < 0 /\ y < 0 THEN v ELSE 0

EncodeSextet(n) == n + 65 + Mask(25 - n, 6) - Mask(51 - n, 75) - Mask(61 - n, 15) + Mask(62 - n, 3)

encode_base64(a, b, c) ==
    <<EncodeSextet(a \div 4), EncodeSextet((a % 4) * 16 + b \div 16), EncodeSextet((b % 16) * 4 + c \div 64), EncodeSextet(c % 64)>>

key_to_base64(key) ==
    LET n == WG_KEY_LEN \div 3
        block(k) == IF k < n THEN encode_base64(key[3 * k + 1], key[3 * k + 2], key[3 * k + 3])
                    ELSE encode_base64(key[3 * k + 1], key[3 * k + 2], 0)
    IN  [j \in 1..(Base64Len - 1) |-> block((j - 1) \div 4)[((j - 1) % 4) + 1]] \o <<61>>

\* The value of a character, -1 if it has none.
DecodeChar(c) ==
    -1 + Both(64 - c, c - 91, c - 64) + Both(96 - c, c - 123, c - 70) + Both(47 - c, c - 58, c + 5)
       + Both(42 - c, c - 44, 63) + Both(46 - c, c - 48, 64)

\* Four characters, as a number or -1.
decode_base64(s) ==
    IF \E k \in 1..4 : DecodeChar(s[k]) < 0 THEN -1
    ELSE DecodeChar(s[1]) * 2^18 + DecodeChar(s[2]) * 2^12 + DecodeChar(s[3]) * 2^6 + DecodeChar(s[4])

\* Mutant: the bits that are left over are not looked at.
KeyFromBase64Loose(text) ==
    LET n == WG_KEY_LEN \div 3
        val(k) == decode_base64(IF k < n THEN SubSeq(text, 4 * k + 1, 4 * k + 4) ELSE SubSeq(text, 4 * k + 1, 4 * k + 3) \o <<65>>)
    IN  IF Len(text) # Base64Len \/ text[Base64Len] # 61 \/ \E k \in 0..n : val(k) < 0 THEN None
        ELSE [j \in 1..WG_KEY_LEN |-> (val((j - 1) \div 3) \div 2^(16 - 8 * ((j - 1) % 3))) % 256]

\* The last block has no third byte: what is left of it must be zero.
key_from_base64(text) ==
    LET n == WG_KEY_LEN \div 3
        val(k) == decode_base64(IF k < n THEN SubSeq(text, 4 * k + 1, 4 * k + 4) ELSE SubSeq(text, 4 * k + 1, 4 * k + 3) \o <<65>>)
    IN  IF Len(text) # Base64Len \/ text[Base64Len] # 61 \/ (\E k \in 0..n : val(k) < 0) \/ val(n) % 256 # 0 THEN None
        ELSE [j \in 1..WG_KEY_LEN |-> (val((j - 1) \div 3) \div 2^(16 - 8 * ((j - 1) % 3))) % 256]

-----------------------------------------------------------------------------

\* 87 + d + ((d - 10) >> 8 & ~38), on unsigned numbers.
HexDigit(d) == 87 + d + Mask(d - 10, -39)

key_to_hex(key) == [j \in 1..(2 * WG_KEY_LEN) |-> HexDigit(IF j % 2 = 1 THEN key[(j + 1) \div 2] \div 16 ELSE key[j \div 2] % 16)]

\* c_num0 and c_alpha0 say which of the two values a character has.
FromHexDigit(c) ==
    LET num   == c ^^ 48
        alpha == ((c - (c & 32)) - 55) % 256
    IN  IF num < 10 THEN num ELSE IF 10 <= alpha /\ alpha < 16 THEN alpha ELSE -1

key_from_hex(hex) ==
    IF Len(hex) # 2 * WG_KEY_LEN \/ \E j \in DOMAIN hex : FromHexDigit(hex[j]) < 0 THEN None
    ELSE [j \in 1..WG_KEY_LEN |-> FromHexDigit(hex[2 * j - 1]) * 16 + FromHexDigit(hex[2 * j])]

\* The bytes are put together first, and then 1 is taken away.
key_is_zero(key) == FoldLeft(LAMBDA acc, b : acc | b, 0, key) - 1 < 0

=============================================================================

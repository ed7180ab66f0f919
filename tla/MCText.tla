-------------------------------- MODULE MCText --------------------------------
(***************************************************************************)
(* The texts the tools read from people: what the highlighter makes of     *)
(* configurations, and how keys are read and written.  A behaviour either  *)
(* highlights a text or looks at one word: a key, or a text for a key.     *)
(***************************************************************************)
EXTENDS Highlighter, Encoding

VARIABLE word  \* [kind |-> "none" | "key" | "text", s |-> bytes or codes]

Value(header, field, chars, n) ==
    [prefix |-> <<"[", header, "]", "\n", field, "=">>, next |-> chars, max |-> n + 6]

MCStarts ==
    { [prefix |-> <<>>, next |-> {" ", "\n", "#", "=", "[", "DNS"}, max |-> 5],
      [prefix |-> <<"[", "Interface", "]", "\n">>, next |-> {"\n", "[", "]", "Peer", "DNS", "="}, max |-> 10],
      [prefix |-> <<"[", "Peer", "]", " ">>, next |-> {"\n", "#", "=", "DNS", "Endpoint"}, max |-> 9],
      Value("Interface", "DNS", {"1", ":", ".", ",", " "}, 6),
      Value("Interface", "DNS", {"0", "9", ".", "a", "-"}, 5),
      Value("Interface", "DNS", {"3", ":", "."}, 9),
      Value("Interface", "Address", {"2", "5", "6", "."}, 7),
      Value("Interface", "Address", {"1", "2", "8", "9", ":", "/"}, 6),
      Value("Peer", "AllowedIPs", {"2", "3", ".", "/"}, 6),
      Value("Peer", "AllowedIPs", {"2", ":", "/", ",", " "}, 6),
      Value("Peer", "Endpoint", {"[", "]", ":", "1", "%"}, 7),
      Value("Peer", "Endpoint", {"9", ":", ".", "a"}, 6),
      Value("Interface", "MTU", {"0", "5", "7", "off"}, 4),
      Value("Interface", "FwMark", {"0", "x", "9", "F", "off"}, 4),
      Value("Interface", "SaveConfig", {"true", "false", " "}, 3),
      Value("Peer", "PresharedKey", {"A", "B", "/", "="}, 5) }

\* Codes at the edges of the ranges the tests compare with.
EdgeCodes == {42, 43, 47, 48, 57, 58, 64, 65, 70, 71, 90, 91, 96, 97, 102, 103, 122, 123, 61}
EdgeBytes == {0, 1, 3, 4, 15, 16, 51, 127, 128, 251, 252, 255}
MCWords ==
    [kind : {"key"}, s : {<<a, b>> : a \in EdgeBytes, b \in 0..255}]
      \cup [kind : {"text"}, s : {<<a, b, c, d>> : a \in {47, 65, 102}, b \in EdgeCodes, c \in 1..127, d \in {61, 65}}]

\* The character with a code, as the highlighter sees it.
Char(c) ==
    CASE c \in 48..57 -> Digits[c - 47]
      [] c \in 65..90 -> Upper[c - 64]
      [] c \in 97..122 -> Lower[c - 96]
      [] c = 43 -> "+" [] c = 47 -> "/" [] c = 61 -> "="
      [] OTHER -> "other"

MCInit ==
    /\ Init
    /\ \/ word = [kind |-> "none", s |-> <<>>]
       \/ start.prefix = <<>> /\ word \in MCWords
MCNext == word.kind = "none" /\ highlight_config /\ UNCHANGED word
MCSpec == MCInit /\ [][MCNext]_<<vars, word>>

\* Keys and their base64 texts match one to one: a key that key_to_base64 (or
\* key_to_hex) writes is read back as itself, and key_from_base64 takes no text
\* but those that are written, which are the ones the highlighter marks as a
\* key; key_from_hex takes exactly hex digits, and key_is_zero only the zeros.
KeyTextsExact ==
    /\ word.kind = "key" =>
          /\ key_from_base64(key_to_base64(word.s)) = word.s
          /\ key_from_hex(key_to_hex(word.s)) = word.s
          /\ key_is_zero(word.s) <=> word.s \in [1..WG_KEY_LEN -> {0}]
    /\ word.kind = "text" =>
          LET key == key_from_base64(word.s)
          IN  /\ key # <<>> <=> is_valid_key([k \in DOMAIN word.s |-> Char(word.s[k])])
              /\ key # <<>> => key_to_base64(key) = word.s
              /\ key_from_hex(word.s) # <<>> <=> \A k \in DOMAIN word.s : word.s[k] \in (48..57) \cup (65..70) \cup (97..102)

=============================================================================

------------------------------ MODULE Highlighter ------------------------------
(***************************************************************************)
(* contrib/highlighter: which spans of a configuration's text are what.    *)
(* The text is read character by character; a name of a field or a section *)
(* (in whatever case it is written) and a word such as off count as one    *)
(* character.  Positions begin at 1.                                       *)
(***************************************************************************)
EXTENDS Integers, SequencesExt

CONSTANTS
    Starts,     \* records: how the text begins (prefix), what can follow (next) and how long it can become (max)
    Groups,     \* 8 in the code: the groups of an IPv6 address
    Octets,     \* 4 in the code: the numbers of an IPv4 address
    KeyLen,     \* 44 in the code
    HostLen,    \* 63 in the code
    Max32       \* 4294967295 in the code

VARIABLES
    start, text,
    state,             \* "OnNone", "OnKey", "OnValue", "OnComment", "OnSection" or, at the end, "done"
    at, len,           \* current_span
    len_at_last_space, equals_location,
    current_section, current_field,
    ret                \* the spans

vars == <<start, text, state, at, len, len_at_last_space, equals_location, current_section, current_field, ret>>

Digits == <<"0", "1", "2", "3", "4", "5", "6", "7", "8", "9">>
DigitOf == [c \in Range(Digits) |-> CHOOSE n \in 0..9 : Digits[n + 1] = c]
Lower == <<"a", "b", "c", "d", "e", "f", "g", "h", "i", "j", "k", "l", "m", "n", "o", "p", "q", "r", "s", "t", "u", "v", "w", "x", "y", "z">>
Upper == <<"A", "B", "C", "D", "E", "F", "G", "H", "I", "J", "K", "L", "M", "N", "O", "P", "Q", "R", "S", "T", "U", "V", "W", "X", "Y", "Z">>
InterfaceFields == {"PrivateKey", "ListenPort", "Address", "DNS", "MTU", "FwMark", "Table", "PreUp", "PostUp", "PreDown", "PostDown", "SaveConfig"}
PeerFields == {"PublicKey", "PresharedKey", "AllowedIPs", "Endpoint", "PersistentKeepalive"}
Invalid == "Invalid"
Words == {"off", "auto", "true", "false", "Interface", "Peer"} \cup InterfaceFields \cup PeerFields
HexOf == [c \in {Lower[n] : n \in 1..6} \cup {Upper[n] : n \in 1..6} |-> CHOOSE n \in 10..15 : c \in {Lower[n - 9], Upper[n - 9]}] @@ DigitOf
Blank == {" ", "\t"}

is_decimal(c) == c \in Range(Digits)
is_hexadecimal(c) == c \in DOMAIN HexOf
is_alphabet(c) == c \in Range(Lower) \cup Range(Upper) \cup Words

\* The character at a place, which may be the one behind the span: a
\* delimiter, a blank or the end of the text, never a dot or a colon.
CharAt(s, k) == IF k \in DOMAIN s THEN s[k] ELSE "end"

\* How many characters from place k on satisfy P, up to max.
Run(s, k, max, P(_)) ==
    LET good == {n \in 0..max : k + n - 1 <= Len(s) /\ \A j \in k..(k + n - 1) : P(s[j])}
    IN  Max(good)

\* The value of digits (the caller has seen that they are).
Number(s) ==
    LET v[n \in 0..Len(s)] == IF n = 0 THEN 0 ELSE 10 * v[n - 1] + DigitOf[s[n]] IN v[Len(s)]

-----------------------------------------------------------------------------
(* What a value may be *)

Canonical == {"A", "E", "I", "M", "Q", "U", "Y", "c", "g", "k", "o", "s", "w", "4", "8", "0"}

is_valid_key(s) ==
    /\ Len(s) = KeyLen /\ s[KeyLen] = "="
    /\ \A k \in 1..(KeyLen - 2) : is_decimal(s[k]) \/ is_alphabet(s[k]) \/ s[k] \in {"/", "+"}
    /\ s[KeyLen - 1] \in Canonical

\* Two dots in a row are not noticed: a dot is passed over before the test.
is_valid_hostname(s) ==
    LET digits == Cardinality({k \in DOMAIN s : is_decimal(s[k])})
        dots   == Cardinality({k \in DOMAIN s : s[k] = "."})
    IN  /\ Len(s) \in 1..HostLen
        /\ s[1] \notin {"-", "."} /\ s[Len(s)] \notin {"-", "."}
        /\ \A k \in DOMAIN s : is_decimal(s[k]) \/ is_alphabet(s[k]) \/ s[k] \in {".", "-"}
        /\ digits # Len(s) - dots

\* The octet number i begins at pos.
is_valid_ipv4(s) ==
    LET from[i \in 0..Octets, pos \in 1..(Len(s) + 1)] ==
          LET j == Run(s, pos, 3, is_decimal)
          IN  /\ i < Octets /\ pos <= Len(s)
              /\ j > 0 /\ ~ (j > 1 /\ s[pos] = "0") /\ Number(SubSeq(s, pos, pos + j - 1)) <= 255
              /\ \/ pos + j = Len(s) + 1 /\ i = Octets - 1
                 \/ CharAt(s, pos + j) = "." /\ from[i + 1, pos + j + 1]
    IN  from[0, 1]

\* Mutant: a second "::" is taken too.
Ipv6TwoGaps(s) ==
    LET from[i \in 0..(Len(s) + 1), pos \in 1..(Len(s) + 1), seen_colon \in BOOLEAN] ==
          LET j    == Run(s, pos, 4, is_hexadecimal)
              last == i = Groups - 1
          IN  IF pos > Len(s) THEN TRUE
              ELSE IF s[pos] = ":" THEN pos = Len(s) \/ (~ last /\ from[i + 1, pos + 1, TRUE])
              ELSE /\ j > 0
                   /\ \/ pos + j = Len(s) + 1 /\ (seen_colon \/ last)
                      \/ /\ ~ last
                         /\ \/ CharAt(s, pos + j) = ":" /\ from[i + 1, pos + j + 1, seen_colon]
                            \/ CharAt(s, pos + j) = "." /\ (i >= Groups - 2 \/ seen_colon) /\ is_valid_ipv4(SubSeq(s, pos, Len(s)))
    IN  /\ Len(s) >= 2
        /\ s[1] = ":" => s[2] = ":"
        /\ s[Len(s)] = ":" => s[Len(s) - 1] = ":"
        /\ from[0, IF s[1] = ":" THEN 2 ELSE 1, FALSE]

\* The group number i begins at pos; "::" counts as one, and is seen once.
is_valid_ipv6(s) ==
    LET from[i \in 0..(Len(s) + 1), pos \in 1..(Len(s) + 1), seen_colon \in BOOLEAN] ==
          LET j    == Run(s, pos, 4, is_hexadecimal)
              last == i = Groups - 1
          IN  IF pos > Len(s) THEN TRUE
              ELSE IF s[pos] = ":" /\ ~ seen_colon THEN pos = Len(s) \/ (~ last /\ from[i + 1, pos + 1, TRUE])
              ELSE /\ j > 0
                   /\ \/ pos + j = Len(s) + 1 /\ (seen_colon \/ last)
                      \/ /\ ~ last
                         /\ \/ CharAt(s, pos + j) = ":" /\ from[i + 1, pos + j + 1, seen_colon]
                            \/ CharAt(s, pos + j) = "." /\ (i >= Groups - 2 \/ seen_colon) /\ is_valid_ipv4(SubSeq(s, pos, Len(s)))
    IN  /\ Len(s) >= 2
        /\ s[1] = ":" => s[2] = ":"
        /\ s[Len(s)] = ":" => s[Len(s) - 1] = ":"
        /\ from[0, IF s[1] = ":" THEN 2 ELSE 1, FALSE]

HexDigits(s) == \A k \in DOMAIN s : is_hexadecimal(s[k])
HexNumber(s) ==
    LET v[n \in 0..Len(s)] == IF n = 0 THEN 0 ELSE 16 * v[n - 1] + HexOf[s[n]] IN v[Len(s)]

is_valid_uint(s, support_hex, min, max) ==
    LET hex == support_hex /\ Len(s) > 2 /\ s[1] = "0" /\ s[2] = "x"
        h   == SubSeq(s, 3, Len(s))
    IN  /\ Len(s) \in 1..10
        /\ IF hex THEN HexDigits(h) /\ HexNumber(h) \in min..max
           ELSE (\A k \in DOMAIN s : is_decimal(s[k])) /\ Number(s) \in min..max

is_valid_port(s) == is_valid_uint(s, FALSE, 0, 65535)
is_valid_mtu(s) == is_valid_uint(s, FALSE, 576, 65535)
is_valid_persistentkeepalive(s) == s = <<"off">> \/ is_valid_uint(s, FALSE, 0, 65535)
is_valid_fwmark(s) == s = <<"off">> \/ is_valid_uint(s, TRUE, 0, Max32)
is_valid_table(s) == s \in {<<"auto">>, <<"off">>} \/ Len(s) < 512 \/ is_valid_uint(s, FALSE, 0, Max32)
is_valid_saveconfig(s) == s \in {<<"true">>, <<"false">>}
is_valid_prepostupdown(s) == s # <<>>
is_valid_scope(s) == Len(s) \in 1..64 /\ \A k \in DOMAIN s : is_alphabet(s[k]) \/ is_decimal(s[k]) \/ s[k] \in {"_", "=", "+", ".", "-"}

\* In brackets: an address, perhaps "%" and a scope, "]", ":" and the port; the
\* first bracket that closes counts.  Else all up to the first colon is the host.
is_valid_endpoint(s) ==
    LET first(c) == IF \E k \in DOMAIN s : s[k] = c THEN Min({k \in DOMAIN s : s[k] = c}) ELSE Len(s) + 1
        close    == first("]")
        percents == {k \in 2..(close - 1) : s[k] = "%"}
        colon    == first(":")
        from(k)  == SubSeq(s, k, Len(s))
    IN  /\ s # <<>>
        /\ IF s[1] = "["
           THEN /\ close <= Len(s) /\ Cardinality(percents) <= 1
                /\ \A k \in percents : is_valid_ipv6(SubSeq(s, 2, k - 1)) /\ is_valid_scope(SubSeq(s, k + 1, close - 1))
                /\ percents = {} => is_valid_ipv6(SubSeq(s, 2, close - 1))
                /\ CharAt(s, close + 1) = ":" /\ is_valid_port(from(close + 2))
           ELSE /\ colon <= Len(s) /\ is_valid_port(from(colon + 1))
                /\ is_valid_ipv4(SubSeq(s, 1, colon - 1)) \/ is_valid_hostname(SubSeq(s, 1, colon - 1))

is_valid_network(s) ==
    LET slashes == {k \in DOMAIN s : s[k] = "/"}
        ip      == SubSeq(s, 1, Min(slashes) - 1)
        cidr    == SubSeq(s, Min(slashes) + 1, Len(s))
    IN  IF slashes = {} THEN is_valid_ipv4(s) \/ is_valid_ipv6(s)
        ELSE /\ Len(cidr) \in 1..3 /\ \A k \in DOMAIN cidr : is_decimal(cidr[k])
             /\ IF is_valid_ipv4(ip) THEN Number(cidr) <= 32 ELSE is_valid_ipv6(ip) /\ Number(cidr) <= 128

-----------------------------------------------------------------------------
(* Fields *)

section_for_field(f) == IF f \in InterfaceFields THEN "Interface" ELSE IF f \in PeerFields THEN "Peer" ELSE Invalid

get_field(s) == IF Len(s) = 1 /\ s[1] \in InterfaceFields \cup PeerFields THEN s[1] ELSE Invalid

get_sectiontype(s) == IF s = <<"[", "Peer", "]">> THEN "Peer" ELSE IF s = <<"[", "Interface", "]">> THEN "Interface" ELSE Invalid

-----------------------------------------------------------------------------
(* Spans.  A span of no characters is not kept. *)

append_highlight_span(a, from, n, t) == IF n = 0 THEN a ELSE Append(a, [type |-> t, start |-> from, len |-> n])

Piece(s, from, n) == SubSeq(s, from, from + n - 1)

highlight_multivalue_value(a, s, from, n, f) ==
    LET v     == Piece(s, from, n)
        slash == IF \E k \in DOMAIN v : v[k] = "/" THEN Min({k \in DOMAIN v : v[k] = "/"}) ELSE n + 1
        whole(t) == append_highlight_span(a, from, n, t)
    IN  CASE f = "DNS" -> whole(IF is_valid_ipv4(v) \/ is_valid_ipv6(v) THEN "IP" ELSE IF is_valid_hostname(v) THEN "Host" ELSE "Error")
          [] f # "DNS" /\ ~ is_valid_network(v) -> whole("Error")
          [] f # "DNS" /\ is_valid_network(v) /\ slash > n -> whole("IP")
          [] f # "DNS" /\ is_valid_network(v) /\ slash <= n ->
               append_highlight_span(append_highlight_span(append_highlight_span(a, from, slash - 1, "IP"), from + slash - 1, 1, "Delimiter"),
                                     from + slash, n - slash, "Cidr")

\* One character of a list: the element ends at a comma, without its blanks.
Element(x, c, s, f) ==
    CASE c = "," -> [at |-> x.k + 1, len |-> 0, last |-> 0, k |-> x.k + 1,
                     a |-> append_highlight_span(highlight_multivalue_value(x.a, s, x.at, x.last, f), x.k, 1, "Delimiter")]
      [] c \in Blank -> IF x.k = x.at /\ x.len = 0 THEN [x EXCEPT !.at = @ + 1, !.k = @ + 1] ELSE [x EXCEPT !.len = @ + 1, !.k = @ + 1]
      [] c \notin Blank \cup {","} -> [x EXCEPT !.len = @ + 1, !.last = x.len + 1, !.k = @ + 1]

\* A list that ends with a comma has an error there.
highlight_multivalue(a, s, from, n, f) ==
    LET v == Piece(s, from, n)
        x == FoldLeft(LAMBDA y, c : Element(y, c, s, f), [at |-> from, len |-> 0, last |-> 0, k |-> from, a |-> a], v)
    IN  IF x.last # 0 THEN highlight_multivalue_value(x.a, s, x.at, x.last, f)
        ELSE IF Last(x.a).type = "Delimiter" THEN [x.a EXCEPT ![Len(x.a)].type = "Error"] ELSE x.a

\* The test and the type of the fields with one value.
Single(v) ==
    [f \in (InterfaceFields \cup PeerFields) \ {"Address", "DNS", "AllowedIPs", "Endpoint"} |->
        CASE f \in {"PrivateKey", "PublicKey", "PresharedKey"} -> <<is_valid_key(v), f>>
          [] f = "MTU" -> <<is_valid_mtu(v), "MTU">>
          [] f = "SaveConfig" -> <<is_valid_saveconfig(v), "SaveConfig">>
          [] f = "FwMark" -> <<is_valid_fwmark(v), "FwMark">>
          [] f = "Table" -> <<is_valid_table(v), "Table">>
          [] f \in {"PreUp", "PostUp", "PreDown", "PostDown"} -> <<is_valid_prepostupdown(v), "Cmd">>
          [] f = "ListenPort" -> <<is_valid_port(v), "Port">>
          [] f = "PersistentKeepalive" -> <<is_valid_persistentkeepalive(v), "Keepalive">>]

highlight_value(a, s, from, n, f) ==
    LET v     == Piece(s, from, n)
        colon == Max({k \in DOMAIN v : v[k] = ":"})
        whole(t) == append_highlight_span(a, from, n, t)
    IN  CASE f \in DOMAIN Single(v) -> whole(IF Single(v)[f][1] THEN Single(v)[f][2] ELSE "Error")
          [] f = "Endpoint" ->
               IF ~ is_valid_endpoint(v) THEN whole("Error")
               ELSE append_highlight_span(append_highlight_span(append_highlight_span(a, from, colon - 1, "Host"), from + colon - 1, 1, "Delimiter"),
                                          from + colon, n - colon, "Port")
          [] f \in {"Address", "DNS", "AllowedIPs"} -> highlight_multivalue(a, s, from, n, f)
          [] f = Invalid -> whole("Error")
-----------------------------------------------------------------------------
(* highlight_config.  The text is read as it is made up: each step takes    *)
(* the next character, or the end.                                         *)

Init ==
    /\ start \in Starts
    /\ text = <<>> /\ state = "OnNone"
    /\ at = 1 /\ len = 0 /\ len_at_last_space = 0 /\ equals_location = 1
    /\ current_section = Invalid /\ current_field = Invalid
    /\ ret = <<>>

\* The spans when a line, or its part before a comment, ends.
Flush ==
    CASE state = "OnKey" -> append_highlight_span(ret, at, len_at_last_space, "Error")
      [] state = "OnValue" /\ len # 0 ->
           highlight_value(append_highlight_span(ret, equals_location, 1, "Delimiter"), text, at, len_at_last_space, current_field)
      [] state = "OnValue" /\ len = 0 -> append_highlight_span(ret, equals_location, 1, "Error")
      [] state = "OnSection" ->
           append_highlight_span(ret, at, len_at_last_space, IF get_sectiontype(Piece(text, at, len_at_last_space)) = Invalid THEN "Error" ELSE "Section")
      [] state = "OnComment" -> append_highlight_span(ret, at, len, "Comment")
      [] state = "OnNone" -> ret

\* Mutant: a header that is not known leaves the section as it was.
SectionKept ==
    LET new == get_sectiontype(Piece(text, at, len_at_last_space))
    IN  IF state = "OnSection" /\ new # Invalid THEN new ELSE current_section

NextSection == IF state = "OnSection" THEN get_sectiontype(Piece(text, at, len_at_last_space)) ELSE current_section

\* Mutant: what comes next is added to the span.
NewSpanNot == UNCHANGED <<at, len>>

\* The span begins anew behind this character.
NewSpan == at' = Len(text) + 2 /\ len' = 0

EndLine(c) ==
    /\ c = "\n" \/ (c = "#" /\ state # "OnComment")
    /\ ret' = Flush /\ current_section' = NextSection
    /\ len_at_last_space' = 0 /\ current_field' = Invalid
    /\ IF c = "#" THEN at' = Len(text) + 1 /\ len' = 1 /\ state' = "OnComment"
       ELSE NewSpan /\ state' = "OnNone"
    /\ UNCHANGED equals_location

InComment(c) ==
    /\ c # "\n" /\ state = "OnComment"
    /\ len' = len + 1
    /\ UNCHANGED <<state, at, len_at_last_space, equals_location, current_section, current_field, ret>>

\* Blanks in front are not part of the span.
BlankChar(c) ==
    /\ c \in Blank /\ state # "OnComment"
    /\ IF Len(text) + 1 = at /\ len = 0 THEN at' = at + 1 /\ len' = len ELSE at' = at /\ len' = len + 1
    /\ UNCHANGED <<state, len_at_last_space, equals_location, current_section, current_field, ret>>

\* A field counts in its own section only.
Equals(c) ==
    /\ c = "=" /\ state = "OnKey"
    /\ current_field' = get_field(Piece(text, at, len_at_last_space))
    /\ LET section == section_for_field(current_field')
       IN  ret' = append_highlight_span(ret, at, len_at_last_space, IF section = Invalid \/ section # current_section THEN "Error" ELSE "Field")
    /\ equals_location' = Len(text) + 1
    /\ NewSpan
    /\ state' = "OnValue"
    /\ UNCHANGED <<len_at_last_space, current_section>>

Other(c) ==
    /\ state # "OnComment" /\ c \notin Blank \cup {"\n", "#"} /\ ~ (c = "=" /\ state = "OnKey")
    /\ state' = IF state # "OnNone" THEN state ELSE IF c = "[" THEN "OnSection" ELSE "OnKey"
    /\ len' = len + 1 /\ len_at_last_space' = len'
    /\ UNCHANGED <<at, equals_location, current_section, current_field, ret>>

Take(c) ==
    /\ state # "done" /\ Len(text) < start.max
    /\ text' = Append(text, c)
    /\ EndLine(c) \/ InComment(c) \/ BlankChar(c) \/ Equals(c) \/ Other(c)
    /\ UNCHANGED start

End ==
    /\ state # "done"
    /\ ret' = Flush /\ current_section' = NextSection
    /\ state' = "done"
    /\ UNCHANGED <<start, text, at, len, len_at_last_space, equals_location, current_field>>

Following == IF Len(text) < Len(start.prefix) THEN {start.prefix[Len(text) + 1]} ELSE start.next

highlight_config == End \/ \E c \in Following : Take(c)

Spec == Init /\ [][highlight_config]_vars
-----------------------------------------------------------------------------
(* Properties *)

\* highlight_config: the span that is being collected lies within what has
\* been read, and the field and the section are known ones or Invalid.
TypeOK ==
    /\ state \in {"OnNone", "OnKey", "OnValue", "OnComment", "OnSection", "done"}
    /\ at \in 1..(Len(text) + 1) /\ len \in 0..(Len(text) + 1 - at)
    /\ len_at_last_space \in 0..Len(text)
    /\ equals_location \in 1..(Len(text) + 1)
    /\ current_section \in {"Interface", "Peer", Invalid}
    /\ current_field \in InterfaceFields \cup PeerFields \cup {Invalid}

End1(p) == p.start + p.len

\* When highlight_config returns, its spans are in order, none is empty, no two
\* share a character, none leaves the text or reaches over the end of a line,
\* and every character that is not a blank is in one of them.
SpansTile ==
    state = "done" =>
        /\ \A k \in DOMAIN ret : ret[k].len > 0 /\ ret[k].start >= 1 /\ End1(ret[k]) <= Len(text) + 1
        /\ \A k \in 1..(Len(ret) - 1) : End1(ret[k]) <= ret[k + 1].start
        /\ \A p \in DOMAIN text :
             LET within == \E k \in DOMAIN ret : p \in ret[k].start..(End1(ret[k]) - 1)
             IN  /\ text[p] = "\n" => ~ within
                 /\ text[p] \notin Blank \cup {"\n"} => within

\* A blank is all there is between two places.
Bare(a, b) == \A k \in a..b : text[k] \in Blank
LineStart(p) == Max({0} \cup {k \in 1..(p - 1) : text[k] = "\n"}) + 1
LineEnd(p) == Min({Len(text) + 1} \cup {k \in p..Len(text) : text[k] \in {"\n", "#"}}) - 1
Trim(s) ==
    LET solid == {k \in DOMAIN s : s[k] \notin Blank} IN IF solid = {} THEN <<>> ELSE SubSeq(s, Min(solid), Max(solid))

\* The section of the last line before place p that begins with a bracket.
SectionAt(p) ==
    LET headers == {q \in 1..(p - 1) : text[q] = "[" /\ Bare(LineStart(q), q - 1) /\ \E k \in q..(p - 1) : text[k] = "\n"}
        header  == Trim(SubSeq(text, Max(headers), LineEnd(Max(headers))))
    IN  IF headers = {} THEN Invalid ELSE get_sectiontype(header)

\* When highlight_config returns, a name is marked as a field exactly if it
\* stands alone between the start of a line and a sign of equality and belongs
\* to the section whose header was the last above it: a header that is not
\* known ends the section before it.
FieldsInSection ==
    state = "done" =>
        \A p \in DOMAIN text :
            [type |-> "Field", start |-> p, len |-> 1] \in Range(ret) <=>
                /\ section_for_field(text[p]) # Invalid /\ section_for_field(text[p]) = SectionAt(p)
                /\ Bare(LineStart(p), p - 1)
                /\ \E q \in (p + 1)..Len(text) : text[q] = "=" /\ Bare(p + 1, q - 1)

-----------------------------------------------------------------------------
(* What the addresses, endpoints and lists are, by their grammar *)

Pieces(s, c) == FoldLeft(LAMBDA p, x : IF x = c THEN Append(p, <<>>) ELSE [p EXCEPT ![Len(p)] = Append(@, x)], << <<>> >>, s)

Decimal(s) == s # <<>> /\ \A k \in DOMAIN s : is_decimal(s[k])
IPv4Form(s) ==
    /\ Len(Pieces(s, ".")) = Octets
    /\ \A p \in Range(Pieces(s, ".")) : Decimal(p) /\ Len(p) <= 3 /\ Number(p) <= 255 /\ (p[1] = "0" => Len(p) = 1)

\* The groups that s stands for, {} if it is no list of groups; the last piece
\* may be an IPv4 address, if tail.
GroupCount(s, tail) ==
    LET p == Pieces(s, ":")
        hex(n) == Len(p[n]) \in 1..4 /\ HexDigits(p[n])
    IN  IF s = <<>> THEN {0}
        ELSE IF \E n \in 1..(Len(p) - 1) : ~ hex(n) THEN {}
        ELSE IF hex(Len(p)) THEN {Len(p)} ELSE IF tail /\ IPv4Form(Last(p)) THEN {Len(p) + 1} ELSE {}

IPv6Form(s) ==
    \/ GroupCount(s, TRUE) = {Groups}
    \/ \E k \in 1..(Len(s) - 1) :
         /\ s[k] = ":" /\ s[k + 1] = ":"
         /\ \E a \in GroupCount(SubSeq(s, 1, k - 1), FALSE), b \in GroupCount(SubSeq(s, k + 2, Len(s)), TRUE) : a + b < Groups

PrefixForm(s, most) == Decimal(s) /\ Len(s) <= 3 /\ Number(s) <= most
NetworkForm(s) ==
    \/ IPv4Form(s) \/ IPv6Form(s)
    \/ \E k \in DOMAIN s : s[k] = "/" /\ LET net == SubSeq(s, 1, k - 1) bits == SubSeq(s, k + 1, Len(s))
                                       IN  (IPv4Form(net) /\ PrefixForm(bits, 32)) \/ (IPv6Form(net) /\ PrefixForm(bits, 128))

\* Letters, digits, dots and hyphens, neither at an end a dot or a hyphen, and
\* not digits and dots only.
HostForm(s) ==
    /\ Len(s) \in 1..HostLen
    /\ \A k \in DOMAIN s : is_alphabet(s[k]) \/ is_decimal(s[k]) \/ (s[k] \in {"-", "."} /\ k \notin {1, Len(s)})
    /\ \E k \in DOMAIN s : ~ (is_decimal(s[k]) \/ s[k] = ".")

BracketForm(s) ==
    LET inner == Pieces(SubSeq(s, 2, Len(s) - 1), "%")
    IN  /\ Len(s) >= 2 /\ s[1] = "[" /\ s[Len(s)] = "]"
        /\ IPv6Form(inner[1]) /\ Len(inner) <= 2 /\ (Len(inner) = 2 => is_valid_scope(inner[2]))

EndpointForm(s) ==
    \E k \in DOMAIN s :
        LET host == SubSeq(s, 1, k - 1) port == SubSeq(s, k + 1, Len(s))
        IN  s[k] = ":" /\ Decimal(port) /\ Len(port) <= 10 /\ Number(port) <= 65535 /\ (IPv4Form(host) \/ HostForm(host) \/ BracketForm(host))

\* A list does not end with a comma; its other elements may be empty.
ListForm(s, P(_)) ==
    LET p == Pieces(s, ",") IN Trim(Last(p)) # <<>> /\ \A n \in DOMAIN p : Trim(p[n]) = <<>> \/ P(Trim(p[n]))

ValueForm(f, v) ==
    CASE f = "DNS" -> ListForm(v, LAMBDA e : IPv4Form(e) \/ IPv6Form(e) \/ HostForm(e))
      [] f \in {"Address", "AllowedIPs"} -> ListForm(v, NetworkForm)
      [] f = "Endpoint" -> EndpointForm(v)

\* The value of a list of addresses or of an endpoint is marked without an
\* error exactly if it is one by the grammar of addresses: the hand-written
\* scanners, which keep count of groups and of "::" as they go, agree with it.
ValuesExact ==
    LET n == Len(start.prefix)
        v == Trim(SubSeq(text, n + 1, Len(text)))
    IN  state = "done" /\ n > 0 /\ Len(text) >= n /\ start.prefix[n - 1] \in {"DNS", "Address", "AllowedIPs", "Endpoint"} =>
            ((\A k \in DOMAIN ret : ret[k].type # "Error") <=> v # <<>> /\ ValueForm(start.prefix[n - 1], v))

=============================================================================

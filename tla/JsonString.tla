----------------------------- MODULE JsonString -----------------------------
(***************************************************************************)
(* bc_hrbl_export_write_json_string (src/src/export/bc_hrbl_export.c): a   *)
(* string of the pool, whose bytes nobody may have verified, as a JSON     *)
(* string.  One action is one turn of the loop.  Every write may fail.     *)
(*                                                                         *)
(* The output is a sequence of tokens: <<"raw", b>> is a byte as it is,    *)
(* <<"esc", b>> the two-character escape of byte b, and <<"u", h>> the     *)
(* characters \u with the hexadecimal digits h.                            *)
(***************************************************************************)
EXTENDS Unicode, SequencesExt

CONSTANTS
    Bytes,     \* bytes the strings are made of
    MaxLength  \* bound: length of a string

VARIABLES
    data,
    ascii_only,
    index,
    out,
    status  \* "scan", then "true", or "malformed" or "io", which both return false

vars == <<data, ascii_only, index, out, status>>

Init ==
    /\ \E n \in 0 .. MaxLength : data \in [1 .. n -> Bytes]
    /\ ascii_only \in BOOLEAN
    /\ index = 0
    /\ out = <<>>
    /\ status = "scan"

-----------------------------------------------------------------------------
\* " \ and \b \f \n \r \t
Replaced == {34, 92, 8, 12, 10, 13, 9}

Raw(i, n) == [k \in 1 .. n |-> <<"raw", data[i + k]>>]

\* Padded to four digits; no caller passes a number of more.
Hex(n) == <<n \div 4096, (n \div 256) % 16, (n \div 16) % 16, n % 16>>

hex_escape(n) == <<"u", Hex(n)>>

\* Mutant: 0x10000 is not taken off.
EscapedWithoutOffset(point) ==
    IF point <= 65535 THEN <<hex_escape(point)>>
    ELSE <<hex_escape(55296 + (point \div 1024)), hex_escape(56320 + (point % 1024))>>

\* A code point past 0xFFFF takes a pair of surrogates.
Escaped(point) ==
    IF point <= 65535 THEN <<hex_escape(point)>>
    ELSE LET adjusted == point - 65536
         IN  <<hex_escape(55296 + (adjusted \div 1024)), hex_escape(56320 + (adjusted % 1024))>>

\* What the turn at place i writes.
Tokens(i) ==
    LET byte == data[i + 1]
        n == SequenceLength(byte)
    IN  IF byte \in Replaced THEN <<<<"esc", byte>>>>
        ELSE IF byte < 32 THEN <<hex_escape(byte)>>
        ELSE IF byte < 128 \/ ~ascii_only THEN Raw(i, n)
        ELSE Escaped(CodePoint(data, i))

\* bc_hrbl_export_utf8_decode succeeds: it looks at the shape of the bytes only.
Decodes(i) == WholeSequence(data, i)

Write ==
    /\ status = "scan" /\ index < Len(data)
    /\ Decodes(index)
    /\ out' = out \o Tokens(index)
    /\ index' = index + SequenceLength(data[index + 1])
    /\ UNCHANGED <<data, ascii_only, status>>

Malformed ==
    /\ status = "scan" /\ index < Len(data)
    /\ ~Decodes(index)
    /\ status' = "malformed"
    /\ UNCHANGED <<data, ascii_only, index, out>>

\* A write fails, with a part of a turn's tokens in the sink: the first of two
\* surrogates may be there without the second.
WriteFails ==
    /\ status = "scan"
    /\ LET tokens == IF index < Len(data) /\ Decodes(index) THEN Tokens(index) ELSE <<>>
       IN  \E k \in 0 .. Len(tokens) : out' = out \o SubSeq(tokens, 1, k)
    /\ status' = "io"
    /\ UNCHANGED <<data, ascii_only, index>>

\* The closing quote.
Finish ==
    /\ status = "scan" /\ index = Len(data)
    /\ status' = "true"
    /\ UNCHANGED <<data, ascii_only, index, out>>

Next == Write \/ Malformed \/ WriteFails \/ Finish

Spec == Init /\ [][Next]_vars

-----------------------------------------------------------------------------
(* A JSON parser: RFC 8259, section 7, and Unicode, table 3-6              *)

Encoded(point) ==
    IF point < 128 THEN <<point>>
    ELSE IF point < 2048 THEN <<192 + (point \div 64), 128 + (point % 64)>>
    ELSE IF point < 65536
        THEN <<224 + (point \div 4096), 128 + ((point \div 64) % 64), 128 + (point % 64)>>
        ELSE <<240 + (point \div 262144), 128 + ((point \div 4096) % 64),
               128 + ((point \div 64) % 64), 128 + (point % 64)>>

Value(h) == FoldLeft(LAMBDA v, digit : v * 16 + digit, 0, h)

IsHigh(t) == t[1] = "u" /\ Value(t[2]) \in 55296 .. 56319
IsLow(t) == t[1] = "u" /\ Value(t[2]) \in 56320 .. 57343

\* The bytes that token k of s stands for; a pair of surrogates counts at its
\* second half.
Parsed(s, k) ==
    IF s[k][1] # "u" THEN <<s[k][2]>>
    ELSE IF IsHigh(s[k]) THEN <<>>
    ELSE IF IsLow(s[k])
        THEN Encoded(65536 + (Value(s[k - 1][2]) - 55296) * 1024 + (Value(s[k][2]) - 56320))
        ELSE Encoded(Value(s[k][2]))

\* The text a parser accepts: no raw quote, backslash or control character,
\* four digits after \u, and surrogates in pairs.
IsJson(s) ==
    \A k \in DOMAIN s :
        /\ s[k][1] = "raw" => s[k][2] >= 32 /\ s[k][2] \notin {34, 92}
        /\ s[k][1] = "u" => Len(s[k][2]) = 4
        /\ IsHigh(s[k]) => k < Len(s) /\ IsLow(s[k + 1])
        /\ IsLow(s[k]) => k > 1 /\ IsHigh(s[k - 1])

Parse(s) == FlattenSeq([k \in DOMAIN s |-> Parsed(s, k)])

-----------------------------------------------------------------------------
(* Properties                                                              *)

(* A string that was written whole is JSON, and a parser gets the bytes of  *)
(* the pool back from it, with ascii_only by way of code points and         *)
(* surrogates.  (Ill-formed bytes of the right shape, such as overlong      *)
(* forms, are passed on as they are, or escaped as a different character.)  *)
StringReadsBack == status = "true" /\ WellFormed(data) => IsJson(out) /\ Parse(out) = data

(* Whatever the bytes and wherever the write stopped, no quote, backslash   *)
(* or control character of the string is in the output as it is, and with   *)
(* ascii_only no byte past 127.                                             *)
NothingBreaksOut ==
    \A k \in DOMAIN out :
        out[k][1] = "raw" =>
            /\ out[k][2] >= 32 /\ out[k][2] \notin {34, 92}
            /\ ascii_only => out[k][2] < 128

(* The export gives up on a string only where it is not UTF-8.              *)
RefusesOnlyMalformed == status = "malformed" => ~WellFormed(data)
=============================================================================

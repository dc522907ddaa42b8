--------------------------- MODULE CompactFormat ---------------------------
(***************************************************************************)
(* SysDateTime::from_string_compact(): the format and the text are scanned *)
(* side by side, with an index into each.  A field of the format has two   *)
(* characters there and a width of its own in the text, so the two indices *)
(* run apart and are kept in step by hand.  Of the text only its length    *)
(* matters: it may have been cut short.                                    *)
(***************************************************************************)
EXTENDS Integers, Sequences

CONSTANTS Fields,    \* the letters of the formats, after the %
          MaxTokens  \* bound: fields and literals of a format

ASSUME TokensAssumption == MaxTokens \in Nat \ {0}

Literal == "-"

VARIABLES format,    \* the fields and literals
          length,    \* of the text
          next,      \* the token to be scanned
          str_index,
          reads,     \* where each token's value was taken from the text: first and last
          result     \* "scan", then "null", "read" or "throws"

formatVars == <<format, length, next, str_index, reads, result>>

\* The characters a token has in a text.
Width(f) == CASE f = Literal -> 1 [] f = "Y" -> 4 [] f = "L" -> 3 [] f = "K" -> 6
              [] f = "N" -> 9 [] OTHER -> 2

\* What a case demands of the rest of the text, ...
Demands(f) == CASE f = "Y" -> 3 [] f = "K" -> 6 [] f = "N" -> 9 [] OTHER -> 2

\* Seeded bug: the milliseconds' third digit is not skipped.
Skips_Even(f) == CASE f = "Y" -> 2 [] f = "K" -> 4 [] f = "N" -> 7 [] OTHER -> 0

\* ... and what it adds to str_index besides the loop.
Skips(f) == CASE f = "Y" -> 2 [] f = "L" -> 1 [] f = "K" -> 4 [] f = "N" -> 7 [] OTHER -> 0

\* Where a token of the format begins in the text it was printed to.
Place[i \in 1 .. MaxTokens + 1] == IF i = 1 THEN 0 ELSE Place[i - 1] + Width(format[i - 1])

TextLength(f) == LET n[i \in 0 .. MaxTokens] == IF i = 0 THEN 0 ELSE n[i - 1] + Width(f[i])
                 IN n[Len(f)]

ScanInit == /\ \E n \in 1..MaxTokens : format \in [1..n -> Fields \cup {Literal}]
            /\ length \in 0 .. TextLength(format)
            /\ next = 1 /\ str_index = 1 /\ reads = <<>> /\ result = "scan"

\* A literal of the format is skipped, whatever the text has there.
ScanLiteral == /\ result = "scan" /\ next <= Len(format) /\ format[next] = Literal
               /\ reads' = Append(reads, <<0, -1>>)
               /\ str_index' = str_index + 1
               /\ next' = next + 1
               /\ UNCHANGED <<format, length, result>>

\* length() - 1 is unsigned: of an empty text it is the largest number.
AtTheEnd == length > 0 /\ str_index > length - 1

\* str.length() - (str_index - 1) is unsigned too: it wraps to a large number.
Wraps == str_index - 1 > length

\* The text is found to end before the field.
TooShort(f) == AtTheEnd \/ (~Wraps /\ length - (str_index - 1) < Demands(f))

ScanField == /\ result = "scan" /\ next <= Len(format) /\ format[next] # Literal
             /\ ~TooShort(format[next]) /\ ~Wraps
             /\ reads' = Append(reads, <<str_index - 1, str_index - 2 + Width(format[next])>>)
             /\ str_index' = str_index + Skips(format[next]) + 2
             /\ next' = next + 1
             /\ UNCHANGED <<format, length, result>>

GiveUp == /\ result = "scan" /\ next <= Len(format) /\ format[next] # Literal
          /\ TooShort(format[next])
          /\ result' = "null"
          /\ UNCHANGED <<format, length, next, str_index, reads>>

\* substr() is called with a place behind the end of the text: out_of_range.
Throw == /\ result = "scan" /\ next <= Len(format) /\ format[next] # Literal
         /\ ~TooShort(format[next]) /\ Wraps
         /\ result' = "throws"
         /\ UNCHANGED <<format, length, next, str_index, reads>>

Finish == /\ result = "scan" /\ next > Len(format)
          /\ result' = "read"
          /\ UNCHANGED <<format, length, next, str_index, reads>>

ScanNext == ScanLiteral \/ ScanField \/ GiveUp \/ Throw \/ Finish

ScanSpec == ScanInit /\ [][ScanNext]_formatVars
-----------------------------------------------------------------------------
(***************************************************************************)
(* Every field is read where it was printed, whole; a text that was cut    *)
(* short gives the null time.  Only a year or a millisecond without its    *)
(* last digit is taken for a whole one (SysDateTime.inc:192 and 241), and  *)
(* only an empty text, of a format that begins with a literal, makes the   *)
(* parser throw (the tests at :177 and :184 to :259 are unsigned).         *)
(***************************************************************************)
ReadsWhatWasPrinted ==
    /\ \A i \in DOMAIN reads : format[i] # Literal =>
          /\ reads[i] = <<Place[i], Place[i] + Width(format[i]) - 1>>
          /\ reads[i][2] < length + (IF format[i] \in {"Y", "L"} THEN 1 ELSE 0)
    /\ result = "null" => length < TextLength(format)
    /\ result = "throws" => length = 0 /\ format[1] = Literal
=============================================================================

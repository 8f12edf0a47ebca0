----------------------------- MODULE WireDecode -----------------------------
(***************************************************************************)
(* Decoding of the Beacon API's integer fields (src/internal/beacon/        *)
(* types.go): Uint64Str.UnmarshalJSON and Int64Str.UnmarshalJSON strip one *)
(* pair of surrounding quotes and hand the rest to strconv.ParseUint or    *)
(* strconv.ParseInt (base 10, bitSize 64).  strconv is library code and   *)
(* is taken by its contract (a decimal in range parses to its value), with *)
(* the width 64 replaced by Width.                                         *)
(*                                                                         *)
(* The token is the raw JSON value encoding/json hands to UnmarshalJSON:   *)
(* an integer number literal or a string literal, over a small alphabet.   *)
(* One step decodes it into the field, as json.Unmarshal does for each     *)
(* integer field of a response.                                            *)
(***************************************************************************)
EXTENDS Integers, Sequences, SequencesExt

CONSTANTS
    Width,      \* bitSize: 64 in the code
    Digits,     \* the decimal digits tokens are built from
    MaxLen      \* bound: characters of a number literal or a string's content

ASSUME Width \in Nat \ {0, 1}
ASSUME MaxLen \in Nat \ {0}

Q == "\""

DecimalDigits == {"0", "1", "2", "3", "4", "5", "6", "7", "8", "9"}

ASSUME Digits \subseteq DecimalDigits

DigitValue(c) == CHOOSE d \in 0..9 : <<"0", "1", "2", "3", "4", "5", "6", "7", "8", "9">>[d + 1] = c

Kinds == {"Uint64Str", "Int64Str"}

Fail == [ok |-> FALSE, value |-> 0]

Ok(v) == [ok |-> TRUE, value |-> v]

RECURSIVE DecimalValue(_)
DecimalValue(d) == IF d = << >> THEN 0 ELSE DigitValue(Last(d)) + 10 * DecimalValue(Front(d))

-----------------------------------------------------------------------------
(* The JSON tokens: integer number literals (an optional minus sign, no    *)
(* leading zero) and string literals whose content mixes digits and signs. *)

IsNumberLiteral(s) ==
    LET b == IF s # << >> /\ s[1] = "-" THEN Tail(s) ELSE s
    IN  /\ b # << >>
        /\ Range(b) \subseteq Digits
        /\ b[1] = "0" => Len(b) = 1

Tokens ==
    {s \in SeqOf(Digits \cup {"-"}, MaxLen) : IsNumberLiteral(s)}
    \cup {<< Q >> \o c \o << Q >> : c \in SeqOf(Digits \cup {"-", "+"}, MaxLen)}

-----------------------------------------------------------------------------
(* UnmarshalJSON.                                                          *)

(* Seeded fault for AcceptsEveryInRangeInteger: only the opening quote is  *)
(* removed.                                                                *)
UnquoteLeadingOnly(s) ==
    IF Len(s) >= 2 /\ s[1] = Q /\ s[Len(s)] = Q THEN SubSeq(s, 2, Len(s)) ELSE s

(* if len(s) >= 2 && s[0] == '"' && s[len(s)-1] == '"' { s = s[1:len(s)-1] } *)
Unquote(s) ==
    IF Len(s) >= 2 /\ s[1] = Q /\ s[Len(s)] = Q THEN SubSeq(s, 2, Len(s) - 1) ELSE s

(* strconv is the environment: ParseUint and ParseInt (base 10, bitSize   *)
(* Width) are taken as their documented contract -- a decimal digit string *)
(* (after one optional sign, for ParseInt) whose value is in the range of  *)
(* the type parses to that value, anything else is an error.              *)
IsDigitString(s) == s # << >> /\ Range(s) \subseteq DecimalDigits

ParseUint(s) ==
    IF IsDigitString(s) /\ DecimalValue(s) < 2^Width THEN Ok(DecimalValue(s)) ELSE Fail

ParseInt(s) ==
    LET neg == s # << >> /\ s[1] = "-"
        m   == IF s # << >> /\ s[1] \in {"+", "-"} THEN Tail(s) ELSE s
        v   == IF neg THEN -DecimalValue(m) ELSE DecimalValue(m)
    IN  IF IsDigitString(m) /\ v \in -(2^(Width - 1))..(2^(Width - 1) - 1) THEN Ok(v) ELSE Fail

UnmarshalResult(kind, token) ==
    IF kind = "Uint64Str" THEN ParseUint(Unquote(token)) ELSE ParseInt(Unquote(token))

-----------------------------------------------------------------------------

VARIABLES
    kind,       \* the field's type
    token,      \* the raw JSON value of the field
    field,      \* the field's value (Go zero value before decoding)
    decodeErr,  \* UnmarshalJSON returned an error
    decoded     \* UnmarshalJSON has run

vars == <<kind, token, field, decodeErr, decoded>>

(* On success *u is assigned; on error it is left as it was.               *)
UnmarshalJSON ==
    /\ ~decoded
    /\ LET r == UnmarshalResult(kind, token)
       IN  /\ field' = IF r.ok THEN r.value ELSE field
           /\ decodeErr' = ~r.ok
    /\ decoded' = TRUE
    /\ UNCHANGED <<kind, token>>

Decoded == decoded /\ UNCHANGED vars

Init ==
    /\ kind \in Kinds
    /\ token \in Tokens
    /\ field = 0
    /\ decodeErr = FALSE
    /\ decoded = FALSE

Next == UnmarshalJSON \/ Decoded

Spec == Init /\ [][Next]_vars

-----------------------------------------------------------------------------
(* The wire contract (spec 3 and 8): a field is a JSON number or a JSON    *)
(* string holding the same decimal integer, optionally signed for the      *)
(* signed fields, and decodes to that integer exactly.                     *)

(* The text of the token: a string's content, or the number literal.       *)
Text(t) == IF t[1] = Q THEN SubSeq(t, 2, Len(t) - 1) ELSE t

Signed(c) == c # << >> /\ c[1] \in {"+", "-"}

Magnitude(c) == IF Signed(c) THEN Tail(c) ELSE c

IsDecimal(k, c) ==
    /\ Magnitude(c) # << >>
    /\ Range(Magnitude(c)) \subseteq DecimalDigits
    /\ Signed(c) => k = "Int64Str"

Denoted(c) == IF Signed(c) /\ c[1] = "-" THEN -DecimalValue(Magnitude(c)) ELSE DecimalValue(Magnitude(c))

Bounds(k) == IF k = "Uint64Str" THEN 0..(2^Width - 1) ELSE -(2^(Width - 1))..(2^(Width - 1) - 1)

(* Spec 8: "accepts both "123" and 123 for every integer field; for signed *)
(* fields, accepts "-5" and -5", and values up to the field's width decode *)
(* without overflow: UnmarshalJSON succeeds on every such token, quoted or *)
(* not, and stores exactly the integer it denotes.                         *)
AcceptsEveryInRangeInteger ==
    LET c == Text(token)
    IN  (decoded /\ IsDecimal(kind, c) /\ ~(Signed(c) /\ c[1] = "+") /\ Denoted(c) \in Bounds(kind))
            => ~decodeErr /\ field = Denoted(c)

=============================================================================

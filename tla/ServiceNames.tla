---------------------------- MODULE ServiceNames ----------------------------
(***************************************************************************)
(* The name of a user's workspace Service (workspace/workspace.go) and the    *)
(* labels Kubernetes accepts (internal/validation/dns.go).  A string is a      *)
(* sequence of character codes.                                              *)
(***************************************************************************)
EXTENDS Naturals, Sequences, SequencesExt

CONSTANTS MaxLabel  \* the longest label, 63

ASSUME LabelLength == MaxLabel \in Nat \ {0}

Space == 32
Dash == 45
Digits == 48..57
Lower == 97..122
Letter(c) == 97 + c   \* the c-th small letter, from 0

\* The characters a Service name keeps as they are.
safe == Lower \cup Digits

HexDigit(d) == IF d < 10 THEN 48 + d ELSE Letter(d - 10)

\* "%2x" of a character: two columns, padded with a space, and more if it needs them.
Hex(ch) ==
    LET low == HexDigit(ch % 16)
        high == (ch \div 16) % 16
        top == ch \div 256
    IN  IF top > 0 THEN <<HexDigit(top), HexDigit(high), low>>
        ELSE <<IF high = 0 THEN Space ELSE HexDigit(high), low>>

\* A mutant: it stands in for EscapeChar to see that a property notices.
KeepsDashes(ch) == IF ch \in safe \cup {Dash} THEN <<ch>> ELSE <<Dash>> \o Hex(ch)

EscapeChar(ch) == IF ch \in safe THEN <<ch>> ELSE <<Dash>> \o Hex(ch)

\* What the string builder holds after each character of the input, and in the end.
escapism(input) ==
    LET sb[i \in 0..Len(input)] == IF i = 0 THEN <<>> ELSE sb[i-1] \o EscapeChar(input[i])
    IN  sb[Len(input)]

\* "h-%s-s"
userToServiceName(username) ==
    <<Letter(7), Dash>> \o escapism(username) \o <<Dash, Letter(18)>>

IsDNS1123Label(value) ==
    /\ Len(value) \in 1..MaxLabel
    /\ ToSet(value) \subseteq safe \cup {Dash}
    /\ Head(value) \in safe /\ Last(value) \in safe
=============================================================================

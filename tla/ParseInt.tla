------------------------------ MODULE ParseInt ------------------------------
(***************************************************************************)
(* parseInt of assignment 1 (p2/parseint.c), a character per step.  A      *)
(* character is its digit, or 10 if it is none.  An int has INT_MAX as its *)
(* largest value, and a result beyond it wraps around.                     *)
(***************************************************************************)
EXTENDS Integers, Sequences

CONSTANTS Strings, INT_MAX

ASSUME ParseAssumption == Strings \subseteq Seq(0 .. 10) /\ INT_MAX \in Nat

VARIABLES parse  \* the string, the base, the characters seen and the result

NotParsing == [string |-> << >>, base |-> 0, i |-> 0, result |-> 0, pc |-> "idle"]

ParseInit == parse = NotParsing

wrap(v) == ((v + INT_MAX + 1) % (2 * (INT_MAX + 1))) - INT_MAX - 1

(* parseInt: octal when the string begins with 0.                          *)
parseInt(s) ==
    /\ parse.pc = "idle"
    /\ parse' = IF s = << >>
                  THEN [NotParsing EXCEPT !.result = -1, !.pc = "done"]
                  ELSE [NotParsing EXCEPT !.string = s, !.pc = "digits",
                                          !.base = IF s[1] = 0 THEN 8 ELSE 10]

(* One more character of a numeral, of which a digit below digits is       *)
(* accepted, or its end.                                                   *)
NextCharacter(base, digits) ==
    LET c == parse.string[parse.i + 1] IN
    /\ parse.pc = "digits" /\ parse.base = base
    /\ parse' = IF parse.i = Len(parse.string)
                  THEN [parse EXCEPT !.pc = "done"]
                  ELSE IF c >= digits
                  THEN [parse EXCEPT !.result = -1, !.pc = "done"]
                  ELSE [parse EXCEPT !.result = wrap((@ * base) + c), !.i = @ + 1]

(* Mutated: all decimal digits are accepted.                               *)
AnyDigit == NextCharacter(8, 10)

calculateOctal   == NextCharacter(8, 8)
calculateDecimal == NextCharacter(10, 10)

ParseNext == (\E s \in Strings : parseInt(s)) \/ calculateOctal \/ calculateDecimal

ParseSpec == ParseInit /\ [][ParseNext]_parse

-----------------------------------------------------------------------------
(* The value of a numeral: the sum of its digits, from the last one on,    *)
(* by their weights, of which each is base times the one before it.        *)
Weights(base, n) ==
    LET weight[k \in 0 .. n] == IF k = 0 THEN 1 ELSE base * weight[k - 1]
    IN  weight
NumeralValue(s, base) ==
    LET n == Len(s)
        sum[k \in 0 .. n] ==
            IF k = 0 THEN 0
            ELSE sum[k - 1] + s[n + 1 - k] * Weights(base, n)[k - 1]
    IN  sum[n]

(* A numeral whose value is an int is given that value; the empty string   *)
(* and one with a wrong character give -1.  A larger value may come out as *)
(* any int, -1 and smaller numbers among them.                             *)
ParsedRight ==
    LET s == parse.string
        b == parse.base
    IN  parse.pc = "done" =>
            /\ s = << >> \/ (\E k \in DOMAIN s : s[k] >= b) => parse.result = -1
            /\ s # << >> /\ (\A k \in DOMAIN s : s[k] < b)
                         /\ NumeralValue(s, b) <= INT_MAX
                  => parse.result = NumeralValue(s, b)
=============================================================================

------------------------------ MODULE Decimal -------------------------------
(***************************************************************************)
(* Numbers as they are spelled out in decimal, in bytes: Rust's Display    *)
(* and str::parse, as src/resp.rs, src/rdb.rs and src/replica.rs use them. *)
(***************************************************************************)
EXTENDS Integers, SequencesExt

Minus == 45
Plus == 43
Nought == 48

RECURSIVE Digits(_)
Digits(n) ==
    IF n < 10 THEN <<Nought + n>> ELSE Append(Digits(n \div 10), Nought + (n % 10))

Spelled(n) == IF n < 0 THEN <<Minus>> \o Digits(-n) ELSE Digits(n)

\* Whether bytes spell a number that is not negative: a plus may lead.
Unsigned(bytes) == IF bytes # << >> /\ Head(bytes) = Plus THEN Tail(bytes) ELSE bytes

IsNumber(bytes) ==
    /\ Unsigned(bytes) # << >>
    /\ ToSet(Unsigned(bytes)) \subseteq Nought..(Nought + 9)

\* The number they spell.
NumberIn(bytes) ==
    FoldLeft(LAMBDA n, digit : 10 * n + digit - Nought, 0, Unsigned(bytes))

\* The same where a minus may lead as well.
IsSigned(bytes) ==
    IsNumber(IF bytes # << >> /\ Head(bytes) = Minus THEN Tail(bytes) ELSE bytes)

SignedIn(bytes) == IF Head(bytes) = Minus THEN -NumberIn(Tail(bytes)) ELSE NumberIn(bytes)
=============================================================================

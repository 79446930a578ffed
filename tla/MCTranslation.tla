--------------------------- MODULE MCTranslation ----------------------------
(* Instances of Translation for TLC: an integer 1, a BIT 1 (str() says "True", *)
(* the database "1"), and two codes that differ only in case.  The legacy      *)
(* column is short: of one translation it keeps a part, the other is an error. *)
EXTENDS Translation

CONSTANTS one, bit, lower, upper
CONSTANTS t1, tTrue, tLower, tUpper
CONSTANTS A, B
CONSTANTS cutA, error

MCText(v) == CASE v = one -> t1 [] v = bit -> tTrue [] v = lower -> tLower [] v = upper -> tUpper
MCCast(v) == IF v = bit THEN t1 ELSE MCText(v)
\* No entries, the BIT's texts, two codes in either order, and a repeated code.
MCEntryLists ==
    {<<>>,
     <<[code |-> tTrue, value |-> A], [code |-> t1, value |-> B]>>,
     <<[code |-> tUpper, value |-> A], [code |-> tLower, value |-> B]>>,
     <<[code |-> t1, value |-> A], [code |-> t1, value |-> B]>>}

MCAsLegacy(c, x) == CASE x = A -> cutA [] x = B -> error [] OTHER -> x
MCFold(t) == IF t = tUpper THEN tLower ELSE t
=============================================================================

--------------------------- MODULE MCDuplicateScan ---------------------------
(* DuplicateScan on documents with arrays of up to two elements.  "k/" has  *)
(* to be escaped, which makes it too long for most places; a pointer of a   *)
(* manifest fits, except that of an element with a longer index.  Two       *)
(* locations of eight bytes in all are kept.                                *)
EXTENDS DuplicateScan

\* The last one stands for the indices that take more digits.
MCNumerals == <<"0", "1", "10">>
MCKeys == {"diagnostics", "json_path", "k/"}
MCDigits == {"0", "1", "10"}

MCRawBytes ==
    [s \in MCKeys \cup MCDigits |-> IF s \in {"k/", "10"} THEN 2 ELSE 1]
MCEscapedBytes ==
    [s \in MCKeys \cup MCDigits |-> CASE s = "k/" -> 4 [] s = "10" -> 2 [] OTHER -> 1]
=============================================================================

-------------------------- MODULE MCOpeningHours --------------------------
(* Small instances of OpeningHours: every period of a day of a few minutes, a text that is *)
(* not a time, a period that begins where it ends, and a day off.                          *)
EXTENDS OpeningHours, TLC

MCTypings ==
    {r \in [given : {TRUE}, from : Minutes, until : Minutes, closed : {FALSE}] :
        r.from # r.until \/ r.from = 0}
    \cup {[given |-> TRUE, from |-> Invalid, until |-> 1, closed |-> FALSE],
          [given |-> TRUE, from |-> 1, until |-> 1, closed |-> TRUE]}

Symmetry == Permutations(Edits)

=============================================================================

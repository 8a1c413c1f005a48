-------------------------------- MODULE MCEditor -------------------------------
(* Small instances of Editor for TLC. *)
EXTENDS Editor

(* Texts of up to 2 characters; a file that fills every row; one with a    *)
(* line too long and more lines than rows.                                 *)
MCFiles ==
    LET x == "x" IN
    BoundedSeq(Char \cup {NL}, 2)
      \cup {<<x, x, NL, x, x, NL, x, x, NL, x, x>>,
            <<x, x, x, NL, NL, NL, x, NL, x, NL, x>>}

===============================================================================

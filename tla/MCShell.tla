-------------------------------- MODULE MCShell --------------------------------
(* Small instances of Shell for TLC. *)
EXTENDS Shell

CONSTANTS a, b, long, cut, x, y

(* The operand "long" has 63 characters; its first 62 are "cut". *)
MCTruncate(s) == IF s = <<long>> THEN <<cut>> ELSE s
MCLength(seg) ==
    CASE seg = EMPTY -> 0 [] seg = ".." -> 2 [] seg = cut -> 62 [] seg = long -> 63
      [] OTHER -> 1

(* Names keep three characters: "long" has four, the first three are "a".  *)
(* A path of seven characters fits: /a/b does, /a/a does not.              *)
TreeTruncate(s) == IF s = <<long>> THEN <<a>> ELSE s
TreeLength(seg) ==
    CASE seg = EMPTY -> 0 [] seg = ".." -> 2 [] seg = a -> 3 [] seg = long -> 4
      [] OTHER -> 1

(* a, b, the over-long a, "..", ".", "/a", "a/b", "../a" *)
ArgTree ==
    {<<a>>, <<b>>, <<long>>, <<".">>, <<"..">>, <<EMPTY, a>>, <<a, b>>, <<"..", a>>}

(* a, b, ".", "..", "../a" *)
ArgSteps == {<<a>>, <<b>>, <<".">>, <<"..">>, <<"..", a>>}

TextSmall == {<<x>>}

(* a, b and the over-long name, all in the root directory *)
ArgData == {<<a>>, <<b>>, <<long>>}

TextData == {<< >>, <<x>>, <<y, y>>}

(* a, b, ".", "..", "a/b", "/b" *)
ArgDoc == {<<a>>, <<b>>, <<".">>, <<"..">>, <<a, b>>, <<EMPTY, b>>}

===============================================================================

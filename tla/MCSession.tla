------------------------------- MODULE MCSession -------------------------------
(* A file, a directory limit and a pool small enough to meet them. *)
EXTENDS Session

CONSTANTS a, u

MCTruncate(s) == s

MCLength(seg) ==
    CASE seg = Sh!EMPTY -> 0 [] seg = a -> 1 [] seg = ".." -> 2 [] seg = u -> 12
      [] OTHER -> 1

MCArg == {<<a>>, <<u>>}

MCText == {<<"x">>, <<"x", "x", "x">>}

===============================================================================

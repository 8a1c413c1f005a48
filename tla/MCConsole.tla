------------------------------- MODULE MCConsole -------------------------------
(* A small keyboard and command set for Console. *)
EXTENDS Console

(* a letter, the space bar, Enter, Backspace and an arrow key *)
MCKey == {"A", "SPACEBAR", "ENTER", "BACKSPACE", "UP"}

(* The entries of the four tables for these keys.  The arrow keys are past *)
(* the end of the US tables, where the next table is in memory.            *)
MCAscii(german, shift, k) ==
    CASE k = "A"         -> IF shift THEN "A" ELSE "a"
      [] k = "SPACEBAR"  -> " "
      [] k = "ENTER"     -> NL
      [] k = "BACKSPACE" -> NUL
      [] k = "UP"        -> IF german THEN NUL ELSE "$"

MCUpper(c) == IF c = "a" THEN "A" ELSE c

MCMeaning(cmd, arg1) ==
    CASE cmd = <<"a">> -> "edit"
      [] cmd = <<"a", "a">> -> "clear"
      [] cmd = <<"A">> /\ arg1 = <<"a">> -> "us"
      [] cmd = <<"A">> /\ arg1 = <<"A">> -> "de"
      [] cmd = <<"A", "A">> -> "exit"
      [] OTHER -> "print"

MCOutput == {<< >>, <<"$", NL>>}
MCPrompt == <<"$">>
MCBanner == <<NL>>

===============================================================================

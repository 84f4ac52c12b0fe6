----------------------------- MODULE TextFiles ------------------------------
(***************************************************************************)
(* Path.write_text and Path.read_text on one file.                         *)
(*                                                                         *)
(* write_text opens the file, which empties it, and then writes the whole  *)
(* text at offset 0.  A process that dies in between, or half-way through  *)
(* the write, leaves a torn file.  If another process has written a longer *)
(* text meanwhile, its tail stays behind the new one: a mixture.  Neither  *)
(* is JSON, so reading it raises JSONDecodeError, which main and the shell *)
(* do not catch.                                                           *)
(***************************************************************************)

CONSTANTS Absent, Torn, Mixed   \* contents that are no text of the program

Spoilt == {Torn, Mixed}
Whole(content) == content \notin Spoilt \cup {Absent}

(* What the file may hold after the second half of write_text(text). Which *)
(* of two texts is longer is not modelled.                                 *)
Written(content, text) ==
    IF content \in {Torn, text} THEN {text} ELSE {text, Mixed}
=============================================================================

------------------------------ MODULE MCLexer ------------------------------
(* Source files for Lexer: every text over a few characters, those of comments
   and of strings longer than the others. *)
EXTENDS Lexer

Over(chars, n) == UNION {[1..k -> chars] : k \in 1..n}

MCLetter == {"s", "e"}
MCDigit == {"1"}
MCKeyword == {<<"s", "e">>}

Comments == Over({"/", "*", "s"}, 8)
Strings == Over({"\"", "\\", "\n", "s"}, 7)
Tokens == Over({"=", "!", "s", "e", "1", "'", " "}, 5)
Mixed == Over({"/", "*", "\"", "\\", "\n", "'", "s", "%"}, 5)

MCText == Comments \cup Strings \cup Tokens \cup Mixed
============================================================================

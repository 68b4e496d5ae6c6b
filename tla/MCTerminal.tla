------------------------------ MODULE MCTerminal ------------------------------
(* All lines of at most MaxLine tokens, those of one more without a redirec-  *)
(* tion, and some longer ones.                                               *)
EXTENDS Terminal

CONSTANT MaxLine

Token == {"a", "|", ";", "&", "(", ")", ">"}
Symbols == Token \ {">"}
MCLines == UNION {[1 .. n -> Token] : n \in 1 .. MaxLine} \union [1 .. MaxLine + 1 -> Symbols] \union
    {<<"a", "|", "a", "|", "a">>,
     <<"a", ";", "a", "|", "a">>,
     <<"a", "|", "a", "&", ";", "a">>,
     <<"(", "a", ";", "a", ")", "|", "a">>,
     <<"(", "a", "&", ")", "|", "a">>,
     <<"a", ">", "a", "a">>, <<">", "a", "a", "a">>,
     <<"(", "a", "|", "a", ")", ">", "a">>}
====

------------------------------- MODULE Lexer -------------------------------
(***************************************************************************)
(* The scanner flex makes of src/src/goianinha.l.  A rule is the set of    *)
(* the places where a text that matches it may end; the scanner takes the  *)
(* longest match of all rules and, among equals, the rule written first.   *)
(***************************************************************************)
EXTENDS Integers, FiniteSets, SequencesExt

CONSTANTS Text,          \* the source files that are scanned
          Letter, Digit, \* the characters of words, "_" among them, and numbers
          Keyword        \* the words of the table keywords

Quote == "\""

ASSUME CharAssumption ==
    /\ Letter \cap Digit = {} /\ Keyword \subseteq Seq(Letter)
    /\ (Letter \cup Digit) \cap {"/", "*", Quote, "\\", "\n", " ", "\t", "'"} = {}
    /\ \A t \in Text : t \in Seq(Range(t))

VARIABLES text,          \* the source file
          pos,           \* characters read
          yylineno,
          read,          \* history: what was matched, in order, with the token
          status         \* "scanning", or how it ended: "eof", "error" after one
                         \* of the three messages, "no_memory"

vars == <<text, pos, yylineno, read, status>>

After(s) == (s + 1)..Len(text)
All(class, s, e) == \A m \in (s + 1)..e : text[m] \in class
Starts(s, word) == Len(word) <= Len(text) - s /\ SubSeq(text, s + 1, s + Len(word)) = word

\* (item)* from s: where any number of items may end.
Star(s, Item(_, _)) ==
    LET ends[j \in s..Len(text)] == j = s \/ \E e \in s..(j - 1) : ends[e] /\ Item(e, j)
    IN  {j \in s..Len(text) : ends[j]}

\* [^*]|\*+[^/], and a mutant of it in which any character is part of a comment.
CommentItemAny(e, j) == j = e + 1
CommentItem(e, j) ==
    \/ j = e + 1 /\ text[j] # "*"
    \/ j > e + 1 /\ All({"*"}, e, j - 1) /\ text[j] # "/"
Comment(s) == IF Starts(s, <<"/", "*">>) THEN Star(s + 2, CommentItem) ELSE {}

\* [^\\\n"]|\\., and a mutant of it without escapes.
StringItemPlain(e, j) == j = e + 1 /\ text[j] \notin {"\n", Quote}
StringItem(e, j) ==
    \/ j = e + 1 /\ text[j] \notin {"\\", "\n", Quote}
    \/ j = e + 2 /\ text[e + 1] = "\\" /\ text[j] # "\n"
String(s) == IF Starts(s, <<Quote>>) THEN Star(s + 1, StringItem) ELSE {}

Operator == {<<c>> : c \in {"+", "-", "=", "*", "/", "(", ")", "{", "}", ";", ",",
                            "<", ">", "!"}}
            \cup {<<c, "=">> : c \in {"=", "!", "<", ">"}}

\* The rules, in the order of the file, with the ends of their matches.
Rules == <<"blank", "comment", "string", "word", "integer", "car", "operator",
           "two_lines", "unterminated", "invalid">>
Ends(s) == [
    blank     |-> {j \in After(s) : All({" ", "\t", "\n"}, s, j)},
    comment   |-> {j \in After(s) : /\ text[j] = "/"
                                    /\ \E b \in Comment(s) : b < j - 1 /\ All({"*"}, b, j - 1)},
    string    |-> {j \in After(s) : text[j] = Quote /\ j - 1 \in String(s)},
    word      |-> {j \in After(s) : text[s + 1] \in Letter /\ All(Letter \cup Digit, s, j)},
    integer   |-> {j \in After(s) : All(Digit, s, j)},
    car       |-> {j \in {s + 3} \cap After(s) :
                      text[s + 1] = "'" /\ text[s + 2] # "'" /\ text[j] = "'"},
    operator  |-> {j \in {s + 1, s + 2} \cap After(s) : SubSeq(text, s + 1, j) \in Operator},
    two_lines |-> {j \in After(s + 1) : /\ text[s + 1] = Quote /\ text[j] = Quote
                                        /\ \A m \in (s + 2)..(j - 1) : text[m] # Quote},
    unterminated |-> {j \in After(s) : \E b \in Comment(s) : b <= j /\ All({"*"}, b, j)},
    invalid   |-> {j \in {s + 1} : text[j] # "\n"}]

\* check_keyword: a word of the table has a token of its own.
Token(rule, lexeme) == IF rule = "word" /\ lexeme \in Keyword THEN "keyword" ELSE rule

\* A mutant of Longest: the shortest match.
Shortest(ends) == CHOOSE e \in ends : \A d \in ends : e <= d
Longest(ends) == CHOOSE e \in ends : \A d \in ends : d <= e

\* What flex matches at s.
Match(s) ==
    LET ends == Ends(s)
        to   == Longest(UNION {ends[Rules[k]] : k \in DOMAIN Rules})
        rule == Rules[CHOOSE k \in DOMAIN Rules : /\ to \in ends[Rules[k]]
                                                  /\ \A m \in 1..(k - 1) : to \notin ends[Rules[m]]]
    IN  [rule |-> Token(rule, SubSeq(text, s + 1, to)), from |-> s, to |-> to]

Scanning == status = "scanning" /\ pos < Len(text)

\* A mutant of Consume: the last character is put back.
ConsumeShort(m) ==
    /\ pos' = m.to - 1 /\ read' = Append(read, m)
    /\ yylineno' = yylineno + Cardinality({j \in (m.from + 1)..m.to : text[j] = "\n"})
    /\ text' = text

\* The characters of m are read; yylineno counts their newlines.
Consume(m) ==
    /\ pos' = m.to /\ read' = Append(read, m)
    /\ yylineno' = yylineno + Cardinality({j \in (m.from + 1)..m.to : text[j] = "\n"})
    /\ text' = text
-----------------------------------------------------------------------------
\* A rule without a return, and one that returns its token to yyparse.
Skip == Scanning /\ LET m == Match(pos) IN
    m.rule \in {"blank", "comment"} /\ Consume(m) /\ status' = status

Return == Scanning /\ LET m == Match(pos) IN
    m.rule \in {"string", "word", "keyword", "integer", "car", "operator"}
    /\ Consume(m) /\ status' = status

\* The malloc of strip_quotes or the strdup of a name fails: exit(1).
NoMemory == Scanning /\ LET m == Match(pos) IN
    m.rule \in {"string", "word"} /\ Consume(m) /\ status' = "no_memory"

\* The three messages, each followed by exit.
Fail == Scanning /\ LET m == Match(pos) IN
    m.rule \in {"two_lines", "unterminated", "invalid"} /\ Consume(m) /\ status' = "error"

EndOfFile ==
    /\ status = "scanning" /\ pos = Len(text) /\ status' = "eof"
    /\ UNCHANGED <<text, pos, yylineno, read>>

Init == text \in Text /\ pos = 0 /\ yylineno = 1 /\ read = <<>> /\ status = "scanning"

Next == Skip \/ Return \/ NoMemory \/ Fail \/ EndOfFile

Spec == Init /\ [][Next]_vars
-----------------------------------------------------------------------------
\* Type invariant: what was read is cut into matches without a gap.
TypeOK ==
    /\ text \in Text /\ pos \in 0..Len(text) /\ yylineno \in 1..(pos + 1)
    /\ status \in {"scanning", "eof", "error", "no_memory"}
    /\ \A k \in DOMAIN read : /\ read[k].rule \in {"keyword"} \cup Range(Rules)
                              /\ read[k].from = IF k = 1 THEN 0 ELSE read[k - 1].to
                              /\ read[k].to \in (read[k].from + 1)..pos

\* A "*/" at j, in a comment that was opened at s.
ClosesAt(s, j) == j >= s + 4 /\ text[j - 1] = "*" /\ text[j] = "/"

\* Comments (goianinha.l:66 and 119, two rules for one beginning): a comment
\* ends at the first "*/" before which there is no second star, if not sooner,
\* and is called unterminated only if there is no such "*/" in the file.
CommentsClose == \A m \in Range(read) : \A j \in (m.from + 4)..Len(text) :
    /\ ClosesAt(m.from, j) /\ (j = m.from + 4 \/ text[j - 2] # "*")
    => /\ m.rule = "comment" => m.to <= j
       /\ m.rule # "unterminated"

\* The quotes that are not escaped after the one at s + 1.
Closing(s) == {j \in After(s + 1) : /\ text[j] = Quote
    /\ \E b \in (s + 1)..(j - 1) : /\ (j - 1 - b) % 2 = 0 /\ All({"\\"}, b, j - 1)
                                   /\ (b = s + 1 \/ text[b] # "\\")}
OneLine(s, j) == "\n" \notin {text[m] : m \in (s + 1)..j}

\* Strings (goianinha.l:68, 114 and the last rule): a string ends at its first
\* quote that is not escaped, and is an error only if its line has none.
StringsClose == \A m \in Range(read) :
    text[m.from + 1] = Quote =>
        LET good == {j \in Closing(m.from) : OneLine(m.from, j)}
        IN  IF m.rule = "string" THEN m.to \in good /\ \A j \in good : m.to <= j
            ELSE good = {}

\* Tokens are as long as they can be: two of them that follow one another
\* without a blank are never the halves of one operator, word or number.
NothingSplit == \A k \in 1..(Len(read) - 1) :
    LET a == read[k] b == read[k + 1] IN
    /\ a.rule = "operator" => SubSeq(text, a.from + 1, b.from + 1) \notin Operator
    /\ a.rule \in {"word", "keyword"} => b.rule \notin {"word", "keyword", "integer"}
    /\ a.rule = "integer" => b.rule # "integer"

\* What the message "COMENTÁRIO NÃO TERMINADO" of goianinha.l:120 says: a
\* comment was opened that no "*/" closes.
UnterminatedMeansOpen == \A m \in Range(read) :
    m.rule = "unterminated" => \A j \in After(m.from) : ~ClosesAt(m.from, j)
============================================================================

---------------------------- MODULE LexerProofs ----------------------------
(***************************************************************************)
(* What the scanner makes of any source file: the places where comments    *)
(* and strings can end, what the longest match is, and from these where    *)
(* comments and strings do end and that no token is split.                 *)
(***************************************************************************)
EXTENDS Lexer, NaturalLemmas, SequenceTheorems

\* The text is a sequence.
IsText == text \in Seq(Range(text))

\* f satisfies the recursive definition of Star, from a, with the items I.
StarFrom(a, n, I, f) ==
    /\ f \in [a..n -> BOOLEAN]
    /\ f = [j \in a..n |-> j = a \/ \E e \in a..(j - 1) : f[e] /\ <<e, j>> \in I]

\* Some function satisfies the recursive definition of Star.
LEMMA StarExists ==
    ASSUME NEW a \in Nat, NEW n \in Nat, NEW I
    PROVE  \E f : StarFrom(a, n, I, f)
<1> DEFINE S == a..n
           G == [j \in S |-> [f \in [S -> BOOLEAN] |->
                    j = a \/ \E e \in a..(j - 1) : f[e] /\ <<e, j>> \in I]]
           height == [j \in S |-> j]
<1>1. LooksBelow(S, BOOLEAN, height, G)
  <2>1. G \in [S -> [[S -> BOOLEAN] -> BOOLEAN]] /\ height \in [S -> Nat]
    OBVIOUS
  <2>2. ASSUME NEW j \in S, NEW f \in [S -> BOOLEAN], NEW h \in [S -> BOOLEAN],
               \A i \in S : height[i] < height[j] => f[i] = h[i]
        PROVE  G[j][f] = G[j][h]
    <3>1. \A e \in a..(j - 1) : e \in S /\ height[e] < height[j]
      OBVIOUS
    <3>2. \A e \in a..(j - 1) : f[e] = h[e]
      BY <2>2, <3>1
    <3> QED BY <3>2
  <2> HIDE DEF G, height, S
  <2> QED BY <2>1, <2>2 DEF LooksBelow
<1>2. \E f : Recursive(S, BOOLEAN, G, f)
  <2> HIDE DEF G, height, S
  <2> QED BY <1>1, TreeRecursion, Zenon
<1>3. PICK f : Recursive(S, BOOLEAN, G, f)
  BY <1>2
<1>4. f \in [S -> BOOLEAN] /\ \A j \in S : f[j] = (j = a \/ \E e \in a..(j - 1) : f[e] /\ <<e, j>> \in I)
  BY <1>3 DEF Recursive
<1>5. f = [j \in S |-> j = a \/ \E e \in a..(j - 1) : f[e] /\ <<e, j>> \in I]
  BY <1>4
<1> QED BY <1>4, <1>5 DEF StarFrom

\* A comment may end after its first two characters, and one item after any
\* place where it may end.
LEMMA CommentEnds ==
    ASSUME IsText, NEW s \in 0..Len(text), Starts(s, <<"/", "*">>)
    PROVE  /\ s + 2 <= Len(text) /\ Comment(s) \subseteq (s + 2)..Len(text)
           /\ \A j \in (s + 2)..Len(text) :
                 j \in Comment(s) <=>
                     \/ j = s + 2
                     \/ \E e \in (s + 2)..(j - 1) : e \in Comment(s) /\ CommentItem(e, j)
<1> DEFINE n == Len(text)
           a == s + 2
           S == a..n
           Total(f) == f = [j \in S |-> j = a \/ \E e \in a..(j - 1) : f[e] /\ CommentItem(e, j)]
           ends == CHOOSE f : Total(f)
<1>1. n \in Nat /\ a \in Nat /\ a <= n
  BY DEF IsText, Starts
<1>2. \E f : Total(f)
  <2> DEFINE I == {p \in S \X S : CommentItem(p[1], p[2])}
  <2>1. PICK f : StarFrom(a, n, I, f)
    <3> HIDE DEF I, a, n
    <3> QED BY <1>1, StarExists, Zenon
  <2>2. ASSUME NEW j \in S, NEW e \in a..(j - 1) PROVE <<e, j>> \in I <=> CommentItem(e, j)
    <3>1. e \in S
      BY <1>1
    <3> QED BY <3>1
  <2> HIDE DEF I
  <2>3. ASSUME NEW j \in S
        PROVE  f[j] = (j = a \/ \E e \in a..(j - 1) : f[e] /\ CommentItem(e, j))
    <3>1. f[j] = (j = a \/ \E e \in a..(j - 1) : f[e] /\ <<e, j>> \in I)
      BY <2>1 DEF StarFrom
    <3>2. \A e \in a..(j - 1) : <<e, j>> \in I <=> CommentItem(e, j)
      BY <2>2
    <3>3. (\E e \in a..(j - 1) : f[e] /\ <<e, j>> \in I) <=> (\E e \in a..(j - 1) : f[e] /\ CommentItem(e, j))
      BY <3>2
    <3>4. f[j] \in BOOLEAN
      BY <2>1 DEF StarFrom
    <3> QED BY <3>1, <3>3, <3>4
  <2>4. Total(f)
    BY <2>1, <2>3 DEF StarFrom
  <2> QED BY <2>4
<1>3. Total(ends)
  <2> HIDE DEF Total
  <2> QED BY <1>2
<1>4. Comment(s) = {j \in S : ends[j]}
  BY DEF Comment, Star
<1> HIDE DEF ends
<1>5. \A j \in S : ends[j] = (j = a \/ \E e \in a..(j - 1) : ends[e] /\ CommentItem(e, j))
  BY <1>3
<1>6. ASSUME NEW j \in S
      PROVE  j \in Comment(s) <=>
                 \/ j = a
                 \/ \E e \in a..(j - 1) : e \in Comment(s) /\ CommentItem(e, j)
  <2>1. \A e \in a..(j - 1) : e \in S
    BY <1>1
  <2> QED BY <1>4, <1>5, <2>1
<1> QED BY <1>1, <1>4, <1>6

\* A string may end after its quote, and one item after any place where it may
\* end.
LEMMA StringEnds ==
    ASSUME IsText, NEW s \in 0..Len(text), Starts(s, <<Quote>>)
    PROVE  /\ s + 1 <= Len(text) /\ String(s) \subseteq (s + 1)..Len(text)
           /\ \A j \in (s + 1)..Len(text) :
                 j \in String(s) <=>
                     \/ j = s + 1
                     \/ \E e \in (s + 1)..(j - 1) : e \in String(s) /\ StringItem(e, j)
<1> DEFINE n == Len(text)
           a == s + 1
           S == a..n
           Total(f) == f = [j \in S |-> j = a \/ \E e \in a..(j - 1) : f[e] /\ StringItem(e, j)]
           ends == CHOOSE f : Total(f)
<1>1. n \in Nat /\ a \in Nat /\ a <= n
  BY DEF IsText, Starts
<1>2. \E f : Total(f)
  <2> DEFINE I == {p \in S \X S : StringItem(p[1], p[2])}
  <2>1. PICK f : StarFrom(a, n, I, f)
    <3> HIDE DEF I, a, n
    <3> QED BY <1>1, StarExists, Zenon
  <2>2. ASSUME NEW j \in S, NEW e \in a..(j - 1) PROVE <<e, j>> \in I <=> StringItem(e, j)
    <3>1. e \in S
      BY <1>1
    <3> QED BY <3>1
  <2> HIDE DEF I
  <2>3. ASSUME NEW j \in S
        PROVE  f[j] = (j = a \/ \E e \in a..(j - 1) : f[e] /\ StringItem(e, j))
    <3>1. f[j] = (j = a \/ \E e \in a..(j - 1) : f[e] /\ <<e, j>> \in I)
      BY <2>1 DEF StarFrom
    <3>2. \A e \in a..(j - 1) : <<e, j>> \in I <=> StringItem(e, j)
      BY <2>2
    <3>3. (\E e \in a..(j - 1) : f[e] /\ <<e, j>> \in I) <=> (\E e \in a..(j - 1) : f[e] /\ StringItem(e, j))
      BY <3>2
    <3>4. f[j] \in BOOLEAN
      BY <2>1 DEF StarFrom
    <3> QED BY <3>1, <3>3, <3>4
  <2>4. Total(f)
    BY <2>1, <2>3 DEF StarFrom
  <2> QED BY <2>4
<1>3. Total(ends)
  <2> HIDE DEF Total
  <2> QED BY <1>2
<1>4. String(s) = {j \in S : ends[j]}
  BY DEF String, Star
<1> HIDE DEF ends
<1>5. \A j \in S : ends[j] = (j = a \/ \E e \in a..(j - 1) : ends[e] /\ StringItem(e, j))
  BY <1>3
<1>6. ASSUME NEW j \in S
      PROVE  j \in String(s) <=>
                 \/ j = a
                 \/ \E e \in a..(j - 1) : e \in String(s) /\ StringItem(e, j)
  <2>1. \A e \in a..(j - 1) : e \in S
    BY <1>1
  <2> QED BY <1>4, <1>5, <2>1
<1> QED BY <1>1, <1>4, <1>6
-----------------------------------------------------------------------------
\* A "*/" at j without a second star before it, in a comment opened at s.
ClosesAlone(s, j) ==
    /\ j \in (s + 4)..Len(text) /\ text[j - 1] = "*" /\ text[j] = "/"
    /\ j = s + 4 \/ text[j - 2] # "*"

\* No item of a comment goes over such a "*/".
LEMMA NoItemOverClose ==
    ASSUME IsText, NEW s \in 0..Len(text), Starts(s, <<"/", "*">>), NEW j, ClosesAlone(s, j)
    PROVE  \A b \in Comment(s) : b <= j - 2
<1> DEFINE n == Len(text)
           Over == {b \in Comment(s) : b > j - 2}
<1>1. n \in Nat /\ s \in Nat /\ j \in Nat /\ s + 4 <= j /\ j <= n
  BY DEF IsText, ClosesAlone
<1>2. Comment(s) \subseteq (s + 2)..n
  BY CommentEnds
<1>3. SUFFICES ASSUME Over # {} PROVE FALSE
  BY <1>1, <1>2
<1>4. PICK b \in Over : \A c \in Over : b <= c
  <2>1. Over \in SUBSET Nat
    BY <1>1, <1>2
  <2> HIDE DEF Over
  <2> QED BY <1>3, <2>1, LeastNatural
<1>5. b \in (s + 2)..n /\ b \in Comment(s) /\ b >= j - 1
  BY <1>1, <1>2, <1>4
<1>6. PICK e \in (s + 2)..(b - 1) : e \in Comment(s) /\ CommentItem(e, b)
  <2>1. b # s + 2
    BY <1>1, <1>5
  <2> QED BY <1>5, <2>1, CommentEnds
<1>7. e \in Nat /\ e <= j - 2 /\ e < b
  <2>1. e \notin Over
    BY <1>4, <1>5, <1>6
  <2> QED BY <1>1, <1>5, <1>6, <2>1
<1>8. text[j - 1] = "*" /\ text[j] = "/" /\ (j = s + 4 \/ text[j - 2] # "*")
  BY DEF ClosesAlone
<1>9. CASE b = e + 1 /\ text[b] # "*"
  BY <1>1, <1>5, <1>7, <1>8, <1>9
<1>10. CASE b > e + 1 /\ All({"*"}, e, b - 1) /\ text[b] # "/"
  <2>1. \A m \in (e + 1)..(b - 1) : text[m] = "*"
    BY <1>10 DEF All
  <2>2. CASE b = j - 1
    <3>1. j - 2 \in (e + 1)..(b - 1) /\ j # s + 4
      BY <1>1, <1>6, <1>7, <1>10, <2>2
    <3> QED BY <1>8, <2>1, <3>1
  <2>3. CASE b = j
    BY <1>8, <1>10, <2>3
  <2>4. CASE b > j
    <3>1. j \in (e + 1)..(b - 1)
      BY <1>1, <1>5, <1>7, <2>4
    <3> QED BY <1>8, <2>1, <3>1
  <2> QED BY <1>1, <1>5, <2>2, <2>3, <2>4
<1> QED BY <1>6, <1>9, <1>10 DEF CommentItem

\* Up to the first such "*/" a comment may end after any character but a star.
LEMMA CommentReaches ==
    ASSUME IsText, NEW s \in 0..Len(text), Starts(s, <<"/", "*">>), NEW j, ClosesAlone(s, j),
           \A i \in (s + 4)..(j - 1) : ~ClosesAlone(s, i)
    PROVE  j - 2 \in Comment(s)
<1> DEFINE n == Len(text)
           a == s + 2
           Missed == {p \in a..(j - 2) : p \notin Comment(s) /\ (p = a \/ text[p] # "*")}
<1>1. n \in Nat /\ s \in Nat /\ a \in Nat /\ j \in Nat /\ s + 4 <= j /\ j <= n
  BY DEF IsText, ClosesAlone
<1>2. ASSUME NEW p \in a..n, NEW e \in a..(p - 1), e \in Comment(s), CommentItem(e, p)
      PROVE  p \in Comment(s)
  BY <1>2, CommentEnds
<1>3. a \in Comment(s)
  BY <1>1, CommentEnds
<1>4. Missed = {}
  <2> SUFFICES ASSUME Missed # {} PROVE FALSE
    OBVIOUS
  <2>1. PICK p \in Missed : \A q \in Missed : p <= q
    <3>1. Missed \in SUBSET Nat
      BY <1>1
    <3> HIDE DEF Missed
    <3> QED BY <3>1, LeastNatural
  <2>2. p \in (a + 1)..(j - 2) /\ p \notin Comment(s) /\ text[p] # "*"
    BY <1>1, <1>3, <2>1
  <2>3. ASSUME p - 1 \in Comment(s) PROVE FALSE
    <3>1. CommentItem(p - 1, p)
      BY <1>1, <2>2 DEF CommentItem
    <3>2. p \in a..n /\ p - 1 \in a..(p - 1)
      BY <1>1, <2>2
    <3> QED BY <1>2, <2>2, <2>3, <3>1, <3>2
  <2>4. p - 1 > a /\ text[p - 1] = "*"
    <3>1. p - 1 \in a..(j - 2) /\ p - 1 \notin Missed
      BY <1>1, <2>1, <2>2
    <3> QED BY <1>1, <1>3, <2>2, <2>3, <3>1
  \* the stars before p begin after b
  <2> DEFINE Runs == {b \in 0..(p - 2) : b >= a /\ All({"*"}, b, p - 1)}
  <2>5. PICK b \in Runs : \A c \in Runs : b <= c
    <3>1. p - 2 \in Runs
      BY <1>1, <2>2, <2>4 DEF All
    <3>2. Runs \in SUBSET Nat /\ Runs # {}
      BY <3>1
    <3> HIDE DEF Runs
    <3> QED BY <3>2, LeastNatural
  <2>6. b \in a..(p - 2) /\ \A m \in (b + 1)..(p - 1) : text[m] = "*"
    BY <1>1, <2>2, <2>5 DEF All
  <2>7. b = a \/ text[b] # "*"
    <3> SUFFICES ASSUME b # a, text[b] = "*" PROVE FALSE
      OBVIOUS
    <3>1. b - 1 \in Runs
      <4>1. b - 1 \in 0..(p - 2) /\ b - 1 >= a /\ (b - 1) + 1 = b
        BY <1>1, <2>2, <2>6
      <4>2. \A m \in b..(p - 1) : m = b \/ m \in (b + 1)..(p - 1)
        BY <1>1, <2>2, <2>6
      <4> QED BY <2>6, <4>1, <4>2 DEF All
    <3> QED BY <1>1, <2>5, <2>6, <3>1
  <2>8. b \in Comment(s)
    <3>1. b \in a..(j - 2) /\ ~(p <= b)
      BY <1>1, <2>2, <2>6
    <3> QED BY <2>1, <2>7, <3>1
  <2>9. CASE text[p] # "/"
    <3>1. CommentItem(b, p)
      BY <1>1, <2>2, <2>6, <2>9 DEF CommentItem, All
    <3>2. p \in a..n /\ b \in a..(p - 1)
      BY <1>1, <2>2, <2>6
    <3> QED BY <1>2, <2>2, <2>8, <3>1, <3>2
  <2>10. CASE text[p] = "/" /\ b = p - 2
    <3>1. p \in (s + 4)..(j - 1) /\ (p = s + 4 \/ text[p - 2] # "*")
      BY <1>1, <2>2, <2>4, <2>7, <2>10
    <3>2. ClosesAlone(s, p)
      BY <1>1, <2>2, <2>4, <2>10, <3>1 DEF ClosesAlone
    <3> QED BY <3>1, <3>2
  <2>11. CASE b # p - 2
    <3>1. CommentItem(b, p - 1)
      <4>1. p - 1 > b + 1 /\ \A m \in (b + 1)..(p - 2) : m \in (b + 1)..(p - 1)
        BY <1>1, <2>2, <2>6, <2>11
      <4>2. All({"*"}, b, (p - 1) - 1)
        BY <1>1, <2>2, <2>6, <4>1 DEF All
      <4> QED BY <2>4, <4>1, <4>2 DEF CommentItem
    <3>2. p - 1 \in a..n /\ b \in a..((p - 1) - 1)
      BY <1>1, <2>2, <2>6
    <3> QED BY <1>2, <2>3, <2>8, <3>1, <3>2
  <2> QED BY <2>9, <2>10, <2>11
<1>5. j - 2 \in a..(j - 2) /\ (j - 2 = a \/ text[j - 2] # "*")
  BY <1>1 DEF ClosesAlone
<1> QED BY <1>4, <1>5
-----------------------------------------------------------------------------
\* A rule matches characters after s only.
LEMMA EndsAreAfter ==
    ASSUME IsText, NEW s \in 0..(Len(text) - 1), NEW k \in DOMAIN Rules
    PROVE  Ends(s)[Rules[k]] \subseteq (s + 1)..Len(text)
<1>1. Len(text) \in Nat
  BY DEF IsText
<1>2. k \in 1..10
  BY DEF Rules
<1> DEFINE r == Ends(s)
<1>3. /\ r.blank \subseteq After(s) /\ r.comment \subseteq After(s) /\ r.string \subseteq After(s)
      /\ r.word \subseteq After(s) /\ r.integer \subseteq After(s) /\ r.car \subseteq After(s)
      /\ r.operator \subseteq After(s) /\ r.unterminated \subseteq After(s)
  BY DEF Ends
<1>4. r.two_lines \subseteq After(s) /\ r.invalid \subseteq After(s)
  <2>1. After(s + 1) \subseteq After(s) /\ s + 1 \in After(s)
    BY <1>1 DEF After
  <2> QED BY <2>1 DEF Ends
<1> HIDE DEF r
<1>5. r[Rules[k]] \subseteq After(s)
  BY <1>2, <1>3, <1>4 DEF Rules
<1> QED BY <1>5 DEF r, After

\* The scanner takes the longest match, and the first rule that has it.
LEMMA MatchIsLongest ==
    ASSUME IsText, NEW s \in 0..(Len(text) - 1)
    PROVE  /\ Match(s).from = s /\ Match(s).to \in (s + 1)..Len(text)
           /\ \A k \in DOMAIN Rules : \A e \in Ends(s)[Rules[k]] : e <= Match(s).to
           /\ \E k \in DOMAIN Rules :
                 /\ Match(s).to \in Ends(s)[Rules[k]]
                 /\ \A i \in 1..(k - 1) : Match(s).to \notin Ends(s)[Rules[i]]
                 /\ Match(s).rule = Token(Rules[k], SubSeq(text, s + 1, Match(s).to))
<1> DEFINE n == Len(text)
           E(k) == Ends(s)[Rules[k]]
           every == UNION {E(k) : k \in DOMAIN Rules}
           to == Longest(every)
           First(k) == k \in DOMAIN Rules /\ to \in E(k) /\ \A i \in 1..(k - 1) : to \notin E(i)
           first == CHOOSE k \in DOMAIN Rules : to \in E(k) /\ \A i \in 1..(k - 1) : to \notin E(i)
<1>1. n \in Nat
  BY DEF IsText
<1>2. DOMAIN Rules = 1..10
  BY DEF Rules
<1>3. \A k \in DOMAIN Rules : E(k) \subseteq (s + 1)..n
  BY EndsAreAfter
<1>4. every # {}
  <2>1. CASE text[s + 1] = "\n"
    <3>1. s + 1 \in Ends(s).blank
      <4>1. s + 1 \in After(s) /\ \A i \in (s + 1)..(s + 1) : i = s + 1
        BY <1>1 DEF After
      <4>2. All({" ", "\t", "\n"}, s, s + 1)
        BY <2>1, <4>1 DEF All
      <4> QED BY <4>1, <4>2 DEF Ends
    <3>2. s + 1 \in E(1)
      BY <3>1 DEF Rules
    <3> QED BY <1>2, <3>2
  <2>2. CASE text[s + 1] # "\n"
    <3>1. s + 1 \in Ends(s).invalid
      BY <2>2 DEF Ends
    <3>2. s + 1 \in E(10)
      BY <3>1 DEF Rules
    <3> QED BY <1>2, <3>2
  <2> QED BY <2>1, <2>2
<1>5. Match(s) = [rule |-> Token(Rules[first], SubSeq(text, s + 1, to)), from |-> s, to |-> to]
  BY DEF Match
<1> HIDE DEF E
<1>6. to \in every /\ \A e \in every : e <= to
  <2>1. every \in SUBSET (0..n)
    BY <1>1, <1>3
  <2> HIDE DEF every
  <2>2. \E e \in every : \A d \in every : d <= e
    BY <1>1, <1>4, <2>1, GreatestNatural
  <2> QED BY <2>2 DEF Longest
<1> HIDE DEF to
<1>7. PICK k \in DOMAIN Rules : First(k)
  <2> DEFINE K == {k \in DOMAIN Rules : to \in E(k)}
  <2>1. K # {} /\ K \in SUBSET Nat
    BY <1>2, <1>6
  <2>2. PICK k \in K : \A i \in K : k <= i
    <3> HIDE DEF K
    <3> QED BY <2>1, LeastNatural
  <2>3. ASSUME NEW i \in 1..(k - 1) PROVE to \notin E(i)
    <3>1. i \in DOMAIN Rules /\ ~(k <= i)
      BY <1>2, <2>2
    <3> QED BY <2>2, <3>1
  <2> QED BY <2>2, <2>3
<1>8. First(first)
  BY <1>7
<1> HIDE DEF first
<1>9. Match(s).to = to /\ Match(s).from = s /\ Match(s).rule = Token(Rules[first], SubSeq(text, s + 1, to))
  BY <1>5
<1>10. to \in (s + 1)..n
  BY <1>3, <1>6
<1>11. \A i \in DOMAIN Rules : \A e \in Ends(s)[Rules[i]] : e <= to
  BY <1>6 DEF E
<1>12. /\ first \in DOMAIN Rules /\ to \in Ends(s)[Rules[first]]
       /\ \A i \in 1..(first - 1) : to \notin Ends(s)[Rules[i]]
  BY <1>8 DEF E
<1> QED BY <1>9, <1>10, <1>11, <1>12

\* The rule of a match is one that ends there; a string that is matched is
\* taken for one, unless it is also a blank or a comment.
LEMMA MatchedBy ==
    ASSUME IsText, NEW s \in 0..(Len(text) - 1), NEW m, m = Match(s)
    PROVE  /\ m.rule \in {"keyword"} \cup Range(Rules)
           /\ m.rule = "comment" => m.to \in Ends(s).comment
           /\ m.rule = "unterminated" => m.to \in Ends(s).unterminated
           /\ m.rule = "string" => m.to \in Ends(s).string
           /\ m.rule = "operator" => m.to \in Ends(s).operator
           /\ m.rule \in {"word", "keyword"} => m.to \in Ends(s).word
           /\ m.rule = "integer" => m.to \in Ends(s).integer
           /\ m.rule # "string" => \/ m.to \notin Ends(s).string
                                   \/ m.to \in Ends(s).blank \cup Ends(s).comment
<1> DEFINE r == Ends(s)
<1>1. PICK k \in DOMAIN Rules :
          /\ m.to \in Ends(s)[Rules[k]] /\ \A i \in 1..(k - 1) : m.to \notin Ends(s)[Rules[i]]
          /\ m.rule = Token(Rules[k], SubSeq(text, s + 1, m.to))
  BY MatchIsLongest
<1>2. m.rule = Rules[k] \/ (Rules[k] = "word" /\ m.rule = "keyword")
  BY <1>1 DEF Token
<1>3. k \in 1..10 /\ m.to \in r[Rules[k]]
  BY <1>1 DEF Rules
<1>4. \A i \in 1..(k - 1) : m.to \notin r[Rules[i]]
  BY <1>1
<1> HIDE DEF r
<1>5. m.rule \in {"keyword"} \cup Range(Rules)
  BY <1>1, <1>2 DEF Range
<1>6. /\ m.rule = "comment" => m.to \in r.comment
      /\ m.rule = "unterminated" => m.to \in r.unterminated
      /\ m.rule = "string" => m.to \in r.string
      /\ m.rule = "operator" => m.to \in r.operator
      /\ m.rule \in {"word", "keyword"} => m.to \in r.word
      /\ m.rule = "integer" => m.to \in r.integer
  BY <1>2, <1>3 DEF Rules
<1>7. m.rule # "string" => m.to \notin r.string \/ m.to \in r.blank \cup r.comment
  <2> SUFFICES ASSUME m.rule # "string", m.to \in r.string
               PROVE  m.to \in r.blank \cup r.comment
    OBVIOUS
  <2>1. k # 3
    BY <1>2 DEF Rules
  <2>2. ~(3 \in 1..(k - 1))
    BY <1>4 DEF Rules
  <2>3. k \in {1, 2}
    BY <1>3, <2>1, <2>2
  <2> QED BY <1>3, <2>3 DEF Rules
<1> QED BY <1>5, <1>6, <1>7 DEF r

\* No match of any rule goes beyond the one that is taken.
LEMMA NoLonger ==
    ASSUME IsText, NEW s \in 0..(Len(text) - 1), NEW e,
           \/ e \in Ends(s).comment \/ e \in Ends(s).string \/ e \in Ends(s).word
           \/ e \in Ends(s).integer \/ e \in Ends(s).operator
    PROVE  e <= Match(s).to
<1> DEFINE r == Ends(s)
<1>1. \A k \in DOMAIN Rules : e \in r[Rules[k]] => e <= Match(s).to
  BY MatchIsLongest
<1>2. DOMAIN Rules = 1..10
  BY DEF Rules
<1>3. \/ e \in r.comment \/ e \in r.string \/ e \in r.word
      \/ e \in r.integer \/ e \in r.operator
  OBVIOUS
<1> HIDE DEF r
<1>4. \/ e \in r[Rules[2]] \/ e \in r[Rules[3]] \/ e \in r[Rules[4]]
      \/ e \in r[Rules[5]] \/ e \in r[Rules[7]]
  BY <1>3 DEF Rules
<1> QED BY <1>1, <1>2, <1>4

\* A comment ends no later than the first "*/" without a second star before it,
\* and is then not called unterminated.
LEMMA CommentOfMatch ==
    ASSUME IsText, NEW s \in 0..(Len(text) - 1), NEW m, m = Match(s), NEW j, ClosesAlone(s, j)
    PROVE  /\ m.rule = "comment" => m.to <= j
           /\ m.rule # "unterminated"
<1>1. Len(text) \in Nat /\ s \in 0..Len(text)
  BY DEF IsText
<1>2. ASSUME NEW i, ClosesAlone(s, i), Starts(s, <<"/", "*">>)
      PROVE  /\ \A e \in Ends(s).comment : e <= i
             /\ \A e \in Ends(s).unterminated : e < i
  <2>1. \A b \in Comment(s) : b \in Nat /\ b <= i - 2
    BY <1>1, <1>2, NoItemOverClose, CommentEnds
  <2>2. i \in Nat /\ text[i] = "/"
    BY <1>1, <1>2 DEF ClosesAlone
  <2>3. ASSUME NEW e \in Ends(s).comment PROVE e <= i
    <3>1. e \in After(s) /\ \E b \in Comment(s) : b < e - 1 /\ All({"*"}, b, e - 1)
      BY DEF Ends
    <3>2. PICK b \in Comment(s) : b < e - 1 /\ All({"*"}, b, e - 1)
      BY <3>1
    <3>3. e \in Nat /\ b \in Nat /\ b <= i - 2
      BY <1>1, <2>1, <3>1 DEF After
    <3>4. ~(e > i)
      BY <2>2, <3>2, <3>3 DEF All
    <3> QED BY <2>2, <3>3, <3>4
  <2>4. ASSUME NEW e \in Ends(s).unterminated PROVE e < i
    <3>1. e \in After(s) /\ \E b \in Comment(s) : b <= e /\ All({"*"}, b, e)
      BY DEF Ends
    <3>2. PICK b \in Comment(s) : b <= e /\ All({"*"}, b, e)
      BY <3>1
    <3>3. e \in Nat /\ b \in Nat /\ b <= i - 2
      BY <1>1, <2>1, <3>1 DEF After
    <3>4. ~(e >= i)
      BY <2>2, <3>2, <3>3 DEF All
    <3> QED BY <2>2, <3>3, <3>4
  <2> QED BY <2>3, <2>4
<1>3. m.rule \in {"comment", "unterminated"} => Starts(s, <<"/", "*">>)
  <2>1. Ends(s).comment # {} \/ Ends(s).unterminated # {} => Comment(s) # {}
    BY DEF Ends
  <2>2. Comment(s) # {} => Starts(s, <<"/", "*">>)
    BY DEF Comment
  <2> QED BY <2>1, <2>2, MatchedBy
<1>4. m.rule = "comment" => m.to <= j
  BY <1>2, <1>3, MatchedBy
<1>5. m.rule # "unterminated"
  <2> SUFFICES ASSUME m.rule = "unterminated" PROVE FALSE
    OBVIOUS
  <2>1. Starts(s, <<"/", "*">>) /\ m.to \in Ends(s).unterminated
    BY <1>3, MatchedBy
  <2> DEFINE J == {i \in (s + 4)..Len(text) : ClosesAlone(s, i)}
  <2>2. PICK i \in J : \A c \in J : i <= c
    <3>1. J \in SUBSET Nat /\ J # {}
      BY <1>1 DEF ClosesAlone
    <3> HIDE DEF J
    <3> QED BY <3>1, LeastNatural
  <2>3. i - 2 \in Comment(s)
    <3>1. \A c \in (s + 4)..(i - 1) : ~ClosesAlone(s, c)
      BY <1>1, <2>2
    <3> QED BY <1>1, <2>1, <2>2, <3>1, CommentReaches
  <2>4. i \in Ends(s).comment
    <3>1. i \in After(s) /\ text[i] = "/" /\ text[i - 1] = "*" /\ i \in Nat
      BY <1>1, <2>2 DEF ClosesAlone, After
    <3>2. i - 2 < i - 1 /\ All({"*"}, i - 2, i - 1)
      <4>1. \A c \in ((i - 2) + 1)..(i - 1) : c = i - 1
        BY <3>1
      <4> QED BY <3>1, <4>1 DEF All
    <3> QED BY <2>3, <3>1, <3>2 DEF Ends
  <2>5. i <= m.to
    BY <2>4, NoLonger
  <2>6. m.to < i
    BY <1>2, <2>1, <2>2
  <2>7. m.to \in Nat /\ i \in Nat
    BY <1>1, <2>2, MatchIsLongest
  <2> QED BY <2>5, <2>6, <2>7
<1> QED BY <1>4, <1>5
-----------------------------------------------------------------------------
\* The text of a string up to p ends in a run of r more backslashes than pairs
\* of them: r = 0 when what follows p is not escaped.
Run(s, p, r) ==
    \E b \in (s + 1)..p : /\ (p - b) % 2 = r /\ All({"\\"}, b, p)
                          /\ (b = s + 1 \/ text[b] # "\\")

\* One character more.
LEMMA RunGrows ==
    ASSUME NEW s \in Nat, NEW p \in Nat, s + 1 <= p
    PROVE  /\ text[p + 1] # "\\" => Run(s, p + 1, 0)
           /\ text[p + 1] = "\\" /\ Run(s, p, 0) => Run(s, p + 1, 1)
           /\ text[p + 1] = "\\" /\ Run(s, p, 1) => Run(s, p + 1, 0)
<1>1. ASSUME text[p + 1] # "\\" PROVE Run(s, p + 1, 0)
  <2>1. p + 1 \in (s + 1)..(p + 1) /\ ((p + 1) - (p + 1)) % 2 = 0 /\ All({"\\"}, p + 1, p + 1)
    BY DEF All
  <2> QED BY <1>1, <2>1 DEF Run
<1>2. ASSUME text[p + 1] = "\\", NEW r \in {0, 1}, Run(s, p, r) PROVE Run(s, p + 1, 1 - r)
  <2>1. PICK b \in (s + 1)..p : /\ (p - b) % 2 = r /\ All({"\\"}, b, p)
                                /\ (b = s + 1 \/ text[b] # "\\")
    BY <1>2 DEF Run
  <2>2. All({"\\"}, b, p + 1)
    <3>1. \A m \in (b + 1)..(p + 1) : m = p + 1 \/ m \in (b + 1)..p
      OBVIOUS
    <3> QED BY <1>2, <2>1, <3>1 DEF All
  <2>3. b \in (s + 1)..(p + 1) /\ ((p + 1) - b) % 2 = 1 - r
    BY <1>2, <2>1
  <2> QED BY <2>1, <2>2, <2>3 DEF Run
<1>3. text[p + 1] = "\\" /\ Run(s, p, 0) => Run(s, p + 1, 1)
  BY <1>2
<1>4. text[p + 1] = "\\" /\ Run(s, p, 1) => Run(s, p + 1, 0)
  BY <1>2
<1> QED BY <1>1, <1>3, <1>4

\* Every place follows an even or an odd run, and not both.
LEMMA EvenOrOdd ==
    ASSUME NEW s \in Nat, NEW p \in Nat, s + 1 <= p
    PROVE  /\ Run(s, p, 0) \/ Run(s, p, 1)
           /\ ~(Run(s, p, 0) /\ Run(s, p, 1))
<1>1. Run(s, p, 0) \/ Run(s, p, 1)
  <2> DEFINE Neither == {q \in (s + 1)..p : ~Run(s, q, 0) /\ ~Run(s, q, 1)}
  <2> SUFFICES ASSUME Neither # {} PROVE FALSE
    OBVIOUS
  <2>1. PICK q \in Neither : \A c \in Neither : q <= c
    <3>1. Neither \in SUBSET Nat
      OBVIOUS
    <3> HIDE DEF Neither
    <3> QED BY <3>1, LeastNatural
  <2>2. Run(s, s + 1, 0)
    <3>1. s + 1 \in (s + 1)..(s + 1) /\ ((s + 1) - (s + 1)) % 2 = 0 /\ All({"\\"}, s + 1, s + 1)
      BY DEF All
    <3> QED BY <3>1 DEF Run
  <2>3. q \in Nat /\ s + 1 <= q - 1 /\ q - 1 \in (s + 1)..p
    BY <2>1, <2>2
  <2>4. Run(s, q - 1, 0) \/ Run(s, q - 1, 1)
    BY <2>1, <2>3
  <2>5. Run(s, (q - 1) + 1, 0) \/ Run(s, (q - 1) + 1, 1)
    BY <2>3, <2>4, RunGrows
  <2>6. (q - 1) + 1 = q
    BY <2>3
  <2> QED BY <2>1, <2>5, <2>6
<1>2. ASSUME Run(s, p, 0), Run(s, p, 1) PROVE FALSE
  <2>1. PICK b \in (s + 1)..p : /\ (p - b) % 2 = 0 /\ All({"\\"}, b, p)
                                /\ (b = s + 1 \/ text[b] # "\\")
    BY <1>2 DEF Run
  <2>2. PICK c \in (s + 1)..p : /\ (p - c) % 2 = 1 /\ All({"\\"}, c, p)
                                /\ (c = s + 1 \/ text[c] # "\\")
    BY <1>2 DEF Run
  <2>3. ~(b < c)
    BY <2>1, <2>2 DEF All
  <2>4. ~(c < b)
    BY <2>1, <2>2 DEF All
  <2> QED BY <2>1, <2>2, <2>3, <2>4
<1> QED BY <1>1, <1>2

\* After an odd run the last character is a backslash that is not escaped.
LEMMA OddRun ==
    ASSUME NEW s \in Nat, NEW p \in Nat, s + 1 <= p, Run(s, p, 1)
    PROVE  text[p] = "\\" /\ s + 1 <= p - 1 /\ Run(s, p - 1, 0)
<1>1. PICK b \in (s + 1)..p : /\ (p - b) % 2 = 1 /\ All({"\\"}, b, p)
                              /\ (b = s + 1 \/ text[b] # "\\")
  BY DEF Run
<1>2. b < p
  BY <1>1
<1>3. text[p] = "\\"
  BY <1>1, <1>2 DEF All
<1>4. b \in (s + 1)..(p - 1) /\ ((p - 1) - b) % 2 = 0
  BY <1>1, <1>2
<1>5. All({"\\"}, b, p - 1)
  BY <1>1 DEF All
<1> QED BY <1>1, <1>2, <1>3, <1>4, <1>5 DEF Run

LEMMA QuoteIsPlain == Quote \notin {"\\", "\n", "*", "/", " ", "\t", "'"}
BY Zenon DEF Quote

\* Where the items of a string end, nothing is escaped and no line has ended.
LEMMA StringPlaces ==
    ASSUME IsText, NEW s \in 0..(Len(text) - 1), Starts(s, <<Quote>>), text[s + 1] = Quote,
           NEW p \in String(s)
    PROVE  p \in (s + 1)..Len(text) /\ Run(s, p, 0) /\ OneLine(s, p)
<1> DEFINE n == Len(text)
           Good(q) == Run(s, q, 0) /\ OneLine(s, q)
           Bad == {q \in String(s) : ~Good(q)}
<1>1. n \in Nat /\ s \in Nat /\ s \in 0..n /\ String(s) \subseteq (s + 1)..n
  <2>1. n \in Nat /\ s \in Nat /\ s \in 0..n
    BY DEF IsText
  <2> QED BY <2>1, StringEnds
<1>2. Bad = {}
  <2> SUFFICES ASSUME Bad # {} PROVE FALSE
    OBVIOUS
  <2>1. PICK q \in Bad : \A c \in Bad : q <= c
    <3>1. Bad \in SUBSET Nat
      BY <1>1
    <3> HIDE DEF Bad
    <3> QED BY <3>1, LeastNatural
  <2>2. q \in (s + 1)..n /\ q \in String(s) /\ ~Good(q)
    BY <1>1, <2>1
  <2>3. CASE q = s + 1
    <3>1. s + 1 \in (s + 1)..(s + 1) /\ ((s + 1) - (s + 1)) % 2 = 0 /\ All({"\\"}, s + 1, s + 1)
      BY <1>1 DEF All
    <3>2. Run(s, q, 0)
      BY <2>3, <3>1 DEF Run
    <3>3. OneLine(s, q)
      <4>1. \A c \in (s + 1)..q : text[c] = Quote
        BY <1>1, <2>3
      <4>2. Quote # "\n"
        BY QuoteIsPlain
      <4> QED BY <4>1, <4>2 DEF OneLine
    <3> QED BY <2>2, <3>2, <3>3
  <2>4. CASE q # s + 1
    <3>1. PICK e \in (s + 1)..(q - 1) : e \in String(s) /\ StringItem(e, q)
      BY <1>1, <2>2, <2>4, StringEnds
    <3>2. e \in Nat /\ e < q /\ Run(s, e, 0) /\ OneLine(s, e)
      BY <1>1, <2>1, <2>2, <3>1
    <3>3. CASE q = e + 1 /\ text[q] \notin {"\\", "\n", Quote}
      <4>1. Run(s, q, 0)
        BY <1>1, <3>1, <3>2, <3>3, RunGrows
      <4>2. \A c \in (s + 1)..q : c = q \/ c \in (s + 1)..e
        BY <1>1, <3>1, <3>3
      <4>3. OneLine(s, q)
        BY <3>2, <3>3, <4>2 DEF OneLine
      <4> QED BY <2>2, <4>1, <4>3
    <3>4. CASE q = e + 2 /\ text[e + 1] = "\\" /\ text[q] # "\n"
      <4>1. e + 1 \in Nat /\ s + 1 <= e + 1 /\ s + 1 <= e /\ (e + 1) + 1 = q
        BY <1>1, <3>1, <3>4
      <4>2. Run(s, e + 1, 1)
        BY <1>1, <3>2, <3>4, <4>1, RunGrows
      <4>3. Run(s, q, 0)
        BY <1>1, <4>1, <4>2, RunGrows
      <4>4. \A c \in (s + 1)..q : c = q \/ c = e + 1 \/ c \in (s + 1)..e
        BY <1>1, <3>1, <3>4
      <4>5. OneLine(s, q)
        BY <3>2, <3>4, <4>4 DEF OneLine
      <4> QED BY <2>2, <4>3, <4>5
    <3> QED BY <3>1, <3>3, <3>4 DEF StringItem
  <2> QED BY <2>3, <2>4
<1> QED BY <1>1, <1>2

\* Every such place is one where the items of a string may end, as long as no
\* quote has closed it.
LEMMA StringReaches ==
    ASSUME IsText, NEW s \in 0..(Len(text) - 1), Starts(s, <<Quote>>),
           NEW p \in (s + 1)..Len(text), Run(s, p, 0), OneLine(s, p),
           \A j \in Closing(s) : j > p
    PROVE  p \in String(s)
<1> DEFINE n == Len(text)
           Missed == {q \in (s + 1)..p : Run(s, q, 0) /\ q \notin String(s)}
<1>1. n \in Nat /\ s \in Nat /\ s \in 0..n /\ p \in Nat /\ p <= n
  BY DEF IsText
<1>2. ASSUME NEW q \in (s + 1)..n, NEW e \in (s + 1)..(q - 1), e \in String(s), StringItem(e, q)
      PROVE  q \in String(s)
  BY <1>1, <1>2, StringEnds
<1>3. s + 1 \in String(s)
  BY <1>1, StringEnds
<1>4. Missed = {}
  <2> SUFFICES ASSUME Missed # {} PROVE FALSE
    OBVIOUS
  <2>1. PICK q \in Missed : \A c \in Missed : q <= c
    <3>1. Missed \in SUBSET Nat
      BY <1>1
    <3> HIDE DEF Missed
    <3> QED BY <3>1, LeastNatural
  <2>2. q \in (s + 2)..p /\ Run(s, q, 0) /\ q \notin String(s)
    BY <1>1, <1>3, <2>1
  <2>3. q \in Nat /\ s + 1 <= q - 1 /\ q - 1 \in Nat /\ q - 1 \in (s + 1)..p /\ (q - 1) + 1 = q
    BY <1>1, <2>2
  <2>4. text[q] # "\n"
    BY <1>1, <2>2 DEF OneLine
  <2>5. CASE Run(s, q - 1, 0)
    <3>1. q - 1 \in String(s)
      BY <2>1, <2>3, <2>5
    <3>2. text[q] # "\\"
      <4>1. text[q] = "\\" => Run(s, q, 1)
        BY <1>1, <2>3, <2>5, RunGrows
      <4> QED BY <1>1, <2>2, <2>3, <4>1, EvenOrOdd
    <3>3. text[q] # Quote
      <4> SUFFICES ASSUME text[q] = Quote PROVE FALSE
        OBVIOUS
      <4>1. q \in After(s + 1)
        BY <1>1, <2>2 DEF After
      <4>2. q \in Closing(s)
        BY <2>5, <4>1 DEF Closing, Run
      <4> QED BY <1>1, <2>2, <4>2
    <3>4. StringItem(q - 1, q)
      BY <2>3, <2>4, <3>2, <3>3 DEF StringItem
    <3>5. q \in (s + 1)..n /\ q - 1 \in (s + 1)..(q - 1)
      BY <1>1, <2>2
    <3> QED BY <1>2, <2>2, <3>1, <3>4, <3>5
  <2>6. CASE Run(s, q - 1, 1)
    <3>1. text[q - 1] = "\\" /\ s + 1 <= (q - 1) - 1 /\ Run(s, (q - 1) - 1, 0)
      BY <1>1, <2>3, <2>6, OddRun
    <3>2. (q - 1) - 1 \in (s + 1)..p /\ ~(q <= (q - 1) - 1)
      BY <1>1, <2>2, <3>1
    <3>3. (q - 1) - 1 \in String(s)
      BY <2>1, <3>1, <3>2
    <3>4. StringItem((q - 1) - 1, q)
      <4>1. q = ((q - 1) - 1) + 2 /\ ((q - 1) - 1) + 1 = q - 1
        BY <2>3
      <4> QED BY <2>4, <3>1, <4>1 DEF StringItem
    <3>5. q \in (s + 1)..n /\ (q - 1) - 1 \in (s + 1)..(q - 1)
      BY <1>1, <2>2, <3>1
    <3> QED BY <1>2, <2>2, <3>3, <3>4, <3>5
  <2> QED BY <1>1, <2>3, <2>5, <2>6, EvenOrOdd
<1>5. p \in (s + 1)..p
  BY <1>1
<1> QED BY <1>4, <1>5

\* No item of a string goes over a quote that is not escaped.
LEMMA NoItemOverQuote ==
    ASSUME IsText, NEW s \in 0..(Len(text) - 1), Starts(s, <<Quote>>), text[s + 1] = Quote,
           NEW j \in Closing(s)
    PROVE  \A p \in String(s) : p < j
<1> DEFINE n == Len(text)
           Over == {p \in String(s) : p >= j}
<1>1. n \in Nat /\ s \in Nat /\ s \in 0..n /\ String(s) \subseteq (s + 1)..n
  <2>1. n \in Nat /\ s \in Nat /\ s \in 0..n
    BY DEF IsText
  <2> QED BY <2>1, StringEnds
<1>2. j \in (s + 2)..n /\ text[j] = Quote /\ Run(s, j - 1, 0)
  BY <1>1 DEF Closing, After, Run
<1> SUFFICES ASSUME Over # {} PROVE FALSE
  BY <1>1, <1>2
<1>3. PICK p \in Over : \A c \in Over : p <= c
  <2>1. Over \in SUBSET Nat
    BY <1>1
  <2> HIDE DEF Over
  <2> QED BY <2>1, LeastNatural
<1>4. p \in (s + 2)..n /\ p \in String(s) /\ p >= j
  BY <1>1, <1>2, <1>3
<1>5. PICK e \in (s + 1)..(p - 1) : e \in String(s) /\ StringItem(e, p)
  <2>1. p \in (s + 1)..n /\ p # s + 1
    BY <1>1, <1>4
  <2> QED BY <1>1, <1>4, <2>1, StringEnds
<1>6. e \in Nat /\ e < p /\ e < j /\ j \in Nat /\ p \in Nat
  <2>1. e \notin Over
    BY <1>1, <1>3, <1>4, <1>5
  <2> QED BY <1>1, <1>2, <1>4, <1>5, <2>1
<1>7. CASE p = e + 1 /\ text[p] \notin {"\\", "\n", Quote}
  <2>1. p = j
    BY <1>4, <1>6, <1>7
  <2> QED BY <1>2, <1>7, <2>1
<1>8. CASE p = e + 2 /\ text[e + 1] = "\\"
  <2>1. CASE j = e + 1
    BY <1>2, <1>8, <2>1, QuoteIsPlain
  <2>2. CASE j = e + 2
    <3>1. Run(s, e, 0)
      BY <1>5, StringPlaces
    <3>2. s + 1 <= e /\ e + 1 = j - 1
      BY <1>1, <1>5, <1>6, <2>2
    <3>3. Run(s, e + 1, 1)
      BY <1>1, <1>6, <1>8, <3>1, <3>2, RunGrows
    <3>4. s + 1 <= j - 1 /\ j - 1 \in Nat
      BY <1>1, <1>2
    <3> QED BY <1>1, <1>2, <3>2, <3>3, <3>4, EvenOrOdd
  <2> QED BY <1>4, <1>6, <1>8, <2>1, <2>2
<1> QED BY <1>5, <1>7, <1>8 DEF StringItem

\* A string ends at its first quote that is not escaped, and is an error only
\* if its line has none.
LEMMA StringOfMatch ==
    ASSUME IsText, NEW s \in 0..(Len(text) - 1), text[s + 1] = Quote,
           NEW m, m = Match(s), NEW good, good = {j \in Closing(s) : OneLine(s, j)}
    PROVE  IF m.rule = "string" THEN m.to \in good /\ \A j \in good : m.to <= j
           ELSE good = {}
<1> DEFINE n == Len(text)
<1>1. n \in Nat /\ s \in Nat /\ s \in 0..n /\ s + 1 <= n
  BY DEF IsText
<1>2. Starts(s, <<Quote>>)
  <2>1. Len(SubSeq(text, s + 1, s + 1)) = 1 /\ SubSeq(text, s + 1, s + 1)[1] = text[s + 1]
        /\ SubSeq(text, s + 1, s + 1) \in Seq(Range(text))
    BY <1>1 DEF IsText
  <2>2. SubSeq(text, s + 1, s + 1) = <<Quote>>
    <3>1. <<Quote>> \in Seq(Range(text)) /\ Len(<<Quote>>) = 1 /\ <<Quote>>[1] = Quote
      <4>1. Quote \in Range(text)
        BY <1>1 DEF IsText, Range
      <4> QED BY <4>1
    <3>2. \A i \in 1..1 : i = 1
      OBVIOUS
    <3> DEFINE a == SubSeq(text, s + 1, s + 1)
               b == <<Quote>>
    <3>3. /\ a \in Seq(Range(text)) /\ b \in Seq(Range(text)) /\ Len(a) = Len(b)
          /\ \A i \in 1..Len(a) : a[i] = b[i]
      BY <2>1, <3>1, <3>2
    <3> HIDE DEF a, b
    <3>4. a = b
      BY <3>3, SeqEqual
    <3> QED BY <3>4 DEF a, b
  <2>3. Len(<<Quote>>) = 1
    OBVIOUS
  <2> QED BY <1>1, <2>2, <2>3 DEF Starts
<1>3. \A j \in good : j \in (s + 2)..n /\ text[j] = Quote /\ Run(s, j - 1, 0) /\ OneLine(s, j)
  BY <1>1 DEF Closing, After, Run
<1>4. \A e \in Ends(s).string : e \in good
  <2> SUFFICES ASSUME NEW e \in Ends(s).string PROVE e \in good
    OBVIOUS
  <2>1. e \in (s + 1)..n /\ text[e] = Quote /\ e - 1 \in String(s)
    BY <1>1 DEF Ends, After
  <2>2. e - 1 \in (s + 1)..n /\ Run(s, e - 1, 0) /\ OneLine(s, e - 1)
    BY <1>2, <2>1, StringPlaces
  <2>3. \A c \in (s + 1)..e : c = e \/ c \in (s + 1)..(e - 1)
    BY <1>1, <2>1
  <2>4. Quote # "\n"
    BY QuoteIsPlain
  <2>5. OneLine(s, e)
    BY <2>1, <2>2, <2>3, <2>4 DEF OneLine
  <2>6. e \in After(s + 1)
    BY <1>1, <2>1, <2>2 DEF After
  <2> QED BY <2>1, <2>2, <2>5, <2>6 DEF Closing, Run
<1>5. ASSUME NEW e \in Ends(s).string, NEW j \in good PROVE e <= j
  <2>1. e \in (s + 1)..n /\ e - 1 \in String(s)
    BY <1>1 DEF Ends, After
  <2>2. e - 1 < j
    BY <1>2, <2>1, NoItemOverQuote
  <2> QED BY <1>1, <1>3, <2>1, <2>2
<1>6. ASSUME m.rule = "string" PROVE m.to \in good /\ \A j \in good : m.to <= j
  BY <1>4, <1>5, <1>6, MatchedBy
<1>7. ASSUME m.rule # "string", good # {} PROVE FALSE
  <2>1. PICK j \in good : \A i \in good : j <= i
    <3>1. good \in SUBSET Nat
      BY <1>1, <1>3
    <3> QED BY <1>7, <3>1, LeastNatural
  <2>2. j \in (s + 2)..n /\ text[j] = Quote /\ Run(s, j - 1, 0) /\ OneLine(s, j)
    BY <1>3, <2>1
  <2>3. j - 1 \in (s + 1)..n /\ OneLine(s, j - 1)
    BY <1>1, <2>2 DEF OneLine
  <2>4. ASSUME NEW i \in Closing(s) PROVE i > j - 1
    <3> SUFFICES ASSUME i <= j - 1 PROVE FALSE
      BY <1>1, <2>2 DEF Closing, After
    <3>1. i \in (s + 2)..n
      BY <1>1 DEF Closing, After
    <3>2. OneLine(s, i)
      <4>1. \A c \in (s + 1)..i : c \in (s + 1)..(j - 1)
        BY <1>1, <2>2, <3>1
      <4> QED BY <2>3, <4>1 DEF OneLine
    <3> QED BY <1>1, <2>1, <2>2, <3>1, <3>2
  <2>5. j - 1 \in String(s)
    BY <1>2, <2>2, <2>3, <2>4, StringReaches
  <2>6. j \in Ends(s).string
    <3>1. j \in After(s)
      BY <1>1, <2>2 DEF After
    <3> QED BY <2>2, <2>5, <3>1 DEF Ends
  <2>7. j <= m.to /\ m.to \in (s + 1)..n
    BY <2>6, NoLonger, MatchIsLongest
  <2>8. m.to \notin Ends(s).blank /\ Comment(s) = {}
    <3>1. m.to \notin Ends(s).blank
      <4>1. s + 1 \in (s + 1)..m.to
        BY <1>1, <2>7
      <4>2. text[s + 1] \notin {" ", "\t", "\n"}
        BY QuoteIsPlain
      <4> QED BY <4>1, <4>2 DEF Ends, All
    <3>2. Comment(s) = {}
      <4>1. ~Starts(s, <<"/", "*">>)
        <5> SUFFICES ASSUME SubSeq(text, s + 1, s + 2) = <<"/", "*">>, s + 2 <= n PROVE FALSE
          BY <1>1 DEF Starts
        <5> DEFINE a == SubSeq(text, s + 1, s + 2)
        <5>1. a[1] = text[s + 1]
          BY <1>1 DEF IsText
        <5>2. Quote # "/"
          BY QuoteIsPlain
        <5>3. a = <<"/", "*">>
          OBVIOUS
        <5> HIDE DEF a
        <5>4. a[1] = "/"
          BY <5>3
        <5> QED BY <5>1, <5>2, <5>4
      <4> QED BY <4>1 DEF Comment
    <3> QED BY <3>1, <3>2
  <2>9. Ends(s).comment = {} /\ Ends(s).unterminated = {}
    BY <2>8 DEF Ends
  <2>10. m.to \notin Ends(s).string
    BY <1>7, <2>8, <2>9, MatchedBy
  <2>11. m.to > j /\ j >= s + 2 /\ m.to \in Nat /\ j \in Nat
    BY <1>1, <2>2, <2>6, <2>7, <2>10
  <2>12. m.to \notin Ends(s).word /\ m.to \notin Ends(s).integer
    <3>1. text[s + 1] \notin Letter \cup Digit
      BY CharAssumption
    <3>2. s + 1 \in (s + 1)..m.to
      BY <1>1, <2>7
    <3> QED BY <3>1, <3>2 DEF Ends, All
  <2>13. m.to \notin Ends(s).car
    <3>1. text[s + 1] # "'"
      BY QuoteIsPlain
    <3> QED BY <3>1 DEF Ends
  <2>14. m.to \notin Ends(s).operator /\ m.to \notin Ends(s).invalid
    <3>1. m.to \notin {s + 1, s + 2}
      BY <1>1, <2>11
    <3> QED BY <3>1 DEF Ends
  <2>15. m.to \notin Ends(s).two_lines
    <3>1. j \in (s + 2)..(m.to - 1)
      BY <1>1, <2>2, <2>11
    <3> QED BY <2>2, <3>1 DEF Ends
  <2>16. PICK k \in DOMAIN Rules : m.to \in Ends(s)[Rules[k]]
    BY MatchIsLongest
  <2> DEFINE r == Ends(s)
  <2>17. /\ m.to \notin r.blank /\ m.to \notin r.comment /\ m.to \notin r.string
         /\ m.to \notin r.word /\ m.to \notin r.integer /\ m.to \notin r.car
         /\ m.to \notin r.operator /\ m.to \notin r.two_lines
         /\ m.to \notin r.unterminated /\ m.to \notin r.invalid
    BY <2>8, <2>9, <2>10, <2>12, <2>13, <2>14, <2>15
  <2>18. k \in 1..10 /\ m.to \in r[Rules[k]]
    BY <2>16 DEF Rules
  <2> HIDE DEF r
  <2> QED BY <2>17, <2>18 DEF Rules
<1> QED BY <1>6, <1>7
-----------------------------------------------------------------------------
\* An operator, a word or a number that is as long as it can be.
Whole(m) ==
    /\ m.rule = "operator" =>
          (m.to < Len(text) => SubSeq(text, m.from + 1, m.to + 1) \notin Operator)
    /\ m.rule \in {"word", "keyword"} =>
          /\ text[m.from + 1] \in Letter
          /\ m.to < Len(text) => text[m.to + 1] \notin Letter \cup Digit
    /\ m.rule = "integer" =>
          /\ text[m.from + 1] \in Digit
          /\ m.to < Len(text) => text[m.to + 1] \notin Digit

LEMMA OperatorsAreShort ==
    ASSUME NEW word \in Operator
    PROVE  Len(word) \in {1, 2}
<1>1. (\E c : word = <<c>>) \/ (\E c, d : word = <<c, d>>)
  BY DEF Operator
<1> QED BY <1>1

LEMMA MatchIsWhole ==
    ASSUME IsText, NEW s \in 0..(Len(text) - 1), NEW m, m = Match(s)
    PROVE  Whole(m)
<1> DEFINE n == Len(text)
<1>1. n \in Nat /\ s \in Nat /\ m.from = s /\ m.to \in (s + 1)..n
  BY MatchIsLongest DEF IsText
<1>2. m.to < n => m.to + 1 \in After(s)
  BY <1>1 DEF After
<1>3. ASSUME m.rule = "operator", m.to < n, SubSeq(text, s + 1, m.to + 1) \in Operator
      PROVE  FALSE
  <2>1. m.to \in {s + 1, s + 2}
    BY <1>3, MatchedBy DEF Ends
  <2>2. Len(SubSeq(text, s + 1, m.to + 1)) = m.to + 1 - s
    BY <1>1, <1>3 DEF IsText
  <2>3. m.to = s + 1
    <3>1. Len(SubSeq(text, s + 1, m.to + 1)) \in {1, 2}
      BY <1>3, OperatorsAreShort
    <3> QED BY <1>1, <2>1, <2>2, <3>1
  <2>4. m.to + 1 \in Ends(s).operator
    BY <1>1, <1>2, <1>3, <2>3 DEF Ends
  <2>5. m.to + 1 <= m.to
    BY <2>4, NoLonger
  <2> QED BY <1>1, <2>5
<1>4. ASSUME m.rule \in {"word", "keyword"}
      PROVE  text[s + 1] \in Letter /\ (m.to < n => text[m.to + 1] \notin Letter \cup Digit)
  <2>1. text[s + 1] \in Letter /\ All(Letter \cup Digit, s, m.to)
    BY <1>4, MatchedBy DEF Ends
  <2>2. ASSUME m.to < n, text[m.to + 1] \in Letter \cup Digit PROVE FALSE
    <3>1. \A c \in (s + 1)..(m.to + 1) : c = m.to + 1 \/ c \in (s + 1)..m.to
      BY <1>1
    <3>2. All(Letter \cup Digit, s, m.to + 1)
      BY <2>1, <2>2, <3>1 DEF All
    <3>3. m.to + 1 \in Ends(s).word
      BY <1>2, <2>1, <2>2, <3>2 DEF Ends
    <3>4. m.to + 1 <= m.to
      BY <3>3, NoLonger
    <3> QED BY <1>1, <3>4
  <2> QED BY <2>1, <2>2
<1>5. ASSUME m.rule = "integer"
      PROVE  text[s + 1] \in Digit /\ (m.to < n => text[m.to + 1] \notin Digit)
  <2>1. All(Digit, s, m.to)
    BY <1>5, MatchedBy DEF Ends
  <2>2. text[s + 1] \in Digit
    BY <1>1, <2>1 DEF All
  <2>3. ASSUME m.to < n, text[m.to + 1] \in Digit PROVE FALSE
    <3>1. \A c \in (s + 1)..(m.to + 1) : c = m.to + 1 \/ c \in (s + 1)..m.to
      BY <1>1
    <3>2. All(Digit, s, m.to + 1)
      BY <2>1, <2>3, <3>1 DEF All
    <3>3. m.to + 1 \in Ends(s).integer
      BY <1>2, <2>3, <3>2 DEF Ends
    <3>4. m.to + 1 <= m.to
      BY <3>3, NoLonger
    <3> QED BY <1>1, <3>4
  <2> QED BY <2>2, <2>3
<1> QED BY <1>1, <1>3, <1>4, <1>5 DEF Whole
-----------------------------------------------------------------------------
Tokens == {"keyword"} \cup Range(Rules)
MatchRecord == [rule : Tokens, from : Nat, to : Nat]

\* What was read is a sequence of matches without a gap up to pos.
Cut ==
    /\ read \in Seq(MatchRecord)
    /\ \A k \in 1..Len(read) : /\ read[k].from = IF k = 1 THEN 0 ELSE read[k - 1].to
                               /\ read[k].to \in (read[k].from + 1)..pos
    /\ pos = IF read = <<>> THEN 0 ELSE read[Len(read)].to

LInv ==
    /\ text \in Text /\ pos \in 0..Len(text) /\ yylineno \in 1..(pos + 1)
    /\ status \in {"scanning", "eof", "error", "no_memory"}
    /\ Cut /\ CommentsClose /\ StringsClose
    /\ \A m \in Range(read) : Whole(m)

LEMMA TextIsText ==
    ASSUME text \in Text
    PROVE  IsText
BY CharAssumption DEF IsText

\* yylineno grows by no more than the characters that are read.
LEMMA NewlinesAreBounded ==
    ASSUME NEW a \in Nat, NEW b \in Nat, a <= b, NEW S, S \subseteq (a + 1)..b
    PROVE  Cardinality(S) \in 0..(b - a)
<1>1. IsFiniteSet((a + 1)..b) /\ Cardinality((a + 1)..b) = b - a
  <2>1. a + 1 \in Int /\ b \in Int
    OBVIOUS
  <2>2. /\ IsFiniteSet((a + 1)..b)
        /\ Cardinality((a + 1)..b) = IF a + 1 > b THEN 0 ELSE b - (a + 1) + 1
    BY <2>1, FS_Interval
  <2> QED BY <2>2
<1>2. IsFiniteSet(S) /\ Cardinality(S) <= b - a
  BY <1>1, FS_Subset
<1>3. Cardinality(S) \in Nat
  BY <1>2, FS_CardinalityType
<1> QED BY <1>2, <1>3

\* Where strings close depends on the text only.
LEMMA SameText ==
    ASSUME text' = text, NEW s
    PROVE  Closing(s)' = Closing(s) /\ \A j : OneLine(s, j)' = OneLine(s, j)
BY DEF Closing, OneLine, After, All

\* One match more keeps the invariant.
LEMMA ConsumeLInv ==
    ASSUME LInv, Scanning, NEW m, m = Match(pos), Consume(m),
           status' \in {"scanning", "error", "no_memory"}
    PROVE  LInv'
<1>1. IsText /\ pos \in 0..(Len(text) - 1) /\ Len(text) \in Nat
  BY TextIsText DEF LInv, Scanning, IsText
<1>2. m.from = pos /\ m.to \in (pos + 1)..Len(text) /\ m.rule \in Tokens
  BY <1>1, MatchIsLongest, MatchedBy DEF Tokens
<1>3. text' = text /\ pos' = m.to /\ read' = Append(read, m)
  BY DEF Consume
<1>4. read \in Seq(MatchRecord) /\ m \in MatchRecord /\ Len(read) \in Nat
  <2>1. m \in [rule : {m.rule}, from : {m.from}, to : {m.to}]
    BY DEF Match
  <2> QED BY <1>1, <1>2, <2>1 DEF LInv, Cut, MatchRecord
<1>5. /\ read' \in Seq(MatchRecord) /\ Len(read') = Len(read) + 1 /\ read' # <<>>
      /\ read'[Len(read) + 1] = m /\ \A k \in 1..Len(read) : read'[k] = read[k]
  BY <1>3, <1>4
<1>6. \A t \in Range(read') : t \in Range(read) \/ t = m
  <2>1. \A k \in 1..Len(read') : k \in 1..Len(read) \/ k = Len(read) + 1
    BY <1>4, <1>5
  <2>2. DOMAIN read' = 1..Len(read') /\ DOMAIN read = 1..Len(read)
    BY <1>4, <1>5
  <2> QED BY <1>5, <2>1, <2>2 DEF Range
<1>7. text' \in Text /\ pos' \in 0..Len(text') /\ status' \in {"scanning", "eof", "error", "no_memory"}
  BY <1>1, <1>2, <1>3 DEF LInv
<1>8. yylineno' \in 1..(pos' + 1)
  <2> DEFINE S == {j \in (m.from + 1)..m.to : text[j] = "\n"}
  <2>1. Cardinality(S) \in 0..(m.to - pos)
    <3>1. S \subseteq (pos + 1)..m.to /\ pos <= m.to /\ pos \in Nat /\ m.to \in Nat
      BY <1>1, <1>2
    <3> HIDE DEF S
    <3> QED BY <3>1, NewlinesAreBounded
  <2>2. yylineno' = yylineno + Cardinality(S)
    BY DEF Consume
  <2> HIDE DEF S
  <2> QED BY <1>1, <1>2, <1>3, <2>1, <2>2 DEF LInv
<1>9. Cut'
  <2>1. pos = IF Len(read) = 0 THEN 0 ELSE read[Len(read)].to
    BY <1>4, EmptySeq DEF LInv, Cut
  <2>2. ASSUME NEW k \in 1..Len(read')
        PROVE  /\ read'[k].from = IF k = 1 THEN 0 ELSE read'[k - 1].to
               /\ read'[k].to \in (read'[k].from + 1)..pos'
    <3>1. CASE k = Len(read) + 1
      <4>1. k # 1 => k - 1 \in 1..Len(read) /\ k - 1 = Len(read)
        BY <1>4, <3>1
      <4> QED BY <1>2, <1>3, <1>5, <2>1, <3>1, <4>1
    <3>2. CASE k \in 1..Len(read)
      <4>1. /\ read[k].from = IF k = 1 THEN 0 ELSE read[k - 1].to
            /\ read[k].to \in (read[k].from + 1)..pos
        BY <3>2 DEF LInv, Cut
      <4>2. k # 1 => k - 1 \in 1..Len(read)
        BY <1>4, <3>2
      <4>3. read[k].from \in Nat
        <5>1. read[k] \in MatchRecord
          BY <1>4, <3>2
        <5> QED BY <5>1 DEF MatchRecord
      <4> QED BY <1>1, <1>2, <1>3, <1>5, <3>2, <4>1, <4>2, <4>3
    <3> QED BY <1>4, <1>5, <3>1, <3>2
  <2> QED BY <1>3, <1>5, <2>2 DEF Cut
<1>10. CommentsClose'
  <2>1. ASSUME NEW j \in (m.from + 4)..Len(text), ClosesAt(m.from, j),
               j = m.from + 4 \/ text[j - 2] # "*"
        PROVE  (m.rule = "comment" => m.to <= j) /\ m.rule # "unterminated"
    <3>1. ClosesAlone(pos, j)
      BY <1>2, <2>1 DEF ClosesAlone, ClosesAt
    <3> QED BY <1>1, <3>1, CommentOfMatch
  <2> QED BY <1>3, <1>6, <2>1 DEF LInv, CommentsClose, ClosesAt
<1>11. StringsClose'
  <2>1. text[m.from + 1] = Quote =>
            LET good == {j \in Closing(m.from) : OneLine(m.from, j)}
            IN  IF m.rule = "string" THEN m.to \in good /\ \A j \in good : m.to <= j
                ELSE good = {}
    BY <1>1, <1>2, StringOfMatch
  <2>2. \A t \in Range(read') : text[t.from + 1] = Quote =>
            LET good == {j \in Closing(t.from) : OneLine(t.from, j)}
            IN  IF t.rule = "string" THEN t.to \in good /\ \A j \in good : t.to <= j
                ELSE good = {}
    BY <1>6, <2>1 DEF LInv, StringsClose
  <2> QED BY <1>3, <2>2, SameText DEF StringsClose
<1>12. \A t \in Range(read') : Whole(t)
  BY <1>1, <1>6, MatchIsWhole DEF LInv
<1>13. \A t \in Range(read') : Whole(t)'
  BY <1>3, <1>12 DEF Whole
<1> QED BY <1>7, <1>8, <1>9, <1>10, <1>11, <1>13 DEF LInv

LEMMA NextLInv == LInv /\ [Next]_vars => LInv'
<1> SUFFICES ASSUME LInv, [Next]_vars PROVE LInv'
  OBVIOUS
<1>1. CASE Skip \/ Return \/ NoMemory \/ Fail
  <2>1. /\ Scanning /\ Consume(Match(pos)) /\ status' \in {"scanning", "error", "no_memory"}
    BY <1>1 DEF Skip, Return, NoMemory, Fail, Scanning
  <2> QED BY <2>1, ConsumeLInv
<1>2. CASE EndOfFile \/ UNCHANGED vars
  <2>1. UNCHANGED <<text, pos, yylineno, read>> /\ status' \in {status, "eof"}
    BY <1>2 DEF EndOfFile, vars
  <2>2. StringsClose'
    BY <2>1, SameText DEF LInv, StringsClose
  <2>3. CommentsClose'
    BY <2>1 DEF LInv, CommentsClose, ClosesAt
  <2>4. \A m \in Range(read') : Whole(m)'
    BY <2>1 DEF LInv, Whole
  <2> QED BY <2>1, <2>2, <2>3, <2>4 DEF LInv, Cut
<1> QED BY <1>1, <1>2 DEF Next

LEMMA AlwaysLInv == Spec => []LInv
<1>1. Init => LInv
  <2> SUFFICES ASSUME Init PROVE LInv
    OBVIOUS
  <2>1. text \in Text /\ pos = 0 /\ yylineno = 1 /\ read = <<>> /\ status = "scanning"
    BY DEF Init
  <2>2. Len(text) \in Nat
    BY <2>1, TextIsText DEF IsText
  <2>3. Range(read) = {} /\ read \in Seq(MatchRecord) /\ Len(read) = 0
    BY <2>1 DEF Range
  <2>4. Cut
    BY <2>1, <2>3 DEF Cut
  <2> QED BY <2>1, <2>2, <2>3, <2>4 DEF LInv, CommentsClose, StringsClose
<1> QED BY <1>1, NextLInv, PTL DEF Spec

\* The scanner cuts any text into matches without a gap, and counts no more
\* lines than it has read characters.
THEOREM LexerTypeCorrect == Spec => []TypeOK
<1>1. LInv => TypeOK
  <2> SUFFICES ASSUME LInv PROVE TypeOK
    OBVIOUS
  <2>1. \A k \in 1..Len(read) : read[k].rule \in Tokens
    <3>1. \A k \in 1..Len(read) : read[k] \in MatchRecord
      BY DEF LInv, Cut
    <3> QED BY <3>1 DEF MatchRecord
  <2>2. DOMAIN read = 1..Len(read)
    BY DEF LInv, Cut
  <2> QED BY <2>1, <2>2 DEF LInv, Cut, TypeOK, Tokens
<1> QED BY <1>1, AlwaysLInv, PTL

\* In any text a comment ends at its first "*/" that no second star precedes,
\* if not sooner, and is called unterminated only when there is none.
THEOREM CommentsAlwaysClose == Spec => []CommentsClose
<1>1. LInv => CommentsClose
  BY DEF LInv
<1> QED BY <1>1, AlwaysLInv, PTL

\* In any text a string ends at its first quote that is not escaped, and is an
\* error only when its line has none.
THEOREM StringsAlwaysClose == Spec => []StringsClose
<1>1. LInv => StringsClose
  BY DEF LInv
<1> QED BY <1>1, AlwaysLInv, PTL

\* In any text two tokens that follow one another are never the halves of one
\* operator, word or number.
THEOREM TokensAreWhole == Spec => []NothingSplit
<1>1. LInv => NothingSplit
  <2> SUFFICES ASSUME LInv, NEW k \in 1..(Len(read) - 1) PROVE
          LET a == read[k] b == read[k + 1] IN
          /\ a.rule = "operator" => SubSeq(text, a.from + 1, b.from + 1) \notin Operator
          /\ a.rule \in {"word", "keyword"} => b.rule \notin {"word", "keyword", "integer"}
          /\ a.rule = "integer" => b.rule # "integer"
    BY DEF NothingSplit
  <2> DEFINE a == read[k]
             b == read[k + 1]
  <2>1. k \in 1..Len(read) /\ k + 1 \in 1..Len(read) /\ k + 1 # 1 /\ (k + 1) - 1 = k
    BY DEF LInv, Cut
  <2>2. a \in MatchRecord /\ b \in MatchRecord /\ a \in Range(read) /\ b \in Range(read)
    BY <2>1 DEF LInv, Cut, Range
  <2>3. b.from = a.to /\ b.to \in (b.from + 1)..pos
    BY <2>1 DEF LInv, Cut
  <2>4. Whole(a) /\ Whole(b)
    BY <2>2 DEF LInv
  <2>5. a.to < Len(text)
    <3>1. a.to \in Nat /\ pos \in 0..Len(text) /\ Len(text) \in Nat
      BY <2>2, TextIsText DEF LInv, MatchRecord, IsText
    <3> QED BY <2>3, <3>1
  <2>6. /\ b.rule \in {"word", "keyword"} => text[a.to + 1] \in Letter
        /\ b.rule = "integer" => text[a.to + 1] \in Digit
    BY <2>3, <2>4 DEF Whole
  <2>7. /\ a.rule = "operator" => SubSeq(text, a.from + 1, a.to + 1) \notin Operator
        /\ a.rule \in {"word", "keyword"} => text[a.to + 1] \notin Letter \cup Digit
        /\ a.rule = "integer" => text[a.to + 1] \notin Digit
    BY <2>4, <2>5 DEF Whole
  <2> HIDE DEF a, b
  <2>8. /\ a.rule = "operator" => SubSeq(text, a.from + 1, b.from + 1) \notin Operator
        /\ a.rule \in {"word", "keyword"} => b.rule \notin {"word", "keyword", "integer"}
        /\ a.rule = "integer" => b.rule # "integer"
    BY <2>3, <2>6, <2>7
  <2> QED BY <2>8 DEF a, b
<1> QED BY <1>1, AlwaysLInv, PTL
=============================================================================

--------------------------------- MODULE MCLio ---------------------------------
(* Programs for Lio, in every layout with one gap that is not the smallest, and cut off *)
(* at every place.                                                                      *)
EXTENDS Lio

MCAlphabet == <<"a", "b", "c", "n", "m", "x", "\\", "quote", "0", "1", "2", "3">>
MCBuiltinNames ==
    {<<name>> : name \in Calculations \cup Comparisons
        \cup {"~", "not", "and", "or", "if", "while", "defvar", "defun", "setvar", "=",
              "getvar", "+="}}

\* trees
F(name, args) == L(<<W(<<name>>)>> \o args)
Va == W(<<"a">>)
Vb == W(<<"b">>)
Vm == W(<<"m">>)
Vn == W(<<"n">>)
N(n) == W([i \in DOMAIN Printed(n) |-> Printed(n)[i]])
T(s) == W(<<Quote>> \o s \o <<Quote>>)

\* the text: words are set apart by a blank, other tokens by nothing
RECURSIVE TokensOf(_)
TokensOf(tree) ==
    IF IsWord(tree) THEN <<tree.word>>
    ELSE <<<<"(">>>> \o FlattenSeq([i \in DOMAIN tree.list |-> TokensOf(tree.list[i])])
         \o <<<<")">>>>
Bare(token) == token[1] \notin Parens \cup {Quote}
Gaps == {<<" ">>, <<"\n", " ">>, <<" ", "#", "(", "x", Quote, "\n">>}
Gap(tokens, i, at, gap) ==
    IF i = at THEN gap
    ELSE IF i < Len(tokens) /\ Bare(tokens[i]) /\ Bare(tokens[i + 1]) THEN <<" ">> ELSE <<>>
Render(tokens, at, gap) ==
    (IF at = 0 THEN gap ELSE <<>>)
    \o FlattenSeq([i \in DOMAIN tokens |-> tokens[i] \o Gap(tokens, i, at, gap)])
Program(trees, source, whole, large) ==
    [trees |-> trees, source |-> source, whole |-> whole, large |-> large, beyond |-> FALSE]
TokensOfAll(trees) == FlattenSeq([i \in DOMAIN trees |-> TokensOf(trees[i])])
Plain(trees) == Program(trees, Render(TokensOfAll(trees), 0, <<>>), TRUE, FALSE)
LaidOut(trees) ==
    {Program(trees, Render(TokensOfAll(trees), at, gap), TRUE, FALSE) :
        at \in 0..Len(TokensOfAll(trees)), gap \in Gaps}

\* cut off: the expressions that are complete are read
Lengths(trees) ==
    [i \in DOMAIN trees |-> Len(Plain(SubSeq(trees, 1, i)).source)]
CutOff(trees) ==
    {Program(SubSeq(trees, 1, Cardinality({i \in DOMAIN trees : Lengths(trees)[i] <= n})),
             SubSeq(Plain(trees).source, 1, n),
             n = 0 \/ \E i \in DOMAIN trees : Lengths(trees)[i] = n, FALSE) :
        n \in 0..Len(Plain(trees).source)}

Sample == <<F("if", <<F("<", <<N(12), N(3)>>), T(<<"a", "\\", Quote, "b">>),
                      F("-", <<N(2), N(31)>>), Va>>),
            F("+", <<F("*", <<N(3), N(7)>>), T(<<"1", "2">>)>>)>>

Arrays == <<F("defvar", <<Va, N(10), N(20), N(200)>>),
            F("setvar", <<Va, N(2), F("+", <<F("getvar", <<Va, N(1)>>),
                                             F("*", <<N(3), F("-", <<Va, N(4)>>)>>)>>)>>),
            F("+=", <<Va, F("getvar", <<Va, N(2)>>)>>),
            F("/", <<F("+", <<Va, N(5)>>), F("%", <<N(17), N(7)>>)>>)>>
Texts == <<F("defvar", <<Va, T(<<"a", "b", "c">>)>>),
           F("defvar", <<Vb, N(1), N(2)>>),
           F("setvar", <<Va, N(1), F("+", <<F("getvar", <<Va, N(2)>>), Vb>>)>>),
           F("setvar", <<Va, T(<<"1", "2", "3", "x">>)>>),
           F("setvar", <<Va, N(2), W(<<"'", "n", "'">>)>>),
           F("+", <<Va, Vb>>),
           F("setvar", <<Va, T(<<"x">>)>>)>>
Functions == <<F("defvar", <<Vn, N(0)>>), F("defvar", <<Vm, N(1)>>),
               F("defun", <<Va, F("+=", <<Vn, N(1)>>), F("=", <<Vm, F("+", <<Vm, Vn>>)>>)>>),
               F("while", <<F("<", <<Vn, N(3)>>), F("a", <<>>)>>),
               F("if", <<F("and", <<F("eq", <<Vn, N(3)>>), F("not", <<F(">", <<Vm, N(9)>>)>>)>>),
                         F("+", <<F("a", <<>>), Vm>>), T(<<"n">>)>>),
               F("or", <<F("=", <<Vn, N(0)>>), F("=", <<Vm, N(15)>>), F("+=", <<Vm, N(1)>>)>>),
               F("|", <<F("<<", <<Vm, N(3)>>), F("&", <<F("~", <<Vn>>), F(">>", <<Vm, N(1)>>)>>)>>)>>
Big == <<F("defvar", <<Va, N(1), N(2), N(3), N(4), N(20)>>),
         F("defvar", <<Vb, N(5), N(6), N(7), N(8), N(20)>>),
         F("+=", <<Vb, Va>>), F("defun", <<Vm, F("+=", <<Vb, Va>>)>>), F("m", <<>>)>>
\* calls in both arguments, on numbers of one and of two bytes
Nested == {Plain(<<F(o, <<F(p, <<N(m), N(3)>>), F(q, <<N(20), N(m)>>)>>)>>) :
               o, p, q \in {"-", "/", "<<", "<"}, m \in {2, 130}}

\* as long as the buffer, and longer
Long(n, word) == F("+", <<word>> \o [i \in 1..n |-> N(1)])
Fitting(tree, size) ==
    IF size < BufferSize - 2 THEN Plain(<<tree>>)
    ELSE Program(<<>>, Plain(<<tree>>).source, FALSE, FALSE)
Around == (BufferSize \div 3 - 6)..(BufferSize \div 3)
Boundary == {Fitting(Long(n, N(1)), 7 + 3 * n) : n \in Around}
       \cup {Fitting(Long(n, N(100)), 8 + 3 * n) : n \in Around}
       \cup {Fitting(Long(n, W(<<"a", "b">>)), 9 + 3 * n) : n \in Around}
Deep(tree) == F("~", <<tree>>)
Deeper[n \in 0..(MAXDEPTH + 1)] == IF n = 0 THEN N(1) ELSE Deep(Deeper[n - 1])
Beyond(source) == [Program(<<Deep(N(1))>>, Plain(<<Deep(N(1))>>).source \o source, FALSE, FALSE)
                      EXCEPT !.beyond = TRUE]
\* as deep as last has places, and deeper, where the buffer is long enough for one more
AtEnd(n, lists) == F("+", <<N(100)>> \o [i \in 1..n |-> N(1)] \o <<Deeper[lists]>>)
Deepest(n) ==
    IF 8 + 3 * n + 6 * (MAXDEPTH - 1) + 2 >= BufferSize - 2
    THEN Program(<<>>, Plain(<<AtEnd(n, MAXDEPTH)>>).source, FALSE, FALSE)
    ELSE [Program(<<>>, Plain(<<AtEnd(n, MAXDEPTH)>>).source, FALSE, FALSE) EXCEPT !.beyond = TRUE]
OfDepth == {Plain(<<Deeper[MAXDEPTH]>>), Plain(<<AtEnd(1, MAXDEPTH - 1)>>),
          Beyond(Plain(<<Deeper[MAXDEPTH + 1]>>).source)} \cup {Deepest(n) : n \in (BufferSize \div 3 - 12)..(BufferSize \div 3 - 7)}

\* words that str_buf can hold to its last byte, and longer ones
As(n) == [i \in 1..n |-> "a"]
OfLength == {Plain(<<F("if", <<N(1), T(As(STRBUFSIZE - 3))>>)>>),
          Plain(<<F("+", <<W(As(STRBUFSIZE - 1)), N(1)>>)>>),
          Beyond(Plain(<<F("if", <<N(1), T(As(STRBUFSIZE - 2))>>)>>).source),
          Beyond(Plain(<<F("+", <<W(As(STRBUFSIZE)), N(1)>>)>>).source),
          Beyond(As(STRBUFSIZE) \o <<" ">>), Beyond(<<"(", "~">> \o As(STRBUFSIZE)),
          Beyond(<<"(", "~", " ", Quote>> \o As(STRBUFSIZE - 2))}
Mistakes == {Program(<<Deep(N(1))>>, Plain(<<Deep(N(1))>>).source \o more, FALSE, FALSE) :
                 more \in {<<")">>, <<"x", " ">>, <<"x">>, <<"(", "1", ")">>,
                           <<"(", "(", "x", ")", ")">>, <<"(", "~", Quote, "1">>,
                           <<"(", "~", " ">> \o As(STRBUFSIZE - 1),
                           <<"(", "~", " ", Quote>> \o As(STRBUFSIZE - 3)}}

Laid == LaidOut(Sample)
Cut == CutOff(Sample)
Scripts == {Plain(Arrays), Plain(Texts), Plain(Functions), [Plain(Big) EXCEPT !.large = TRUE]}
MCPrograms == Laid \cup Cut \cup Scripts \cup Nested \cup Boundary \cup OfDepth \cup OfLength \cup Mistakes
=============================================================================

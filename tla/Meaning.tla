------------------------------- MODULE Meaning -------------------------------
(***************************************************************************)
(* What scripts are meant to do, without buffers, references and memory: a *)
(* script is a sequence of expressions, each a tree of words; a variable   *)
(* is a sequence of numbers, a text with room for its first characters, or *)
(* a body of expressions.                                                  *)
(***************************************************************************)
EXTENDS Evaluator

W(word) == [word |-> word]
L(trees) == [list |-> trees]
IsWord(tree) == "word" \in DOMAIN tree
IsText(tree) == IsWord(tree) /\ tree.word[1] = Quote

\* values
Number(n) == [n |-> n]
Str(s) == [s |-> s]
Nothing == [nothing |-> TRUE]
Anything == [any |-> TRUE]
Gives(v, env) == [v |-> v, env |-> env]
Truth(b) == Number(IF b THEN 1 ELSE 0)
Num(v) ==
    IF "n" \in DOMAIN v THEN v.n
    ELSE IF "s" \in DOMAIN v THEN OrAllOnes(NumberOf(v.s)) ELSE 0
Holds(v) == Num(v) # 0

\* variables
NoVariables == [name \in {} |-> <<>>]
Numbers(ns) == [numbers |-> ns]
Words(s, room) == [text |-> SubSeq(s, 1, IF Len(s) < room THEN Len(s) ELSE room),
                   room |-> room]
Body(trees) == [body |-> trees]
Is(var, kind) == kind \in DOMAIN var

RECURSIVE Meant(_, _), MeantAll(_, _), MeantArgs(_, _), MeantWhile(_, _, _, _),
          MeantDecision(_, _, _)

\* the value of the last expression
MeantAll(env, trees) ==
    FoldLeft(LAMBDA so, tree : IF IsWord(tree) THEN so ELSE Meant(so.env, tree),
             Gives(Nothing, env), trees)

\* arguments from left to right
MeantArgs(env, trees) ==
    FoldLeft(LAMBDA so, tree : LET g == Meant(so.env, tree)
                               IN  [vs |-> Append(so.vs, g.v), env |-> g.env],
             [vs |-> <<>>, env |-> env], trees)

\* nothing is said of the value of a (while)
MeantWhile(env, test, code, v) ==
    LET go   == Meant(env, test)
        done == MeantAll(go.env, code)
    IN  IF Holds(go.v) THEN MeantWhile(done.env, test, code, Anything) ELSE Gives(v, go.env)

\* the first argument that is as asked for decides
MeantDecision(env, trees, by) ==
    IF trees = <<>> THEN Gives(Truth(~by), env)
    ELSE LET g == Meant(env, trees[1])
         IN  IF Holds(g.v) = by THEN Gives(Truth(by), g.env)
             ELSE MeantDecision(g.env, Tail(trees), by)

-----------------------------------------------------------------------------
With(env, name, var) == [n \in DOMAIN env \cup {name} |-> IF n = name THEN var ELSE env[n]]

MeantVariable(env, name) ==
    CASE Is(env[name], "numbers") -> Gives(Number(env[name].numbers[1]), env)
      [] Is(env[name], "text") -> Gives(Str(env[name].text), env)
      [] Is(env[name], "body") -> MeantAll(env, env[name].body)

MeantElement(env, name, i) ==
    CASE Is(env[name], "numbers") -> Number(env[name].numbers[i + 1])
      [] Is(env[name], "text") ->
           Number(IF i < Len(env[name].text) THEN Code(env[name].text[i + 1]) ELSE 0)

MeantDefinition(env, name, trees) ==
    LET args == MeantArgs(env, trees)
    IN  CASE IsText(trees[1]) ->
               With(env, name, Words(args.vs[1].s, Len(args.vs[1].s)))
          [] IsWord(trees[1]) /\ ~IsText(trees[1]) ->
               With(args.env, name, Numbers([i \in DOMAIN args.vs |-> Num(args.vs[i])]))
          [] ~IsWord(trees[1]) -> With(env, name, Body(trees))

\* what a variable becomes; a character of code 0 ends a text
Assigned(var, v) ==
    IF Is(var, "text") THEN Words(v.s, var.room)
    ELSE Numbers([var.numbers EXCEPT ![1] = Num(v)])
AssignedAt(var, i, v) ==
    CASE Is(var, "numbers") -> Numbers([var.numbers EXCEPT ![i + 1] = Num(v)])
      [] Is(var, "text") -> Words(Chars([Codes(var.text) EXCEPT ![i + 1] = Num(v)]), var.room)

MeantAssignment(env, name, trees) ==
    LET args == MeantArgs(env, trees)
        new  == With(args.env, name,
                     IF Len(trees) = 1 THEN Assigned(args.env[name], args.vs[1])
                     ELSE AssignedAt(args.env[name], Num(args.vs[1]), args.vs[2]))
    IN  IF Len(trees) = 1 THEN MeantVariable(new, name)
        ELSE Gives(MeantElement(new, name, Num(args.vs[1])), new)

MeantCall(env, op, trees) ==
    LET args == MeantArgs(env, trees)
        m    == Num(args.vs[1])
        n    == Num(args.vs[2])
        test == Meant(env, trees[1])
    IN  CASE op \in Calculations -> Gives(Number(Calculated(op, m, n)), args.env)
          [] op \in Comparisons -> Gives(Truth(Compared(op, m, n)), args.env)
          [] op = "~" -> Gives(Number(Word - 1 - m), args.env)
          [] op = "not" -> Gives(Truth(m = 0), args.env)
          [] op \in {"and", "or"} -> MeantDecision(env, trees, op = "or")
          [] op = "if" ->
               IF Holds(test.v) THEN Meant(test.env, trees[2])
               ELSE IF Len(trees) >= 3 THEN Meant(test.env, trees[3])
               ELSE Gives(Nothing, test.env)
          [] op = "while" -> MeantWhile(env, trees[1], Tail(trees), Nothing)
          [] op \in {"defvar", "defconst", "defun"} ->
               Gives(Nothing, MeantDefinition(env, trees[1].word, Tail(trees)))
          [] op \in {"setvar", "="} -> MeantAssignment(env, trees[1].word, Tail(trees))
          [] op = "getvar" /\ Len(trees) = 1 -> MeantVariable(env, trees[1].word)
          [] op = "getvar" /\ Len(trees) = 2 ->
               LET i == Meant(env, trees[2])
               IN  Gives(MeantElement(i.env, trees[1].word, Num(i.v)), i.env)
          [] op = "+=" ->
               LET by  == Meant(env, trees[2])
                   old == by.env[trees[1].word].numbers[1]
               IN  MeantVariable(With(by.env, trees[1].word,
                       Assigned(by.env[trees[1].word],
                                Number((old + Num(by.v)) % Word))), trees[1].word)

Meant(env, tree) ==
    CASE IsText(tree) -> Gives(Str(SubSeq(tree.word, 2, Len(tree.word) - 1)), env)
      [] IsWord(tree) /\ tree.word \in DOMAIN env -> MeantVariable(env, tree.word)
      [] IsWord(tree) /\ ~IsText(tree) /\ tree.word \notin DOMAIN env ->
           Gives(IF NumberIn(tree.word) = -1 THEN Str(tree.word)
                 ELSE Number(NumberIn(tree.word)), env)
      [] ~IsWord(tree) /\ ~IsWord(tree.list[1]) -> MeantAll(env, tree.list)
      [] ~IsWord(tree) /\ IsWord(tree.list[1]) ->
           IF tree.list[1].word \in DOMAIN env
           THEN MeantAll(env, env[tree.list[1].word].body)
           ELSE MeantCall(env, tree.list[1].word[1], Tail(tree.list))
=============================================================================

------------------------------ MODULE Evaluator ------------------------------
(***************************************************************************)
(* eval of lio.c, and the builtins that compute or work on variables       *)
(* (lio_basics.c, lio_references.c).  An item is a type and a value; a     *)
(* list is the sequence of its items, as first() and rest() find them.     *)
(* Every operator gives what it returns and the references afterwards.     *)
(***************************************************************************)
EXTENDS References

(***************************************************************************)
(* parse_number (%i): the number that a word starts with, which may have a *)
(* sign and be octal or hexadecimal, or -1.                                *)
(***************************************************************************)
Quote == "quote"
Digits == <<"0", "1", "2", "3", "4", "5", "6", "7", "8", "9", "a", "b", "c", "d", "e", "f">>
DigitOf(c) == SelectInSeq(Digits, LAMBDA d : d = c) - 1
DigitsOf(s, base) ==
    LET other == SelectInSeq(s, LAMBDA c : DigitOf(c) \notin 0..(base - 1))
    IN  SubSeq(s, 1, IF other = 0 THEN Len(s) ELSE other - 1)
ValueOf(digits, base) ==
    IF digits = <<>> THEN -1
    ELSE FoldLeft(LAMBDA sum, c : base * sum + DigitOf(c), 0, digits)
Unsigned(s) ==
    CASE s = <<>> \/ s[1] # "0" -> ValueOf(DigitsOf(s, 10), 10)
      [] Len(s) > 1 /\ s[1] = "0" /\ s[2] = "x" ->
           ValueOf(DigitsOf(SubSeq(s, 3, Len(s)), 16), 16)
      [] OTHER -> ValueOf(DigitsOf(s, 8), 8)
Signed(n, negative) == IF n = -1 THEN -1 ELSE (IF negative THEN -n ELSE n) % Word
NumberOf(word) ==
    IF word # <<>> /\ word[1] \in {"-", "+"} THEN Signed(Unsigned(Tail(word)), word[1] = "-")
    ELSE Signed(Unsigned(word), FALSE)
OrAllOnes(n) == IF n = -1 THEN Word - 1 ELSE n

\* is_number: a character in quotes too
NumberIn(word) ==
    IF Len(word) >= 3 /\ word[1] = "'" /\ word[3] = "'" THEN Code(word[2]) ELSE NumberOf(word)

(***************************************************************************)
(* What is returned is an item of the expression, or one of three items    *)
(* that hold the last value of their type: Returns puts it there.          *)
(***************************************************************************)
Item(type, value) == [type |-> type, value |-> value]
Held(type, value) == [type |-> type, value |-> value, held |-> TRUE]
None == Item("none", 0)
Num8(n) == Held("uint8", n)
Num16(n) == Held("uint16", n)
Text(s) == Held("string", s)
IsHeld(item) == "held" \in DOMAIN item
Returns(item, st) ==
    [item |-> item,
     st   |-> IF IsHeld(item) THEN [st EXCEPT !.held[item.type] = item.value] ELSE st]
\* an item that was returned before other values were
Now(item, st) == IF IsHeld(item) THEN [item EXCEPT !.value = st.held[item.type]] ELSE item

Arg(list, k) == IF k <= Len(list) THEN list[k] ELSE None
From(list, k) == SubSeq(list, k, Len(list))
Bool(b) == Num8(IF b THEN 1 ELSE 0)
ToUint8(n) == n % Byte

\* + - * / % | & << >> eq < >; dividing by 0 gives all ones, and what is divided.  What a
\* shift by more than the bits of a number gives is undefined, and no script here does it.
Bits == CHOOSE b \in 1..16 : 2^b = Word
Bit(n, b) == (n \div 2^b) % 2
Bitwise(Op(_, _), m, n) ==
    FoldLeft(LAMBDA sum, b : sum + 2^(b - 1) * Op(Bit(m, b - 1), Bit(n, b - 1)),
             0, [b \in 1..Bits |-> b])
Calculations == {"+", "-", "*", "/", "%", "|", "&", "<<", ">>"}
Comparisons == {"eq", "<", ">"}
Calculated(op, m, n) ==
    CASE op = "+" -> (m + n) % Word
      [] op = "-" -> (m - n) % Word
      [] op = "*" -> (m * n) % Word
      [] op = "/" -> IF n = 0 THEN Word - 1 ELSE m \div n
      [] op = "%" -> IF n = 0 THEN m ELSE m % n
      [] op = "|" -> Bitwise(LAMBDA a, b : IF a + b > 0 THEN 1 ELSE 0, m, n)
      [] op = "&" -> Bitwise(LAMBDA a, b : a * b, m, n)
      [] op = "<<" -> IF n >= Bits THEN 0 ELSE (m * 2^n) % Word
      [] op = ">>" -> IF n >= Bits THEN 0 ELSE m \div 2^n
Compared(op, m, n) == CASE op = "eq" -> m = n [] op = "<" -> m < n [] op = ">" -> m > n

\* print_number (%d): numbers of 16 bits have a sign
Printed(n) ==
    LET digits[k \in Nat] == IF k < 10 THEN <<ToString(k)>>
                             ELSE Append(digits[k \div 10], ToString(k % 10))
    IN  IF n < Word \div 2 THEN digits[n] ELSE <<"-">> \o digits[Word - n]

RECURSIVE Eval(_, _), EvalExpressions(_, _), AsUint16(_, _), AsString(_, _),
          GetVariable(_, _, _, _), While(_, _, _, _), Builtin(_, _, _)

-----------------------------------------------------------------------------
\* eval_as_uint16; a stopped evaluation is 0, what is no number all ones
AsUint16Of(got) == AsUint16(got.st, got.item)
AsUint16(st, item) ==
    CASE item.type = "variable" -> AsUint16Of(GetVariable(st, item.value, FALSE, 0))
      [] item.type = "list" -> AsUint16Of(Eval(st, item.value))
      [] item.type \in {"uint8", "uint16"} -> [n |-> item.value, st |-> st]
      [] item.type \in {"atom", "string"} ->
           [n |-> OrAllOnes(NumberOf(item.value)), st |-> st]
      [] OTHER -> [n |-> 0, st |-> st]

\* numbers one after the other, from left to right
AndNumber(so, v) == [ns |-> Append(so.ns, v.n), st |-> v.st]
NumbersIn(st, items) ==
    FoldLeft(LAMBDA so, item : AndNumber(so, AsUint16(so.st, item)),
             [ns |-> <<>>, st |-> st], items)

Narrowed(v, item) == IF item.type = "uint8" THEN v ELSE [v EXCEPT !.n = ToUint8(@)]
AsUint8(st, item) == Narrowed(AsUint16(st, item), item)
AsUint8Of(got) == AsUint8(got.st, got.item)

AsStringOf(got) == AsString(got.st, got.item)
AsString(st, item) ==
    CASE item.type = "variable" -> AsStringOf(GetVariable(st, item.value, FALSE, 0))
      [] item.type = "list" -> AsStringOf(Eval(st, item.value))
      [] item.type \in {"atom", "string"} -> [s |-> item.value, st |-> st]
      [] item.type \in {"uint8", "uint16"} ->
           [s |-> Printed(item.value), st |-> Returns(Text(Printed(item.value)), st).st]
      [] OTHER -> [s |-> <<>>, st |-> st]

-----------------------------------------------------------------------------
\* eval_expressions; without a list among them it returns an uninitialised pointer
EvalExpressions(st, items) ==
    FoldLeft(LAMBDA got, item : IF got.st.stopped \/ item.type # "list" THEN got
                                ELSE Eval(got.st, item.value),
             Returns(None, st), items)

EvalAs(st, head, list) ==
    CASE head.type = "list" -> EvalExpressions(st, list)
      [] head.type = "function" -> Builtin(st, head.value, list)
      [] head.type = "variable" /\ head.value.type = "list" ->
           EvalExpressions(st, head.value.body)
      [] OTHER -> Returns(None, st)
Eval(st, list) == IF st.stopped THEN Returns(None, st) ELSE EvalAs(st, Arg(list, 1), list)

GetVariable(st, ref, indexed, index) ==
    CASE ref = Null -> Returns(None, Stopped(st))
      [] ref # Null /\ indexed /\ ~InRange(ref, index) -> Returns(None, st)
      [] ref # Null /\ ~(indexed /\ ~InRange(ref, index)) ->
           CASE ref.type = "list" -> EvalExpressions(st, ref.body)
             [] ref.type = "string" ->
                  Returns(IF indexed THEN Num16(Peek(st, DataOf(ref) + index))
                          ELSE Text(TextAt(st, DataOf(ref), ref.length)), st)
             [] OTHER -> Returns(Num16(PeekNumber(st,
                             DataOf(ref) + 2 * (IF indexed THEN index ELSE 0))), st)

\* get_variable_ref
Named(name) == [ref |-> Lookup(name.st, name.s), st |-> name.st]
VariableRef(st, item) ==
    IF item.type = "variable" THEN [ref |-> item.value, st |-> st]
    ELSE Named(AsString(st, item))

-----------------------------------------------------------------------------
\* defvar: numbers have one place more than values; other items are functions.  An item of
\* another type gets no memory, and its values are stored behind the header.
IsNumber(item) == item.type \in {"uint8", "uint16"}
Defined(name, item, list) ==
    CASE IsNumber(item) -> DefineVariable(name.st, name.s, item.type, Len(list) - 1, 2, <<>>)
      [] item.type = "string" ->
           DefineVariable(name.st, name.s, "string", Len(item.value) + 1, 1, <<>>)
      [] item.type = "list" ->
           DefineVariable(name.st, name.s, "list", 0, 1, From(list, 3))
      [] OTHER -> DefineVariable(name.st, name.s, item.type, 0, 1, <<>>)

StoreNumber(so, v) == [st |-> PokeNumber(v.st, so.at, v.n), at |-> so.at + 2]
StoreNumbers(st, ref, items) ==
    FoldLeft(LAMBDA so, item : StoreNumber(so, AsUint16(so.st, item)),
             [st |-> st, at |-> DataOf(ref)], items).st
Filled(new, item, list) ==
    CASE new.ref = Null \/ item.type = "list" -> new.st
      [] new.ref # Null /\ item.type = "string" ->
           PokeText(new.st, DataOf(new.ref), Append(Codes(item.value), NUL))
      [] OTHER -> StoreNumbers(new.st, new.ref, From(list, 3))

Linked(new, item, list) ==
    IF new.ref = Null THEN new.st ELSE StoreNext(Filled(new, item, list), new.ref)
Defvar(st, list) ==
    Linked(Defined(AsString(st, Arg(list, 2)), Arg(list, 3), list), Arg(list, 3), list)

\* setvar of a number, or of the string; an index is not compared with the length
SetNumber(args, ref) ==
    IF Len(args.ns) = 1
    THEN Returns(Num16(args.ns[1]), PokeNumber(args.st, DataOf(ref), args.ns[1]))
    ELSE Returns(Num16(args.ns[2]),
                 PokeNumber(args.st, DataOf(ref) + 2 * args.ns[1], args.ns[2]))
SetText(text, ref) ==
    GetVariable(PokeString(text.st, ref, Codes(text.s)), ref, FALSE, 0)
SetCharacter(args, ref) ==
    GetVariable(PokeText(args.st, DataOf(ref) + args.ns[1], <<ToUint8(args.ns[2])>>),
                ref, TRUE, args.ns[1])
SetvarOf(var, list) ==
    CASE var.ref = Null -> Returns(None, Stopped(var.st))
      [] var.ref # Null /\ var.ref.type = "string" ->
           IF Len(list) < 4 THEN SetText(AsString(var.st, Arg(list, 3)), var.ref)
           ELSE SetCharacter(NumbersIn(var.st, SubSeq(list, 3, 4)), var.ref)
      [] OTHER -> SetNumber(NumbersIn(var.st, IF Len(list) < 4 THEN <<Arg(list, 3)>>
                                              ELSE SubSeq(list, 3, 4)), var.ref)
Setvar(st, list) == SetvarOf(VariableRef(st, Arg(list, 2)), list)

GetvarOf(var, indexed, index) == GetVariable(var.st, var.ref, indexed, index)
GetvarAt(index, list) == GetvarOf(VariableRef(index.st, Arg(list, 2)), TRUE, index.n)
Getvar(st, list) ==
    IF Len(list) < 3 THEN GetvarOf(VariableRef(st, Arg(list, 2)), FALSE, 0)
    ELSE GetvarAt(AsUint8(st, Arg(list, 3)), list)

Sum(by, ref) == (PeekNumber(by.st, DataOf(ref)) + by.n) % Word
Added(by, ref) == Returns(Num16(Sum(by, ref)), PokeNumber(by.st, DataOf(ref), Sum(by, ref)))
IncrementOf(var, list) ==
    IF var.ref = Null THEN Returns(None, Stopped(var.st))
    ELSE Added(AsUint16(var.st, Arg(list, 3)), var.ref)
Increment(st, list) == IncrementOf(VariableRef(st, Arg(list, 2)), list)

-----------------------------------------------------------------------------
\* parse_args evaluates both arguments before it stores either
ParseArgsStatic(st, list) ==   \* mutant: a nested call leaves its own arguments there
    NumbersIn(st, <<IF Arg(list, 3).type = "list" /\ Len(Arg(list, 3).value) > 1
                    THEN Arg(Arg(list, 3).value, 2) ELSE Arg(list, 2), Arg(list, 3)>>)
ParseArgs(st, list) == NumbersIn(st, <<Arg(list, 2), Arg(list, 3)>>)

Calculation(name, args) ==
    Returns(IF name \in Comparisons THEN Bool(Compared(name, args.ns[1], args.ns[2]))
            ELSE Num16(Calculated(name, args.ns[1], args.ns[2])), args.st)
Inverted(v) == Returns(Num16(Word - 1 - v.n), v.st)
Negated(v) == Returns(Bool(v.n = 0), v.st)

Chosen(st, item) == IF item.type = "list" THEN Eval(st, item.value) ELSE Returns(item, st)
IfElse(test, list) == Chosen(test.st, IF test.n # 0 THEN Arg(list, 3) ELSE Arg(list, 4))
If(st, list) == IfElse(AsUint8(st, Arg(list, 2)), list)

\* and, or: up to the first argument that decides
Decides(v, by) == [at |-> (v.n # 0) = by, st |-> v.st]
Decided(st, list, by) ==
    FoldLeft(LAMBDA so, item : IF so.at THEN so ELSE Decides(AsUint8(so.st, item), by),
             [at |-> FALSE, st |-> st], From(list, 2))
Decision(so, by) == Returns(Bool(so.at = by), so.st)

\* the test of a (while) may change the value that its code has returned
WhileDone(body, test, code) == While(body.st, test, code, body.item)
WhileGo(go, test, code, value) ==
    IF go.n = 0 THEN [item |-> Now(value, go.st), st |-> go.st]
    ELSE WhileDone(EvalExpressions(go.st, code), test, code)
While(st, test, code, value) == WhileGo(AsUint8Of(Eval(st, test)), test, code, value)

Builtin(st, name, list) ==
    CASE name \in Calculations \cup Comparisons -> Calculation(name, ParseArgs(st, list))
      [] name = "~" -> Inverted(AsUint16(st, Arg(list, 2)))
      [] name = "not" -> Negated(AsUint8(st, Arg(list, 2)))
      [] name \in {"and", "or"} -> Decision(Decided(st, list, name = "or"), name = "or")
      [] name = "if" -> If(st, list)
      [] name = "while" ->
           IF Arg(list, 2).type = "list" /\ Len(list) >= 3
           THEN While(st, list[2].value, From(list, 3), None) ELSE Returns(None, st)
      [] name \in {"defvar", "defconst", "defun"} -> Returns(None, Defvar(st, list))
      [] name \in {"setvar", "="} -> Setvar(st, list)
      [] name = "getvar" -> Getvar(st, list)
      [] name = "+=" -> Increment(st, list)
      [] OTHER -> Returns(None, st)
=============================================================================

---------------------------------- MODULE Lio ----------------------------------
(***************************************************************************)
(* eval_text of lio_run.c: expressions are read into one buffer and        *)
(* evaluated, one after the other, until the text ends or lio is stopped.  *)
(* A program is its text, the trees of words that are written in it, and   *)
(* whether the text is well formed; if it is not, the trees are those      *)
(* before its first mistake.  A large one may take more memory than there  *)
(* is: of a run that does, only the reading is followed.  One that goes    *)
(* beyond what str_buf or last can hold is lost there: the C program is    *)
(* undefined from then on, and nothing more is said of it.                 *)
(***************************************************************************)
EXTENDS Reader, Meaning

CONSTANTS
    Programs,       \* [source, trees, whole, large, beyond]
    MaxRuns

ASSUME LioAssumption == MaxRuns \in Nat

VARIABLES
    pc,             \* idle, start, items, eval, lost
    program,        \* the file of the run
    run,            \* runs since the start
    evaluated,      \* expressions of the run
    value,          \* what eval has returned
    meant           \* history: the meaning of the expressions evaluated

vars == <<text, position, buffer, current, depth, enclosing, last, first_in_list,
          pc, program, run, evaluated, references, value, meant>>

NoMeaning == [v |-> Nothing, env |-> NoVariables]

NoProgram == [source |-> <<>>, trees |-> <<>>, whole |-> TRUE, large |-> FALSE,
              beyond |-> FALSE]

Init ==
    /\ text = <<>> /\ position = 1
    /\ buffer = <<>> /\ current = 0 /\ depth = 0 /\ first_in_list = TRUE
    /\ enclosing = [i \in Depths |-> NoItem]
    /\ last = [i \in Depths |-> NoItem]
    /\ pc = "idle" /\ program = NoProgram /\ run = 0 /\ evaluated = 0
    /\ references = NoReferences /\ value = None /\ meant = NoMeaning

\* runfile_changed, up to eval_text: lio_stop drops what there was; what was held before
\* is never returned
Run(p) ==
    /\ pc = "idle" /\ run < MaxRuns
    /\ run' = run + 1 /\ program' = p /\ text' = p.source /\ position' = 1
    /\ references' = [Stopped(references) EXCEPT !.stopped = FALSE, !.held = NoReferences.held]
    /\ evaluated' = 0 /\ value' = None /\ meant' = NoMeaning
    /\ pc' = "start" /\ UNCHANGED reading

\* the end of eval_text and of runfile_changed, which stops lio again if it was stopped
Finished(so) ==
    /\ pc' = "idle" /\ references' = so
    /\ UNCHANGED <<program, run, evaluated, value, meant, text>>

ReadStart ==
    /\ pc = "start" /\ ~references.stopped /\ NextToken.found /\ NextToken.word = <<"(">>
    /\ StartExpression /\ position' = NextToken.end
    /\ pc' = "items" /\ UNCHANGED <<text, program, run, evaluated, references, value, meant>>

\* a stopped lio reads no more; a word that is no start stops it
ReadEnd ==
    /\ pc = "start"
    /\ \/ references.stopped /\ Finished(references) /\ UNCHANGED position
       \/ /\ ~references.stopped /\ NextToken.word = <<>>
          /\ Finished(references) /\ position' = NextToken.end
       \/ /\ ~references.stopped /\ InStrBuf(NextToken) /\ NextToken.word \notin {<<>>, <<"(">>}
          /\ Finished(Stopped(references)) /\ position' = NextToken.end
    /\ UNCHANGED reading

ReadItemFull ==     \* mutant: where the buffer ends is not looked at
    /\ pc = "items" /\ NextToken.found /\ InStrBuf(NextToken)
    /\ Turn(NextToken, references)
    /\ position' = NextToken.end
    /\ UNCHANGED <<pc, text, program, run, evaluated, references, value, meant>>
ReadItem ==
    /\ pc = "items" /\ Room /\ NextToken.found /\ InStrBuf(NextToken)
    /\ Turn(NextToken, references)
    /\ position' = NextToken.end
    /\ UNCHANGED <<pc, text, program, run, evaluated, references, value, meant>>

ReadLast ==
    /\ pc = "items" /\ Room /\ NextToken.found /\ NextToken.word = <<")">>
    /\ CloseExpression /\ position' = NextToken.end
    /\ pc' = "eval" /\ UNCHANGED <<text, program, run, evaluated, references, value, meant>>

Refuse ==
    /\ pc = "items" /\ Refused(NextToken, references)
    /\ Finished(Stopped(references))
    /\ UNCHANGED <<reading, position>>

\* a write behind str_buf or behind last
Stray ==
    /\ \/ pc = "start" /\ ~references.stopped /\ ~InStrBuf(NextToken)
       \/ pc = "items" /\ Room /\ (~InStrBuf(NextToken) \/ TooDeep(NextToken))
    /\ pc' = "lost"
    /\ UNCHANGED <<reading, text, position, program, run, evaluated, references, value, meant>>

\* safe_eval
Evaluate ==
    /\ pc = "eval"
    /\ LET got == Eval(references, Items(buffer, 0))
       IN  references' = got.st /\ value' = got.item
    /\ meant' = IF evaluated < Len(program.trees)
                THEN Meant(meant.env, program.trees[evaluated + 1]) ELSE NoMeaning
    /\ evaluated' = evaluated + 1 /\ pc' = "start"
    /\ UNCHANGED <<reading, text, position, program, run>>

Next ==
    \/ \E p \in Programs : Run(p)
    \/ ReadStart \/ ReadEnd \/ ReadItem \/ ReadLast \/ Refuse \/ Stray \/ Evaluate

Spec == Init /\ [][Next]_vars

-----------------------------------------------------------------------------
Layout == INSTANCE Layout WITH open <- pc = "items"

(***************************************************************************)
(* The reader lays out expressions as Layout does: it adds to one only     *)
(* while it is open and has room, and nothing else touches the buffer.     *)
(***************************************************************************)
ReadsInLayout == Layout!LayoutSpec

(***************************************************************************)
(* The items that first and rest find in the buffer are those that are     *)
(* written in the text, however they are set apart, and fill it without    *)
(* gaps: list_size, which store_expression copies, is all there is.        *)
(***************************************************************************)
RECURSIVE Written(_)
Written(tree) ==
    IF IsWord(tree) THEN Typed(tree.word, references)
    ELSE Item("list", [i \in DOMAIN tree.list |-> Written(tree.list[i])])
ReadsAsWritten ==
    pc = "eval" =>
        /\ evaluated < Len(program.trees)
        /\ Item("list", Items(buffer, 0)) = Written(program.trees[evaluated + 1])
        /\ ListSize(Items(buffer, 0)) = current

(***************************************************************************)
(* What a script computes and what its variables hold is what it says:     *)
(* no value is changed by a nested call, by another variable or by where   *)
(* in memory the run began, while it takes no more memory than there is.   *)
(***************************************************************************)
SameValue(item, v) ==
    \/ v = Anything
    \/ item.type \in {"uint8", "uint16"} /\ v = Number(item.value)
    \/ item.type \in {"string", "atom"} /\ v = Str(item.value)
    \/ item.type = "none" /\ v = Nothing
SameVariable(ref, var) ==
    CASE ref = Null -> FALSE
      [] ref # Null /\ ref.type = "list" -> Is(var, "body")
      [] ref # Null /\ ref.type = "string" ->
           Is(var, "text") /\ var.text = TextAt(references, DataOf(ref), ref.length)
      [] ref # Null /\ ref.type \notin {"list", "string"} ->
           Is(var, "numbers") /\ \A i \in DOMAIN var.numbers :
               var.numbers[i] = PeekNumber(references, DataOf(ref) + 2 * (i - 1))
Means ==
    ~references.stopped /\ references.heap.taken <= Position =>
        /\ SameValue(value, meant.v)
        /\ \A name \in DOMAIN meant.env : SameVariable(Lookup(references, name), meant.env[name])

(***************************************************************************)
(* A run ends stopped if its text has a mistake or more than fits into     *)
(* memory, and then too has evaluated the expressions before the mistake.  *)
(* It leaves what C defines if, and only if, a word has no place in        *)
(* str_buf or MAXDEPTH lists are open when one more begins.                *)
(***************************************************************************)
RunsAsWritten ==
    /\ pc = "idle" /\ run > 0 =>
           /\ ~program.whole => references.stopped
           /\ references.stopped => ~program.whole \/ program.large
    /\ pc = "idle" /\ run > 0 => ~program.beyond
    /\ pc = "lost" => program.beyond
    /\ pc \in {"idle", "lost"} => program.large \/ evaluated = Len(program.trees)
=============================================================================

----------------------------- MODULE SparkSqlCell -----------------------------
(***************************************************************************)
(* managed_spark_magics/sparksql.py: one %%sparksql cell (or %sparksql     *)
(* line), from its options to its variable.  The text is a sequence of     *)
(* sqlparse tokens; positions count tokens, and a token stands for the     *)
(* text it has in the cell.  sqlparse is external, and splits after every  *)
(* ";"; Spark is external, and may refuse any statement, blame any part of *)
(* what it parsed or of the text of a view, and fail at any later use of   *)
(* the DataFrame.                                                          *)
(* What is displayed is not modelled, only that it may fail.  The names of *)
(* the specification carry Cell, so that one module of proofs can extend   *)
(* this one and others.                                                    *)
(***************************************************************************)
EXTENDS Naturals, FiniteSets, Sequences, SequencesExt

CONSTANTS
    Lines,   \* option lines: sequences over LineTok
    Cells,   \* SQL texts: sequences over SqlTok
    Views    \* SQL texts that are not in the cell, of the views it names

\* "ws" line break, "cm" comment, "x" code that is no identifier, "id" an
\* identifier, "mark" a :name placeholder, "str" a literal with braces in it.
SqlTok == {"ws", "cm", "semi", "x", "id", "mark", "str", "lb", "rb", "BEGIN"}

\* -q, -e, -c, -s NAME, -v NAME, -l50, --explain, the name of an explain mode,
\* another word, and an option that does not exist.
OptTok == {"-q", "-e", "-c", "-s", "-v", "-l50", "--explain", "-?"}
LineTok == OptTok \cup {"mode", "word"}

ASSUME CellAssumption ==
    /\ Lines \subseteq Seq(LineTok)
    /\ Cells \subseteq Seq(SqlTok) /\ Views \subseteq Seq(SqlTok)

VARIABLES
    in,        \* the magic's line, cell and form
    ns,        \* kinds of the notebook variables the SQL names
    stage,     \* "new" | "run" | "materialize" | "view" | "show" | "assign" | "done"
    opts,      \* options that are set
    sql,       \* the text to run
    bound,     \* statements as bound, in order
    ran,       \* what Spark parsed, statement after statement
    cached,    \* "no" | "checkpoint" | "cache"
    view,      \* the temporary view names the result
    variable,  \* user_ns[variable] is the new DataFrame
    out,       \* "none" | "ok" | "usage" | "error" | "interrupt"
    blame      \* what is reported for an error: the statement, and the line,
               \* column and width of the caret (0 without one); and what Spark
               \* meant, and whether the code could be sure of it

cellVars == <<in, ns, stage, opts, sql, bound, ran, cached, view, variable, out, blame>>

Name == {"id", "mark"}
Kind == {"missing", "value", "df"}
KindOf(t) == IF t \in Name THEN ns[t] ELSE "missing"

NoBlame == [stmt |-> 0, line |-> 0, col |-> 0, width |-> 0, meant |-> <<>>, sure |-> FALSE]

CellInit ==
    /\ in \in [line : Lines, cell : Cells, lineForm : BOOLEAN]
    /\ ns \in [Name -> Kind]
    /\ stage = "new" /\ opts = {} /\ sql = <<>> /\ bound = <<>> /\ ran = <<>>
    /\ cached = "no" /\ view = FALSE /\ variable = FALSE
    /\ out = "none" /\ blame = NoBlame

(***************************************************************************)
(* parse_options                                                           *)
(***************************************************************************)

IsIdent(t) == t \in {"id", "BEGIN", "word", "mode"}

\* Token i, after what the scan from the next token and from the one after it
\* gives: the options that are set, the number of positional arguments, where the
\* SQL begins, and whether all is well formed.
ScanToken(line, lineForm, i, next, later) ==
    LET t == line[i]
        Adds(r) == [r EXCEPT !.set = @ \cup {t}]
    IN CASE t \notin OptTok /\ lineForm ->
              [set |-> {}, args |-> 0, rest |-> i, ok |-> TRUE]
         [] t \notin OptTok /\ ~lineForm ->
              [next EXCEPT !.args = @ + 1, !.ok = @ /\ IsIdent(t) /\ next.args = 0]
         [] t = "--explain" ->
              Adds(IF i < Len(line) /\ line[i + 1] = "mode" THEN later ELSE next)
         [] t \in {"-s", "-v"} ->
              [Adds(later) EXCEPT !.ok = @ /\ i < Len(line) /\ (\/ t \in later.set
                                                              \/ IsIdent(line[i + 1]))]
         [] t = "-?" -> [next EXCEPT !.ok = FALSE]
         [] OTHER -> Adds(next)

ScanOptions(line, lineForm) ==
    LET n == Len(line)
        scan[i \in 1..(n + 2)] ==
            IF i > n THEN [set |-> {}, args |-> 0, rest |-> n + 1, ok |-> i = n + 1]
            ELSE ScanToken(line, lineForm, i, scan[i + 1], scan[i + 2])
    IN scan[1]

(***************************************************************************)
(* split_statements                                                        *)
(***************************************************************************)

IsCode(t) == t \notin {"ws", "cm", "semi"}

Code(s) == {i \in 1..Len(s) : IsCode(s[i])}

\* The statement in tokens a..b of s, some of which are code: without leading
\* blanks and without what follows the last code token.
MakeStatement(s, a, b) ==
    LET first == Min({i \in a..b : s[i] # "ws"})
    IN [off |-> first, toks |-> SubSeq(s, first, Max(Code(s) \cap (a..b)))]

\* Mutant: what follows the last ";" is dropped.
EndsClosed(s) == {i \in 1..Len(s) : s[i] = "semi"}

\* Where the pieces of s end.  A script, whose first code token is BEGIN, is one
\* piece.
Ends(s) ==
    IF Code(s) # {} /\ s[Min(Code(s))] = "BEGIN" THEN {Len(s)}
    ELSE {Len(s)} \cup {i \in 1..Len(s) : s[i] = "semi"}

\* The piece that ends at e.
Piece(s, e) == (Max({0} \cup {i \in Ends(s) : i < e}) + 1)..e

\* The numbers of S in their order: the k-th has k - 1 smaller ones.
InOrder(S) ==
    [k \in 1..Cardinality(S) |-> CHOOSE x \in S : Cardinality({y \in S : y < x}) = k - 1]

\* One statement for every piece with code.
SplitStatements(s) ==
    LET ends == InOrder({e \in Ends(s) : Code(s) \cap Piece(s, e) # {}})
    IN [k \in 1..Len(ends) |-> MakeStatement(s, Min(Piece(s, ends[k])), ends[k])]

(***************************************************************************)
(* bind_parameters                                                         *)
(***************************************************************************)

\* The token that closes the {name} reference opened at i, 0 if none does.
BraceIdent(s, i) ==
    IF i + 2 <= Len(s) /\ s[i] = "lb" /\ IsIdent(s[i + 1]) /\ s[i + 2] = "rb"
    THEN i + 2 ELSE 0

Fields(s) == {s[i + 1] : i \in {j \in 1..Len(s) : BraceIdent(s, j) # 0}}
Markers(s) == {s[i] : i \in {j \in 1..Len(s) : s[j] = "mark"}}

\* A text of n tokens is read from its start: read[i].put is what token i gives, and
\* read[i].next where reading goes on.  The i-th value is what i and the rest give.
Gather(n, read) ==
    LET g[i \in 1..(n + 1)] == IF i > n THEN <<>> ELSE read[i].put \o g[read[i].next]
    IN g

\* str.format() gets the text with every brace doubled that is not a reference;
\* "str2" is a literal with its braces doubled.
EscapeAt(s, i) ==
    IF BraceIdent(s, i) # 0 THEN [put |-> SubSeq(s, i, i + 2), next |-> i + 3]
    ELSE [put |-> CASE s[i] \in {"lb", "rb"} -> <<s[i], s[i]>>
                    [] s[i] = "str" -> <<"str2">>
                    [] OTHER -> <<s[i]>>,
          next |-> i + 1]

EscapeBraces(s) == Gather(Len(s), [i \in 1..Len(s) |-> EscapeAt(s, i)])[1]

CanBind(s) ==
    /\ \A m \in Markers(s) : KindOf(m) = "value"
    /\ \A f \in Fields(s) : KindOf(f) = "df"

\* What session.sql() is given for a statement.
Bind(st) ==
    LET kw == Fields(st.toks) # {}
    IN [off |-> st.off, len |-> Len(st.toks), kw |-> kw,
        sql |-> IF kw THEN EscapeBraces(st.toks) ELSE st.toks]

(***************************************************************************)
(* Spark: with keyword arguments the text goes through str.format(), which *)
(* puts the name of a view where a reference was.                          *)
(***************************************************************************)
FormatAt(s, i) ==
    CASE s[i] = "str2" -> [put |-> <<"str">>, next |-> i + 1]
      [] s[i] \notin {"str2", "lb", "rb"} -> [put |-> <<s[i]>>, next |-> i + 1]
      [] s[i] \in {"lb", "rb"} /\ i < Len(s) /\ s[i + 1] = s[i] ->
            [put |-> <<s[i]>>, next |-> i + 2]
      [] BraceIdent(s, i) # 0 -> [put |-> <<"tempview">>, next |-> i + 3]
      [] OTHER -> [put |-> <<"broken">>, next |-> Len(s) + 1]

Format(s) == Gather(Len(s), [i \in 1..Len(s) |-> FormatAt(s, i)])[1]

Parsed(b) == IF b.kw THEN Format(b.sql) ELSE b.sql

(***************************************************************************)
(* run                                                                     *)
(***************************************************************************)
Fail(o) == stage' = "done" /\ out' = o

\* Mutant: a statement is bound when it is about to run.
StartBindsFirst ==
    /\ stage = "new"
    /\ LET text == in.line \o (IF in.lineForm THEN in.cell ELSE <<>>)
           o == ScanOptions(text, in.lineForm)
           s == IF in.lineForm THEN SubSeq(text, o.rest, Len(text)) ELSE in.cell
           st == SplitStatements(s)
       IN IF ~o.ok \/ (in.lineForm /\ "-l50" \in o.set) \/ st = <<>> \/ ~CanBind(st[1].toks)
          THEN Fail("usage") /\ UNCHANGED <<opts, sql, bound>>
          ELSE \/ Fail("usage") /\ UNCHANGED <<opts, sql, bound>>
               \/ /\ stage' = "run" /\ UNCHANGED out
                  /\ opts' = o.set /\ sql' = s
                  /\ bound' = [k \in 1..Len(st) |-> Bind(st[k])]
    /\ UNCHANGED <<in, ns, ran, cached, view, variable, blame>>

\* Options, statements, session and bindings: any of them may be a UsageError,
\* the session whatever the rest is (resolve_session finds none, or several).
Start ==
    /\ stage = "new"
    /\ LET text == in.line \o (IF in.lineForm THEN in.cell ELSE <<>>)
           o == ScanOptions(text, in.lineForm)
           s == IF in.lineForm THEN SubSeq(text, o.rest, Len(text)) ELSE in.cell
           st == SplitStatements(s)
       IN \/ Fail("usage") /\ UNCHANGED <<opts, sql, bound>>
          \/ /\ o.ok /\ ~(in.lineForm /\ "-l50" \in o.set)
             /\ st # <<>>
             /\ \A k \in 1..Len(st) : CanBind(st[k].toks)
             /\ stage' = "run" /\ UNCHANGED out
             /\ opts' = o.set \cup (IF in.lineForm THEN {"-q"} ELSE {})
             /\ sql' = s
             /\ bound' = [k \in 1..Len(st) |-> Bind(st[k])]
    /\ UNCHANGED <<in, ns, ran, cached, view, variable, blame>>

(***************************************************************************)
(* Errors.  Spark's position is one in a text: the statement as it parsed  *)
(* it, or the text of a view.  It comes as a context, from start to stop,  *)
(* with or without its fragment, or as "(line n, pos m)" in the message.   *)
(***************************************************************************)
Slice(s, a, b) == SubSeq(s, a, Min({b, Len(s)}))

NewLines(s, n) == Cardinality({i \in 1..n : s[i] = "ws"})

\* Where the line of position p begins, and the line break it ends with.
LineBegin(s, p) == Max({0} \cup {i \in 1..(p - 1) : s[i] = "ws"}) + 1
LineEnd(s, p) == Min({Len(s) + 1} \cup {i \in p..Len(s) : s[i] = "ws"})

\* Where line n of s begins, if it has that many.
LineStarts(s, n) ==
    {i \in 1..(Len(s) + 1) : NewLines(s, i - 1) + 1 = n /\ (i > 1 => s[i - 1] = "ws")}

ContextsIn(s) ==
    {[start |-> a, stop |-> b, frag |-> SubSeq(s, a, b), says |-> f] :
        a \in 1..Len(s), b \in 1..Len(s), f \in BOOLEAN}

LinePos(s, p) == [line |-> NewLines(s, p - 1) + 1, pos |-> p - LineBegin(s, p)]

\* Mutant: the fragment is not compared.
AcceptsAny(text, c) == c.start <= c.stop

\* _sql_context: the offsets are good, and the fragment, if there is one, is the text
\* there.
Accepts(text, c) ==
    /\ c.start <= c.stop
    /\ c.says => Slice(text, c.start, c.stop) = c.frag

\* _parse_position: where the line and the position lead, unless they are not in
\* the text.
ParsePosition(text, at) ==
    {i + at.pos : i \in LineStarts(text, at.line)} \cap 1..Len(text)

\* format_error: the statement is part of s; the caret is on the first line of
\* what is blamed.
Report(k, b, s, start, stop, meant, sure) ==
    LET from == b.off + start - 1
        to == b.off + Min({stop, b.len}) - 1
    IN IF start > b.len THEN [NoBlame EXCEPT !.stmt = k]
       ELSE [stmt |-> k,
             line |-> NewLines(s, from - 1) + 1,
             col |-> from - LineBegin(s, from) + 1,
             width |-> Max({1, Min({to, LineEnd(s, from) - 1}) - from + 1}),
             meant |-> meant, sure |-> sure]

\* _reraise: the statement, and a caret where Spark's first good context, or else
\* its message, leads in a text that was not formatted; neither for an exception
\* that is not Spark's, nor with full_traceback.
Reraise(k) ==
    LET b == bound[k]
        text == Parsed(b)
    IN \/ UNCHANGED blame
       \/ blame' = [NoBlame EXCEPT !.stmt = k]
       \/ /\ ~b.kw
          /\ \E t \in Views \cup {text} :
                \/ \E c \in ContextsIn(t) :
                      /\ Accepts(text, c)
                      /\ blame' = Report(k, b, sql, c.start, c.stop, c.frag,
                                         c.says \/ t = text)
                \/ \E p \in 1..(Len(t) + 1) : \E q \in ParsePosition(text, LinePos(t, p)) :
                      blame' = Report(k, b, sql, q, q, Slice(t, p, p), t = text)

\* session.sql() of the next statement.  Spark ran what it is given unless it
\* refuses it; an interrupt is no Exception, and leaves open whether it ran.
RunStatement ==
    /\ stage = "run"
    /\ LET k == Len(ran) + 1
       IN \/ /\ ran' = Append(ran, Parsed(bound[k]))
             /\ stage' = IF k = Len(bound) THEN "materialize" ELSE "run"
             /\ UNCHANGED <<out, blame>>
          \/ /\ Fail("error") /\ Reraise(k) /\ UNCHANGED ran
          \/ /\ Fail("interrupt")
             /\ ran' \in {ran, Append(ran, Parsed(bound[k]))}
             /\ UNCHANGED blame
    /\ UNCHANGED <<in, ns, opts, sql, bound, cached, view, variable>>

\* A step after the last statement fails, if it does anything: its error is the
\* last statement's.
LateFailure ==
    /\ stage \in {"materialize", "view", "show"}
    /\ \/ /\ stage = "materialize" => opts \cap {"-e", "-c"} # {}
          /\ stage = "view" => "-v" \in opts
          /\ Fail("error") /\ Reraise(Len(bound))
       \/ Fail("interrupt") /\ UNCHANGED blame
    /\ UNCHANGED <<in, ns, opts, sql, bound, ran, cached, view, variable>>

\* -e, or else -c.
Materialize ==
    /\ stage = "materialize"
    /\ cached' = IF "-e" \in opts THEN "checkpoint"
                 ELSE IF "-c" \in opts THEN "cache" ELSE "no"
    /\ stage' = "view"
    /\ UNCHANGED <<in, ns, opts, sql, bound, ran, view, variable, out, blame>>

\* Mutant: the variable is bound before the result is shown.
CreateViewAssigns ==
    /\ stage = "view"
    /\ view' = ("-v" \in opts)
    /\ variable' = ~in.lineForm
    /\ stage' = IF "--explain" \in opts \/ "-q" \notin opts THEN "show" ELSE "assign"
    /\ UNCHANGED <<in, ns, opts, sql, bound, ran, cached, out, blame>>

\* -v
CreateView ==
    /\ stage = "view"
    /\ view' = ("-v" \in opts)
    /\ stage' = IF "--explain" \in opts \/ "-q" \notin opts THEN "show" ELSE "assign"
    /\ UNCHANGED <<in, ns, opts, sql, bound, ran, cached, variable, out, blame>>

\* --explain, or else the display unless -q.
Show ==
    /\ stage = "show"
    /\ stage' = "assign"
    /\ UNCHANGED <<in, ns, opts, sql, bound, ran, cached, view, variable, out, blame>>

\* The cell's variable (the line form returns the DataFrame instead).
AssignVariable ==
    /\ stage = "assign"
    /\ variable' = ~in.lineForm
    /\ stage' = "done" /\ out' = "ok"
    /\ UNCHANGED <<in, ns, opts, sql, bound, ran, cached, view, blame>>

CellNext ==
    \/ Start \/ RunStatement \/ LateFailure
    \/ Materialize \/ CreateView \/ Show \/ AssignVariable

CellSpec == CellInit /\ [][CellNext]_cellVars

-----------------------------------------------------------------------------

\* The code of a text, without blanks, comments and ";".
CodeAt(s, i) == [put |-> IF IsCode(s[i]) THEN <<s[i]>> ELSE <<>>, next |-> i + 1]
CodeOf(s) == Gather(Len(s), [i \in 1..Len(s) |-> CodeAt(s, i)])[1]

\* The code of a text with views in the place of references.
MeantAt(s, i) ==
    IF BraceIdent(s, i) # 0 THEN [put |-> <<"tempview">>, next |-> i + 3] ELSE CodeAt(s, i)
Meant(s) == Gather(Len(s), [i \in 1..Len(s) |-> MeantAt(s, i)])[1]

\* The code Spark parsed.
Seen == Gather(Len(ran), [k \in 1..Len(ran) |-> [put |-> CodeOf(ran[k]), next |-> k + 1]])[1]

\* What Spark parses, statement after statement, is the cell as the user wrote
\* it: all of it when the cell succeeds, the beginning of it when a statement
\* fails; only {name} references are replaced, whatever braces are around them.
SparkRunsTheCell ==
    /\ IsPrefix(Seen, Meant(sql))
    /\ out = "ok" => Seen = Meant(sql)

\* No statement runs unless the variables of all of them can be bound.
BindBeforeRun == ran # <<>> => CanBind(sql)

\* The statements before the one that is blamed have run, and the caret is under
\* what Spark meant, or its beginning.  That is so of an error in the text of a
\* view too, when Spark gives the fragment it blames: there may be no caret then,
\* but never one at an unrelated place.  (Without a fragment, nothing in the code
\* can tell.)
BlameIsRight == blame.stmt # 0 =>
    /\ Len(ran) >= blame.stmt - 1
    /\ blame.sure /\ blame.width # 0 =>
        /\ blame.width <= Len(blame.meant)
        /\ \E i \in LineStarts(sql, blame.line) :
            \A w \in 1..blame.width : sql[i + blame.col + w - 2] = blame.meant[w]

\* The variable changes only when everything, the display included, succeeded,
\* and never in the line form.
VariableOnlyOnSuccess == variable => out = "ok" /\ ~in.lineForm /\ Len(ran) = Len(bound)
=============================================================================

------------------------------ MODULE SqlEditor -------------------------------
(***************************************************************************)
(* The editor of a SQL console: which statement of its text a run takes,   *)
(* and the templates that its menu inserts.  The text is a sequence of     *)
(* tokens, each a delimiter of SQL or any other text; offsets count the    *)
(* tokens before a cursor.                                                 *)
(***************************************************************************)
EXTENDS Integers, Sequences, SequencesExt

CONSTANTS
  Body,          \* the text of the workspace's template
  MaxTokens      \* bound: tokens of the text

VARIABLE editor  \* the text, and the insertion that is awaited

\* The tokens.  "a" is a word; "/t" is what opens the menu of templates, a slash and a
\* name.  A quote stands for those of strings and of identifiers, which double to escape
\* alike, and the line's end for any white space.  A word and what follows it touch
\* unless there is white space; delimiters that would make another one do not.
Quote == "'"
Tags == {"$$", "$t$"}
LineEnd == "\n"
Words == {"a", "/t"}
Tokens == Words \cup {";", Quote, "\\", "--", LineEnd, "/*", "*/"} \cup Tags

ASSUME EditorAssumption == MaxTokens \in Nat /\ Body \in Seq(Tokens)

\* The positions of a token at or after i, and the first of them or the end.
From(doc, i, token) == {j \in i..Len(doc) : doc[j] = token}
First(places, doc) ==
  CHOOSE j \in places \cup {Len(doc) + 1} : \A k \in places : j <= k
-----------------------------------------------------------------------------
\* splitStatements: where the scan goes on after the token at i.

\* A quote within quotes counts if it is not doubled.
Closing(doc) ==
  LET close[j \in 1..(Len(doc) + 2)] ==
        IF j > Len(doc) THEN Len(doc) + 1
        ELSE IF doc[j] # Quote THEN close[j + 1]
        ELSE IF j < Len(doc) /\ doc[j + 1] = Quote THEN close[j + 2]
        ELSE j + 1
  IN close

\* Variant for the checks: any delimiter of a block ends it.
AnyTagEnds(doc, i) ==
  CASE doc[i] = "--"     -> First(From(doc, i + 1, LineEnd), doc)
    [] doc[i] = "/*"     -> First(From(doc, i + 1, "*/"), doc) + 1
    [] doc[i] = Quote    -> Closing(doc)[i + 1]
    [] doc[i] \in Tags   -> First(UNION {From(doc, i + 1, t) : t \in Tags}, doc) + 1
    [] OTHER             -> i + 1

\* A comment of a line ends before the line's end, all others behind their last token.
After(doc, i) ==
  CASE doc[i] = "--"     -> First(From(doc, i + 1, LineEnd), doc)
    [] doc[i] = "/*"     -> First(From(doc, i + 1, "*/"), doc) + 1
    [] doc[i] = Quote    -> Closing(doc)[i + 1]
    [] doc[i] \in Tags   -> First(From(doc, i + 1, doc[i]), doc) + 1
    [] OTHER             -> i + 1

Separators(doc) ==
  LET seps[i \in 1..(Len(doc) + 2)] ==
        IF i > Len(doc) THEN {}
        ELSE (IF doc[i] = ";" THEN {i} ELSE {}) \cup seps[After(doc, i)]
  IN seps[1]

\* Between two separators there is one statement, given by its offsets.
SplitStatements(doc) ==
  LET ends == {0, Len(doc) + 1} \cup Separators(doc) IN
  {[from |-> p[1], to |-> p[2] - 1] : p \in
     {q \in ends \X ends : q[1] < q[2] /\ \A e \in ends : ~(q[1] < e /\ e < q[2])}}

Text(doc, r) == SubSeq(doc, r.from + 1, r.to)
Trim(text) ==
  LET marks == {i \in DOMAIN text : text[i] # LineEnd} IN
  IF marks = {} THEN <<>>
  ELSE SubSeq(text, First(marks, text), CHOOSE i \in marks : \A j \in marks : j <= i)

\* hasSql: something is left without comments; first those of lines are struck out,
\* whatever they stand in, then those of blocks.
HasSql(text) ==
  LET InLine(i) == \E j \in From(text, 1, "--") : j <= i /\ From(SubSeq(text, 1, i), j, LineEnd) = {}
      rest == [i \in 1..Len(text) |-> IF InLine(i) THEN LineEnd ELSE text[i]]
      sql[i \in 1..(Len(text) + 1)] ==
        /\ i <= Len(text)
        /\ LET close == From(rest, i + 1, "*/") IN
           IF rest[i] = "/*" /\ close # {} THEN sql[First(close, rest) + 1]
           ELSE rest[i] # LineEnd \/ sql[i + 1]
  IN sql[1]

\* statementToRun, without a selection: the statement at the cursor, or the last one
\* before it that has SQL.
StatementToRun(doc, head) ==
  LET ranges == SplitStatements(doc)
      chosen == {r \in ranges : r.from <= head /\ head <= r.to /\ HasSql(Text(doc, r))}
      before == {r \in ranges : r.to <= head /\ HasSql(Text(doc, r))}
      last == {r \in before : \A q \in before : q.to <= r.to}
  IN IF chosen # {} THEN Trim(Text(doc, CHOOSE r \in chosen : TRUE))
     ELSE IF last # {} THEN Trim(Text(doc, CHOOSE r \in last : TRUE))
     ELSE <<>>
-----------------------------------------------------------------------------
NoInsertion == <<>>

FreshEditor == [doc |-> <<>>, awaited |-> NoInsertion]

\* The user types at the cursor or erases; an insertion that is awaited does not know.
Type(at, token) ==
  /\ Len(editor.doc) < MaxTokens /\ at \in 0..Len(editor.doc)
  /\ editor' = [editor EXCEPT !.doc = InsertAt(@, at + 1, token)]

Erase(at) ==
  /\ at \in DOMAIN editor.doc
  /\ editor' = [editor EXCEPT !.doc = RemoveAt(@, at)]

\* A name after a slash that begins a word is replaced by a template's body, which is
\* fetched when it is chosen.
ChooseTemplate(at) ==
  /\ at \in DOMAIN editor.doc /\ editor.doc[at] = "/t"
  /\ at > 1 => editor.doc[at - 1] = LineEnd
  /\ editor.awaited = NoInsertion
  /\ editor' = [editor EXCEPT !.awaited = <<at - 1, at>>]

\* The body is put between the offsets as they were; past the end of the text that is
\* an error, which is reported as one of the fetch.
BodyArrives ==
  /\ editor.awaited # NoInsertion
  /\ LET from == editor.awaited[1]  to == editor.awaited[2] IN
     editor' = IF to > Len(editor.doc) THEN [editor EXCEPT !.awaited = NoInsertion]
               ELSE [doc |-> SubSeq(editor.doc, 1, from) \o Body
                              \o SubSeq(editor.doc, to + 1, Len(editor.doc)),
                     awaited |-> NoInsertion]

BodyFails ==
  /\ editor.awaited # NoInsertion
  /\ editor' = [editor EXCEPT !.awaited = NoInsertion]

EditorInit == editor = FreshEditor

EditorActs ==
  \/ \E at \in 0..MaxTokens : Erase(at) \/ ChooseTemplate(at)
  \/ \E at \in 0..MaxTokens, token \in Tokens : Type(at, token)
  \/ BodyArrives \/ BodyFails

EditorSpec == EditorInit /\ [][EditorActs]_editor
-----------------------------------------------------------------------------
\* The lexical rules of Postgres, read from left to right, as the reference: what is
\* open behind a token, given what was open before it.  A word is code like what is in
\* nothing at all; a dollar sign goes on with the word it touches; comments nest.
Code == {<<>>, <<"word">>}
OpenBehind(open, token) ==
  IF open \in Code
  THEN IF token \in {Quote, "--", "/*"} \/ (token \in Tags /\ open = <<>>) THEN <<token>>
       ELSE IF token \in Words \cup Tags THEN <<"word">> ELSE <<>>
  ELSE IF open[1] = "/*"
       THEN IF token = "/*" THEN Append(open, token) ELSE IF token = "*/" THEN Tail(open) ELSE open
       ELSE IF token = (IF open[1] = "--" THEN LineEnd ELSE open[1]) THEN <<>> ELSE open

Lexed(doc) ==
  LET open[i \in 0..Len(doc)] == IF i = 0 THEN <<>> ELSE OpenBehind(open[i - 1], doc[i])
  IN open

\* What the scan leaves aside: comments in comments, dollar signs of words, and what a
\* backslash does in a string (an escape in E'...', nothing in others).
Plain(doc) ==
  LET open == Lexed(doc) IN
  \A i \in DOMAIN doc :
    /\ doc[i] = "/*" => open[i - 1] = <<>> \/ open[i - 1][1] # "/*"
    /\ doc[i] \in Tags => open[i - 1] # <<"word">>
    /\ doc[i] = "\\" => open[i - 1] # <<Quote>>

\* In a text without these three, a run never takes two statements, nor a part of one,
\* nor one that begins behind the cursor, whatever quotes, comments and blocks the text
\* has or leaves open.  (With them it may, though statement.ts:8-9 says it matches how
\* Postgres parses: the first of two comments' ends ends both for the scan.)
SendsOneStatement ==
  Plain(editor.doc) =>
  \A head \in 0..Len(editor.doc) :
    LET doc == editor.doc
        lexed == Lexed(doc)
        ends == {i \in DOMAIN doc : doc[i] = ";" /\ lexed[i - 1] \in Code}
        sent == StatementToRun(doc, head)
    IN sent # <<>> =>
         \E lo, hi \in ends \cup {0, Len(doc) + 1} :
           /\ lo < hi /\ lo <= head /\ \A e \in ends : e <= lo \/ e >= hi
           /\ sent = Trim(SubSeq(doc, lo + 1, hi - 1))
=============================================================================

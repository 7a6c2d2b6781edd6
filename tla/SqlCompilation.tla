---------------------------- MODULE SqlCompilation ----------------------------
(***************************************************************************)
(* packages/database/src/prisma-runtime.ts: how a statement with numbered  *)
(* parameters is compiled for Prisma, which numbers the parameters itself. *)
(* A scanner looks for them outside literals, quoted names, comments and   *)
(* dollar-quoted bodies. Beside it stands how PostgreSQL reads a statement,*)
(* the reference: both read characters, which fragments put together.      *)
(***************************************************************************)
EXTENDS Integers
LOCAL INSTANCE SequencesExt

CONSTANTS SqlFragments, MaxFragments,   \* bound: the statements that are compiled
          MaxBindings                   \* bound: the values they are given

ASSUME SqlAssumption == MaxFragments \in Nat /\ MaxBindings \in Nat

VARIABLE fragments   \* the statement, as it is put together

SqlTypeOK == fragments \in Seq(SqlFragments) /\ Len(fragments) <= MaxFragments

SqlInit == fragments = <<>>

WriteSql(f) == Len(fragments) < MaxFragments /\ fragments' = Append(fragments, f)

SqlNext == \E f \in SqlFragments : WriteSql(f)

Statement == FlattenSeq(fragments)

Char(s, p) == IF p \in 1 .. Len(s) THEN s[p] ELSE "end"
FirstOf(P) == CHOOSE p \in P : \A q \in P : p <= q
Numerals == <<"1", "2", "3", "4", "5">>   \* a parameter's number has one digit
Digits == {Numerals[i] : i \in 1 .. 5}
Index(c) == CHOOSE i \in 1 .. 5 : Numerals[i] = c
Letters == {"t", "E"}

-----------------------------------------------------------------------------
(* The scanner. Positions begin with 1, and Len(s) + 1 is past the end.    *)

(* Past the first occurrence of t at or after p.                           *)
Past(s, t, p) ==
  LET found == {q \in p .. (Len(s) - Len(t) + 1) : SubSeq(s, q, q + Len(t) - 1) = t}
  IN  IF found = {} THEN Len(s) + 1 ELSE FirstOf(found) + Len(t)

RECURSIVE SkipQuoted(_, _, _)
SkipQuoted(s, p, quote) ==
  IF p > Len(s) THEN Len(s) + 1
  ELSE IF quote = "'" /\ s[p] = "\\" THEN SkipQuoted(s, p + 2, quote)
  ELSE IF s[p] # quote THEN SkipQuoted(s, p + 1, quote)
  ELSE IF Char(s, p + 1) = quote THEN SkipQuoted(s, p + 2, quote)
  ELSE p + 1

RECURSIVE SkipBlockComment(_, _, _)
SkipBlockComment(s, p, depth) ==
  IF p > Len(s) THEN Len(s) + 1
  ELSE IF s[p] = "/" /\ Char(s, p + 1) = "*" THEN SkipBlockComment(s, p + 2, depth + 1)
  ELSE IF s[p] = "*" /\ Char(s, p + 1) = "/"
    THEN IF depth = 1 THEN p + 2 ELSE SkipBlockComment(s, p + 2, depth - 1)
  ELSE SkipBlockComment(s, p + 1, depth)

(* The dollar quote that begins at p, empty if none does.                  *)
DollarQuote(s, p) ==
  LET ends == {q \in (p + 1) .. Len(s) : s[q] = "$"}
      q == FirstOf(ends)
  IN  IF /\ ends # {}
         /\ \A i \in (p + 1) .. (q - 1) : s[i] \in Letters \cup Digits
         /\ Char(s, p + 1) \notin Digits
        THEN SubSeq(s, p, q) ELSE <<>>

SkipDollarQuoted(s, p) ==
  LET tag == DollarQuote(s, p) IN Past(s, tag, p + Len(tag))

IsPlaceholder(s, p) ==
  s[p] = "$" /\ DollarQuote(s, p) = <<>> /\ Char(s, p + 1) \in Digits

AfterPlaceholder(s, p) == p + 2

(* Broken: of all that a parameter may stand in, only quotes are skipped.  *)
SkipQuotesOnly(s, p) == IF s[p] \in {"'", "\""} THEN SkipQuoted(s, p + 1, s[p]) ELSE p + 1

Skip(s, p) ==
  CASE s[p] \in {"'", "\""} -> SkipQuoted(s, p + 1, s[p])
    [] s[p] = "-" /\ Char(s, p + 1) = "-" -> Past(s, <<"\n">>, p + 2)
    [] s[p] = "/" /\ Char(s, p + 1) = "*" -> SkipBlockComment(s, p + 2, 1)
    [] s[p] = "$" /\ DollarQuote(s, p) # <<>> -> SkipDollarQuoted(s, p)
    [] OTHER -> p + 1

RECURSIVE PlaceholdersFrom(_, _)
PlaceholdersFrom(s, p) ==
  IF p > Len(s) THEN <<>>
  ELSE IF IsPlaceholder(s, p)
    THEN <<[start |-> p, end |-> AfterPlaceholder(s, p), index |-> Index(s[p + 1])]>>
           \o PlaceholdersFrom(s, AfterPlaceholder(s, p))
  ELSE PlaceholdersFrom(s, Skip(s, p))

ParameterPlaceholders(s) == PlaceholdersFrom(s, 1)

Rejected == [ok |-> FALSE]

(* The text around the placeholders, and the value of each of them. Value i*)
(* is known by its place among the n values that are given.                *)
CompileParameterizedSql(s, n) ==
  LET found == ParameterPlaceholders(s)
      ends == [i \in 0 .. Len(found) |-> IF i = 0 THEN 1 ELSE found[i].end]
      starts == [i \in 1 .. Len(found) + 1 |->
                  IF i > Len(found) THEN Len(s) + 1 ELSE found[i].start]
      indexes == {0} \cup {found[i].index : i \in 1 .. Len(found)}
  IN  IF n \in indexes /\ \A i \in indexes : i <= n
        THEN [ok |-> TRUE,
              strings |-> [i \in 1 .. Len(found) + 1 |-> SubSeq(s, ends[i - 1], starts[i] - 1)],
              parameters |-> [i \in 1 .. Len(found) |-> found[i].index]]
        ELSE Rejected

-----------------------------------------------------------------------------
(* The reference: where a lexeme of PostgreSQL ends. A quote that closes   *)
(* is not doubled, and in E'' not escaped. Only complete statements are    *)
(* read, in which no name goes on with a dollar.                           *)

Unescaped(s, q) ==
  LET run == {i \in 0 .. (q - 1) : \A j \in (q - i) .. (q - 1) : s[j] = "\\"}
  IN  (CHOOSE i \in run : \A j \in run : j <= i) % 2 = 0

ClosingQuote(s, p, c, escapes) ==
  LET quotes == {q \in (p + 1) .. Len(s) : s[q] = c /\ (escapes => Unescaped(s, q))}
      closing == {q \in quotes : Char(s, q + 1) # c /\ Len(SelectSeq(
                    [i \in 1 .. q |-> i \in quotes], LAMBDA x : x)) % 2 = 1}
  IN  IF closing = {} THEN Len(s) + 1 ELSE FirstOf(closing) + 1

(* The end of the comment whose text is read from p on.                    *)
RECURSIVE CommentEnd(_, _)
CommentEnd(s, p) ==
  CASE p > Len(s) -> Len(s) + 1
    [] p <= Len(s) /\ s[p] = "*" /\ Char(s, p + 1) = "/" -> p + 2
    [] p <= Len(s) /\ s[p] = "/" /\ Char(s, p + 1) = "*" -> CommentEnd(s, CommentEnd(s, p + 2))
    [] OTHER -> CommentEnd(s, p + 1)

PgTags == {<<"$", "$">>, <<"$", "t", "$">>}
PgTag(s, p) == {t \in PgTags : p + Len(t) - 1 <= Len(s) /\ SubSeq(s, p, p + Len(t) - 1) = t}

PgEnd(s, p) ==
  CASE s[p] = "E" /\ Char(s, p + 1) = "'" -> ClosingQuote(s, p + 1, "'", TRUE)
    [] s[p] \in {"'", "\""} -> ClosingQuote(s, p, s[p], FALSE)
    [] s[p] = "-" /\ Char(s, p + 1) = "-" -> Past(s, <<"\n">>, p)
    [] s[p] = "/" /\ Char(s, p + 1) = "*" -> CommentEnd(s, p + 2)
    [] PgTag(s, p) # {} -> LET t == CHOOSE x \in PgTag(s, p) : TRUE IN Past(s, t, p + Len(t))
    [] s[p] = "$" /\ Char(s, p + 1) \in Digits -> p + 2
    [] OTHER -> p + 1

(* Where the lexemes of a statement begin.                                 *)
RECURSIVE PgStarts(_, _)
PgStarts(s, p) == IF p > Len(s) THEN <<>> ELSE <<p>> \o PgStarts(s, PgEnd(s, p))

(* The numbers of the parameters, as they occur.                           *)
PgParameters(s) ==
  LET starts == SelectSeq(PgStarts(s, 1), LAMBDA p :
                  s[p] = "$" /\ PgTag(s, p) = {} /\ Char(s, p + 1) \in Digits)
  IN  [i \in 1 .. Len(starts) |-> Index(s[starts[i] + 1])]

(* A backslash in a literal that is not an E'' one.                        *)
Ambiguous(s) ==
  LET starts == PgStarts(s, 1)
  IN  \E i \in 1 .. Len(starts) :
        s[starts[i]] = "'" /\ \E q \in starts[i] .. (PgEnd(s, starts[i]) - 1) : s[q] = "\\"

(* What Prisma sends: its parameters are numbered as they occur.           *)
Rendered(c) ==
  FlattenSeq([i \in 1 .. 2 * Len(c.strings) - 1 |->
    IF i % 2 = 1 THEN c.strings[(i + 1) \div 2] ELSE <<"$", Numerals[i \div 2]>>])

-----------------------------------------------------------------------------
(* Properties.                                                             *)

(* A statement is compiled when it has as many values as it has parameters,*)
(* and every parameter that PostgreSQL sees in what it is sent has the     *)
(* value which the statement, as it was written, names at that place.      *)
BoundAsWritten ==
  LET s == Statement
      written == PgParameters(s)
      highest == FirstOf({i \in 0 .. 5 : \A j \in 1 .. Len(written) : written[j] <= i})
  IN  ~Ambiguous(s) => \A n \in 0 .. MaxBindings :
        LET c == CompileParameterizedSql(s, n)
            sent == PgParameters(Rendered(c))
        IN  /\ c.ok <=> n = highest
            /\ c.ok => [i \in 1 .. Len(sent) |-> c.parameters[sent[i]]] = written
=============================================================================

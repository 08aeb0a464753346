------------------------------ MODULE ReqText ------------------------------
(***************************************************************************)
(* The text of a requirements file (reqtxt/preprocess.go, shlex.go,        *)
(* classify.go, string.go).  A text is a sequence of marks: a character    *)
(* that the reader treats specially, or a chunk of others that is never    *)
(* taken apart, such as a flag, a name, a path or an environment reference.*)
(***************************************************************************)
EXTENDS Integers, SequencesExt

CONSTANTS
  Flag,          \* chunks that begin with "-"
  VcsWord,       \* chunks that begin with a version control scheme
  UrlWord,       \* chunks that begin with a URL scheme
  ArchiveWord,   \* chunks that end as an archive does
  PathWord       \* chunks with a "/" in them, or "."

Space      == {" ", "nbsp"}   \* unicode.IsSpace
ShlexSpace == {" "}

(***************************************************************************)
(* Preprocessing                                                           *)
(***************************************************************************)

CommentStarts(s) == {i \in 1 .. Len(s) : s[i] = "#" /\ (i = 1 \/ s[i - 1] \in Space)}

StripComment(s) ==
  IF CommentStarts(s) = {} THEN s
  ELSE SubSeq(s, 1, (CHOOSE i \in CommentStarts(s) : \A j \in CommentStarts(s) : i <= j) - 1)

Solid(s) == {i \in 1 .. Len(s) : s[i] \notin Space}

TrimSpace(s) ==
  IF Solid(s) = {} THEN <<>>
  ELSE SubSeq(s, CHOOSE i \in Solid(s) : \A j \in Solid(s) : i <= j,
                 CHOOSE i \in Solid(s) : \A j \in Solid(s) : i >= j)

IsWholeLineComment(s) == TrimSpace(s) # <<>> /\ Head(TrimSpace(s)) = "#"

(* A name that is unset or set to nothing stays as it is.                  *)
ExpandEnv(s, env) ==
  FoldLeft(LAMBDA t, m : t \o (IF m \in DOMAIN env /\ env[m] # <<>> THEN env[m] ELSE <<m>>), <<>>, s)

(***************************************************************************)
(* Words                                                                   *)
(***************************************************************************)

(* strings.Fields                                                          *)
Fields(s) ==
  SelectSeq(FoldLeft(LAMBDA ws, m : IF m \in Space THEN Append(ws, <<>>)
                                    ELSE [ws EXCEPT ![Len(ws)] = Append(@, m)],
                     << <<>> >>, s),
            LAMBDA w : w # <<>>)

(* strings.Join with a space                                               *)
Joined(words) ==
  FoldLeftDomain(LAMBDA t, k : t \o (IF k = 1 THEN <<>> ELSE <<" ">>) \o words[k], <<>>, words)

(* One step of shlexSplit: mark i of s, after what came before it.         *)
ShlexMark(s, a, i) ==
  LET m    == s[i]
      Take == [a EXCEPT !.word = Append(@, m), !.inWord = TRUE, !.escaped = FALSE]
      Open(state) == [a EXCEPT !.state = state, !.inWord = TRUE]
      EndWord == IF a.inWord THEN [a EXCEPT !.words = Append(@, a.word), !.word = <<>>, !.inWord = FALSE]
                 ELSE a
  IN  CASE a.escaped                                  -> Take
        [] ~a.escaped /\ a.state = "normal" ->
             CASE m \in ShlexSpace -> EndWord
               [] m = "'"          -> Open("single")
               [] m = "\""         -> Open("double")
               [] m = "\\"         -> [a EXCEPT !.escaped = TRUE]
               [] OTHER            -> Take
        [] ~a.escaped /\ a.state = "single" ->
             IF m = "'" THEN [a EXCEPT !.state = "normal"] ELSE Take
        [] ~a.escaped /\ a.state = "double" ->
             IF m = "\"" THEN [a EXCEPT !.state = "normal"]
             ELSE IF m = "\\" /\ i < Len(s) /\ s[i + 1] \in {"\"", "\\"} THEN [a EXCEPT !.escaped = TRUE]
             ELSE Take

Shlex(s) ==
  FoldLeftDomain(LAMBDA a, i : ShlexMark(s, a, i),
                 [state |-> "normal", escaped |-> FALSE, inWord |-> FALSE, word |-> <<>>, words |-> <<>>], s)

ShlexFails(s) == Shlex(s).state # "normal" \/ Shlex(s).escaped

ShlexSplit(s) ==
  IF Shlex(s).inWord THEN Append(Shlex(s).words, Shlex(s).word) ELSE Shlex(s).words

(***************************************************************************)
(* Arguments and options                                                   *)
(***************************************************************************)

IsFlag(word) == word # <<>> /\ Head(word) \in Flag

FlagStarts(words) == {k \in 1 .. Len(words) : IsFlag(words[k])}

(* How many words come before the first option.                            *)
Arguments(words) ==
  IF FlagStarts(words) = {} THEN Len(words)
  ELSE (CHOOSE k \in FlagStarts(words) : \A j \in FlagStarts(words) : k <= j) - 1

ArgsText(s)    == Joined(SubSeq(Fields(s), 1, Arguments(Fields(s))))
OptionsText(s) == Joined(SubSeq(Fields(s), Arguments(Fields(s)) + 1, Len(Fields(s))))

Has(word, marks) == \E i \in 1 .. Len(word) : word[i] \in marks

(* The text before and after the first mark m, if there is one.            *)
Cut(word, m) ==
  LET at == CHOOSE i \in 1 .. Len(word) : word[i] = m /\ \A j \in 1 .. i - 1 : word[j] # m
  IN  IF Has(word, {m})
        THEN [found |-> TRUE, before |-> SubSeq(word, 1, at - 1), after |-> SubSeq(word, at + 1, Len(word))]
        ELSE [found |-> FALSE, before |-> word, after |-> <<>>]

SplitFlagValue(word) == Cut(word, "=")

ClassifyTarget(word) ==
  IF word = <<>> THEN "none"
  ELSE IF Head(word) \in VcsWord THEN "vcs"
  ELSE IF Head(word) \in UrlWord THEN "url"
  ELSE IF Last(word) \in ArchiveWord \/ Has(word, PathWord) THEN "local-path"
  ELSE "none"

(* The value of the first egg parameter of the fragment.                   *)
EggName(raw) ==
  LET params == FoldLeft(LAMBDA ps, m : IF m = "&" THEN Append(ps, <<>>)
                                        ELSE [ps EXCEPT ![Len(ps)] = Append(@, m)],
                         << <<>> >>, Cut(raw, "#").after)
      named  == SelectSeq(params, LAMBDA p : Len(p) > 1 /\ p[1] = "egg" /\ p[2] = "=")
  IN  IF named = <<>> THEN <<>> ELSE SubSeq(named[1], 3, Len(named[1]))

RequirementFlag == {<<"-r">>, <<"--requirement">>}
ConstraintFlag  == {<<"-c">>, <<"--constraint">>}
EditableFlag    == {<<"-e">>, <<"--editable">>}

(* knownOptions, under their long names                                    *)
Valued ==
  {<<"--index-url">>, <<"--extra-index-url">>, <<"--find-links">>, <<"--trusted-host">>, <<"--no-binary">>,
   <<"--only-binary">>, <<"--all-releases">>, <<"--only-final">>, <<"--use-feature">>}
Boolean == {<<"--no-index">>, <<"--require-hashes">>, <<"--pre">>, <<"--prefer-binary">>}

LongName(name) ==
  CASE name = <<"-i">> -> <<"--index-url">> [] name = <<"-f">> -> <<"--find-links">> [] OTHER -> name

PerLineValued == {<<"--config-settings">>, <<"--global-option">>, <<"--install-option">>}

(***************************************************************************)
(* File.String                                                             *)
(***************************************************************************)

\* Mutant: only double quotes are escaped.
QuoteWithoutEscapes(v) ==
  IF ~Has(v, {" ", "\""}) THEN v
  ELSE <<"\"">> \o FoldLeft(LAMBDA t, m : t \o (IF m = "\"" THEN <<"\\", m>> ELSE <<m>>), <<>>, v) \o <<"\"">>

QuoteIfNeeded(v) ==
  IF ~Has(v, {" ", "\""}) THEN v
  ELSE <<"\"">> \o FoldLeft(LAMBDA t, m : t \o (IF m \in {"\"", "\\"} THEN <<"\\", m>> ELSE <<m>>), <<>>, v)
         \o <<"\"">>

RenderOption(o) ==
  IF o.value = <<>>
    THEN o.name \o (IF o.name \in Valued \cup PerLineValued THEN <<"=", "\"", "\"">> ELSE <<>>)
    ELSE o.name \o <<"=">> \o QuoteIfNeeded(o.value)

RenderReqOptions(e) ==
  FoldLeft(LAMBDA t, h : t \o <<" ", "--hash", "=">> \o QuoteIfNeeded(h.algorithm \o <<":">> \o h.digest),
           <<>>, e.hashes)
    \o FoldLeft(LAMBDA t, o : t \o <<" ">> \o RenderOption(o), <<>>, e.options)

RenderEntry(e) ==
  CASE e.kind = "requirement" -> e.requirement \o RenderReqOptions(e)
    [] e.kind = "unnamed"     -> (IF e.editable THEN <<"-e", " ">> ELSE <<>>) \o e.raw \o RenderReqOptions(e)
    [] e.kind = "include"     -> <<IF e.constraint THEN "-c" ELSE "-r", " ">> \o e.path
    [] e.kind = "option"      -> RenderOption(e)

(* The lines of File.String; an empty file is one empty line.              *)
Rendered(entries) ==
  IF entries = <<>> THEN << <<>> >> ELSE [k \in 1 .. Len(entries) |-> RenderEntry(entries[k])]
=============================================================================

------------------------------- MODULE Reader -------------------------------
(***************************************************************************)
(* Parse: a requirements file read into entries (reqtxt/preprocess.go,     *)
(* parse.go).  Physical lines are joined and cleaned into logical lines;   *)
(* each of these is dispatched by its first word.  The first error ends    *)
(* the parse and no file is returned.                                      *)
(***************************************************************************)
EXTENDS ReqText

CONSTANTS
  Content,              \* the files: sequences of physical lines
  Envs,                 \* the environments, from reference to value; empty without WithEnv
  ParseRequirement(_)   \* requirement.Parse, as canonical text; empty when it fails

VARIABLES
  pc,
  content, env,
  n,         \* next physical line
  joined,    \* text joined so far
  start,     \* the line it started on, 0 when nothing is being joined
  logical,   \* logical lines
  k,         \* the logical line being dispatched
  tokens,    \* what is left of it
  pending,   \* the entry whose options are being read
  fresh,     \* entries of this logical line
  entries

reading  == <<n, joined, start, logical>>
dispatch == <<k, tokens, pending, fresh, entries>>
vars     == <<pc, content, env, reading, dispatch>>

NoEntry == [kind |-> "none"]

RequirementEntry(text) ==
  [kind |-> "requirement", requirement |-> text, hashes |-> <<>>, options |-> <<>>, line |-> 0]
UnnamedEntry(raw, editable) ==
  [kind |-> "unnamed", raw |-> raw, as |-> ClassifyTarget(raw), editable |-> editable, egg |-> EggName(raw),
   hashes |-> <<>>, options |-> <<>>, line |-> 0]
IncludeEntry(path, constraint) ==
  [kind |-> "include", path |-> path, constraint |-> constraint, line |-> 0]
OptionEntry(name, value) == [kind |-> "option", name |-> name, value |-> value, line |-> 0]

StampSource(e, line) ==
  IF e.kind \in {"requirement", "unnamed"}
    THEN [e EXCEPT !.line = line, !.options = [i \in DOMAIN @ |-> [@[i] EXCEPT !.line = line]]]
    ELSE [e EXCEPT !.line = line]

Start(file, lookup) ==
  /\ pc = "joining" /\ content = file /\ env = lookup
  /\ n = 1 /\ joined = <<>> /\ start = 0 /\ logical = <<>>
  /\ k = 1 /\ tokens = <<>> /\ pending = NoEntry /\ fresh = <<>> /\ entries = <<>>

Init == \E file \in Content, lookup \in Envs : Start(file, lookup)

(***************************************************************************)
(* preprocess                                                              *)
(***************************************************************************)

EndsInBackslash(line) == line # <<>> /\ Last(line) = "\\"

\* Mutant: a comment is continued too.
Backslashed(line) == EndsInBackslash(line)

Continued(line) == EndsInBackslash(line) /\ ~IsWholeLineComment(line)

Opened == IF start = 0 THEN n ELSE start

Flush(text, line) ==
  LET clean == TrimSpace(StripComment(text))
  IN  logical' = IF clean = <<>> THEN logical
                 ELSE Append(logical, [text |-> ExpandEnv(clean, env), line |-> line])

Join ==
  /\ pc = "joining" /\ n <= Len(content) /\ Continued(content[n])
  /\ joined' = joined \o Front(content[n]) /\ start' = Opened
  /\ n' = n + 1
  /\ UNCHANGED <<pc, content, env, logical, dispatch>>

EndLine ==
  /\ pc = "joining" /\ n <= Len(content) /\ ~Continued(content[n])
  /\ Flush(joined \o content[n], Opened)
  /\ joined' = <<>> /\ start' = 0
  /\ n' = n + 1
  /\ UNCHANGED <<pc, content, env, dispatch>>

(* A continuation with nothing after it is flushed at the end.             *)
EndOfContent ==
  /\ pc = "joining" /\ n > Len(content)
  /\ IF start = 0 THEN UNCHANGED logical ELSE Flush(joined, start)
  /\ joined' = <<>> /\ start' = 0
  /\ pc' = "dispatching"
  /\ UNCHANGED <<content, env, n, dispatch>>

(***************************************************************************)
(* dispatchLogicalLine                                                     *)
(***************************************************************************)

Text      == logical[k].text
FirstWord == Fields(Text)[1]
AtLine    == pc = "dispatching" /\ k <= Len(logical)

(* What a package line asks for; NoEntry when it is not a requirement and  *)
(* not a single target.                                                    *)
PackageOf(args) ==
  IF ClassifyTarget(Fields(args)[1]) # "none"
    THEN IF Len(Fields(args)) = 1 THEN UnnamedEntry(args, FALSE) ELSE NoEntry
    ELSE IF ParseRequirement(args) # <<>> THEN RequirementEntry(ParseRequirement(args)) ELSE NoEntry

(* A line can still be blank: its only word was a reference that was       *)
(* expanded to spaces.                                                     *)
BlankLine ==
  /\ AtLine /\ Fields(Text) = <<>>
  /\ k' = k + 1
  /\ UNCHANGED <<pc, content, env, reading, tokens, pending, fresh, entries>>

FlagLine ==
  /\ AtLine /\ Fields(Text) # <<>> /\ IsFlag(FirstWord) /\ ~ShlexFails(Text)
  /\ tokens' = ShlexSplit(Text) /\ pc' = "tokens"
  /\ UNCHANGED <<content, env, reading, k, pending, fresh, entries>>

(* Only the options are split as a shell would.                            *)
PackageLine ==
  /\ AtLine /\ Fields(Text) # <<>> /\ ~IsFlag(FirstWord)
  /\ PackageOf(ArgsText(Text)) # NoEntry /\ ~ShlexFails(OptionsText(Text))
  /\ pending' = PackageOf(ArgsText(Text))
  /\ tokens' = ShlexSplit(OptionsText(Text)) /\ pc' = "options"
  /\ UNCHANGED <<content, env, reading, k, fresh, entries>>

Reject == pc' = "error" /\ UNCHANGED <<content, env, reading, dispatch>>

BadLine ==
  /\ AtLine /\ Fields(Text) # <<>>
  /\ IF IsFlag(FirstWord) THEN ShlexFails(Text)
     ELSE PackageOf(ArgsText(Text)) = NoEntry \/ ShlexFails(OptionsText(Text))
  /\ Reject

(***************************************************************************)
(* dispatchLine                                                            *)
(***************************************************************************)

AtToken == pc = "tokens" /\ tokens # <<>>
First   == SplitFlagValue(Head(tokens))
Rest    == Tail(tokens)

\* Mutant: the value stays among the tokens.
TakeValueKept(flag, rest) ==
  IF flag.found THEN [ok |-> TRUE, value |-> flag.after, rest |-> rest]
  ELSE IF rest = <<>> THEN [ok |-> FALSE, value |-> <<>>, rest |-> <<>>]
  ELSE [ok |-> TRUE, value |-> Head(rest), rest |-> rest]

TakeValue(flag, rest) ==
  IF flag.found THEN [ok |-> TRUE, value |-> flag.after, rest |-> rest]
  ELSE IF rest = <<>> THEN [ok |-> FALSE, value |-> <<>>, rest |-> <<>>]
  ELSE [ok |-> TRUE, value |-> Head(rest), rest |-> Tail(rest)]

Taken == TakeValue(First, Rest)

HashFlag == <<"--hash">>

Emit(e, rest) ==
  /\ fresh' = Append(fresh, e) /\ tokens' = rest
  /\ UNCHANGED <<pc, content, env, reading, k, pending, entries>>

Pend(e, rest) ==
  /\ pending' = e /\ tokens' = rest /\ pc' = "options"
  /\ UNCHANGED <<content, env, reading, k, fresh, entries>>

Include ==
  /\ AtToken /\ First.before \in RequirementFlag \cup ConstraintFlag /\ Taken.ok
  /\ Emit(IncludeEntry(Taken.value, First.before \in ConstraintFlag), Taken.rest)

Editable ==
  /\ AtToken /\ First.before \in EditableFlag
  /\ Taken.ok /\ ClassifyTarget(Taken.value) # "none"
  /\ Pend(UnnamedEntry(Taken.value, TRUE), Taken.rest)

IsFileOption == IsFlag(Head(tokens)) /\ First.before \notin RequirementFlag \cup ConstraintFlag \cup EditableFlag
OptionName   == LongName(First.before)

(* A flag that is not known takes no value but one after "=", and neither  *)
(* does a --hash that nothing follows.                                     *)
FileOption ==
  /\ AtToken /\ IsFileOption
  /\ OptionName \in Valued => Taken.ok
  /\ OptionName \in Boolean => ~First.found
  /\ IF OptionName \in Valued \cup {HashFlag} /\ Taken.ok
       THEN Emit(OptionEntry(OptionName, Taken.value), Taken.rest)
       ELSE Emit(OptionEntry(OptionName, First.after), Rest)

PackageToken ==
  /\ AtToken /\ ~IsFlag(Head(tokens))
  /\ \/ /\ ClassifyTarget(Head(tokens)) # "none"
        /\ Pend(UnnamedEntry(Head(tokens), FALSE), Rest)
     \/ /\ ClassifyTarget(Head(tokens)) = "none" /\ ParseRequirement(Head(tokens)) # <<>>
        /\ Pend(RequirementEntry(ParseRequirement(Head(tokens))), Rest)

BadToken ==
  /\ AtToken
  /\ IF First.before \in RequirementFlag \cup ConstraintFlag THEN ~Taken.ok
     ELSE IF First.before \in EditableFlag THEN ~Taken.ok \/ ClassifyTarget(Taken.value) = "none"
     ELSE IF IsFlag(Head(tokens))
       THEN (OptionName \in Valued /\ ~Taken.ok) \/ (OptionName \in Boolean /\ First.found)
     ELSE ClassifyTarget(Head(tokens)) = "none" /\ ParseRequirement(Head(tokens)) = <<>>
  /\ Reject

(***************************************************************************)
(* attachReqOptions                                                        *)
(***************************************************************************)

AtOption  == pc = "options" /\ tokens # <<>>
IsValued  == First.before = HashFlag \/ First.before \in PerLineValued
(* An option that is not known has no value but one after "=".             *)
OptionValue == IF IsValued THEN Taken.value ELSE First.after
AfterOption == IF IsValued THEN Taken.rest ELSE Rest

AttachHash ==
  /\ AtOption /\ First.before = HashFlag /\ Taken.ok /\ Cut(Taken.value, ":").found
  /\ pending' = [pending EXCEPT !.hashes =
       Append(@, [algorithm |-> Cut(Taken.value, ":").before, digest |-> Cut(Taken.value, ":").after])]
  /\ tokens' = Taken.rest
  /\ UNCHANGED <<pc, content, env, reading, k, fresh, entries>>

AttachOption ==
  /\ AtOption /\ IsFlag(Head(tokens)) /\ First.before # HashFlag
  /\ IsValued => Taken.ok
  /\ pending' = [pending EXCEPT !.options =
       Append(@, [name |-> First.before, value |-> OptionValue, line |-> 0])]
  /\ tokens' = AfterOption
  /\ UNCHANGED <<pc, content, env, reading, k, fresh, entries>>

BadOption ==
  /\ AtOption
  /\ \/ ~IsFlag(Head(tokens))
     \/ IsValued /\ ~Taken.ok
     \/ First.before = HashFlag /\ Taken.ok /\ ~Cut(Taken.value, ":").found
  /\ Reject

EndOptions ==
  /\ pc = "options" /\ tokens = <<>>
  /\ fresh' = Append(fresh, pending) /\ pending' = NoEntry /\ pc' = "tokens"
  /\ UNCHANGED <<content, env, reading, k, tokens, entries>>

EndOfLine ==
  /\ pc = "tokens" /\ tokens = <<>>
  /\ entries' = entries \o [i \in DOMAIN fresh |-> StampSource(fresh[i], logical[k].line)]
  /\ fresh' = <<>> /\ k' = k + 1 /\ pc' = "dispatching"
  /\ UNCHANGED <<content, env, reading, tokens, pending>>

Done ==
  /\ pc = "dispatching" /\ k > Len(logical)
  /\ pc' = "parsed"
  /\ UNCHANGED <<content, env, reading, dispatch>>

Next ==
  \/ Join \/ EndLine \/ EndOfContent
  \/ BlankLine \/ FlagLine \/ PackageLine \/ BadLine
  \/ Include \/ Editable \/ FileOption \/ PackageToken \/ BadToken
  \/ AttachHash \/ AttachOption \/ BadOption \/ EndOptions
  \/ EndOfLine \/ Done

Spec == Init /\ [][Next]_vars

(***************************************************************************)
(* Properties                                                              *)
(***************************************************************************)

Mark    == UNION {Range(content[i]) : i \in DOMAIN content} \cup UNION {Range(env[v]) : v \in DOMAIN env}
             \cup {"--index-url", "--find-links"}
Piece   == Seq(Mark)
Options == Seq([name : Piece, value : Piece, line : Nat])
Hashes  == Seq([algorithm : Piece, digest : Piece])
Entry   ==
  [kind : {"requirement"}, requirement : Seq(STRING), hashes : Hashes, options : Options, line : Nat]
    \cup [kind : {"unnamed"}, raw : Piece, as : {"vcs", "url", "local-path"}, editable : BOOLEAN, egg : Piece,
          hashes : Hashes, options : Options, line : Nat]
    \cup [kind : {"include"}, path : Piece, constraint : BOOLEAN, line : Nat]
    \cup [kind : {"option"}, name : Piece, value : Piece, line : Nat]

(* What the file says with its whole-line comments blanked: a line that    *)
(* ends in a backslash goes on in the next.                                *)
Blanked == [i \in DOMAIN content |-> IF IsWholeLineComment(content[i]) THEN <<>> ELSE content[i]]

Segment(i) ==
  LET last == CHOOSE j \in i .. Len(Blanked) :
                /\ j = Len(Blanked) \/ ~EndsInBackslash(Blanked[j])
                /\ \A l \in i .. j - 1 : EndsInBackslash(Blanked[l])
      text == FoldLeft(LAMBDA t, line : t \o (IF EndsInBackslash(line) THEN Front(line) ELSE line),
                       <<>>, SubSeq(Blanked, i, last))
  IN  [text |-> TrimSpace(StripComment(text)), line |-> i]

Segments ==
  LET starts == SelectSeq([i \in DOMAIN content |-> i], LAMBDA i : i = 1 \/ ~EndsInBackslash(Blanked[i - 1]))
  IN  SelectSeq([j \in DOMAIN starts |-> Segment(starts[j])], LAMBDA s : s.text # <<>>)

(* Whole-line comments change nothing, wherever they stand: not what is    *)
(* read, and not the line it is attributed to (preprocess, steps 2 to 4).  *)
CommentsInert ==
  pc \notin {"joining", "error"} =>
    logical = [j \in DOMAIN Segments |-> [Segments[j] EXCEPT !.text = ExpandEnv(@, env)]]

Syntax == Space \cup {"'", "\"", "\\", "=", ":"}
Count(m, text) == Len(SelectSeq(text, LAMBDA x : x = m))

Said(e) ==
  LET Optioned(os) == FoldLeft(LAMBDA t, o : t \o o.name \o o.value, <<>>, os)
      Hashed(hs)   == FoldLeft(LAMBDA t, h : t \o HashFlag \o h.algorithm \o h.digest, <<>>, hs)
  IN  CASE e.kind = "requirement" -> e.requirement \o Hashed(e.hashes) \o Optioned(e.options)
        [] e.kind = "unnamed"     -> (IF e.editable THEN <<"-e">> ELSE <<>>) \o e.raw
                                       \o Hashed(e.hashes) \o Optioned(e.options)
        [] e.kind = "include"     -> <<IF e.constraint THEN "-c" ELSE "-r">> \o e.path
        [] e.kind = "option"      -> e.name \o e.value

SameFlag(m) ==
  CASE m = "-i" -> "--index-url" [] m = "-f" -> "--find-links" [] m = "--requirement" -> "-r"
    [] m = "--constraint" -> "-c" [] m = "--editable" -> "-e" [] OTHER -> m

(* Whatever a logical line says is in the entries of its line, as many     *)
(* times as it says it: no value is dropped, attached twice, or made into  *)
(* a second entry (takeValue, dispatchFileOption, attachReqOptions).       *)
EveryMarkOnce ==
  pc = "parsed" =>
    \A i \in DOMAIN logical :
      LET mine == SelectSeq(entries, LAMBDA e : e.line = logical[i].line)
          said == FoldLeft(LAMBDA t, e : t \o Said(e), <<>>, mine)
          Known(text) == [j \in DOMAIN text |-> SameFlag(text[j])]
      IN  \A m \in (Range(Known(logical[i].text)) \cup Range(Known(said))) \ Syntax :
            Count(m, Known(logical[i].text)) = Count(m, Known(said))
=============================================================================

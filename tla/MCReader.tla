------------------------------ MODULE MCReader ------------------------------
(***************************************************************************)
(* Requirements files of up to three physical lines, and every short text  *)
(* after an option that takes a value.                                     *)
(***************************************************************************)
EXTENDS ReaderRoundTrip

MCFlag        == {"-r", "-c", "-e", "-i", "-f", "--requirement", "--constraint", "--editable",
                  "--index-url", "--find-links", "--pre", "--hash", "--global-option", "--frob"}
MCVcsWord     == {"git+h"}
MCUrlWord     == {"https"}
MCArchiveWord == {"w.whl"}
MCPathWord    == {"./d", "/d"}

MCEnvs == {<<>>, [v \in {"${V}"} |-> <<" ">>], [v \in {"${V}"} |-> <<"-r", " ", "x">>]}

\* requirement.Parse takes a name, or a name with a marker, which it writes without the first space.
Clause    == <<"p", " ", ";", " ", "m", " ", "\"", "v", "\"">>
Canonical == <<"p", ";", " ", "m", " ", "\"", "v", "\"">>
MCParseRequirement(text) ==
  IF text \in {<<"p">>, <<"q">>} THEN text
  ELSE IF text \in {Clause, Canonical} THEN Canonical ELSE <<>>

(***************************************************************************)
(* Lines                                                                   *)
(***************************************************************************)

Continuing == {<<"p", " ", "\\">>, <<"-f", "=", "x", "\\">>, <<"q", " ", "#", "c", "\\">>, <<"\\">>}

Comment == <<" ", "#", "c", "\\">>

Plain ==
  {<<>>, <<"p">>, Comment,
   <<"p", "nbsp", "#", "c">>,
   <<" ", "--hash", "=", "s", ":", "d">>,
   <<"--frob", " ", "-r", " ", "q">>,
   <<"${V}">>}

Wordy ==
  {Clause \o <<" ", "--global-option", " ", "\"", "a", "\\", "\"", " ", "b", "\"", " ", "--hash", " ", "s", ":", "d">>,
   <<"p", " ", "--global-option", "=", " ", "--frob", " ", "--hash", "=", "s", ":", "d">>,
   <<"--pre", " ", "-i", " ", "'", "x", " ", "y", "'", " ", "-c", "=", "x", " ", "q">>,
   <<"-e", " ", "git+h", "#", "s", "=", "d", "&", "egg", "=", "p", " ", "--hash", "=", "s", ":", "d">>,
   <<"--frob", "=", "a", "=", "b", " ", "https">>, <<"--frob", " ", "p">>,
   <<"--hash">>, <<"--hash", " ", "s", ":", "d", " ", "w.whl">>,
   <<"./d">>, <<"w.whl", "\\", " ">>,
   <<"-f", "=">>, <<"-r", "=">>}

Wrong ==
  {<<"x">>, <<"p", " ", "--hash">>, <<"p", " ", "--hash", "=", "d">>, <<"./d", " ", ";", "m">>,
   <<"-i">>, <<"-e", " ", "p">>, <<"-e">>, <<"-c">>, <<"--pre", "=", "x">>, <<"-f", " ", "'", "x">>,
   <<"-f", " ", "x", "\\", " ">>, <<"p", " ", "--frob", " ", "p">>, <<"p", " ", "--hash", " ", "\"">>,
   <<"--pre", " ", "x">>}

Files(S, l) == UNION {[1 .. j -> S] : j \in 1 .. l}

Values(l) == {<<>>} \cup Files({"x", " ", "'", "\"", "\\", "#", "nbsp"}, l)

MCContent ==
  Files(Continuing \cup Plain, 3) \cup Files(Continuing \cup Wordy, 2)
    \cup {<<a, b>> : a \in Wordy, b \in Wrong}
    \cup {<<line>> : line \in Wrong}
    \cup {<< <<"-f", "=">> \o v >> : v \in Values(4)}
    \cup {<< <<"p", " ", "--global-option", "=">> \o v >> : v \in Values(3)}
    \cup {<< <<"--pre", " ">> \o v \o <<"/d">> >> : v \in Values(2)}

\* A comment in the first column after a continuation.
GluedContent == {<<a, b>> : a \in Continuing, b \in {<<"#", "c">>, <<"p">>, Comment}}
=============================================================================

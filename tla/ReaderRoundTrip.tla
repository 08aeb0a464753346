-------------------------- MODULE ReaderRoundTrip --------------------------
(***************************************************************************)
(* A file is parsed, written by File.String and parsed again               *)
(* (reqtxt/string.go: "Parse(f.String()) yields a File equivalent to f").  *)
(***************************************************************************)
EXTENDS Reader

VARIABLE first   \* history: the entries that were written, once they are

NotYet == << NoEntry >>

InitTrip == Init /\ first = NotYet

Reparse ==
  /\ pc = "parsed" /\ first = NotYet
  /\ first' = entries
  /\ content' = Rendered(entries) /\ env' = <<>>
  /\ pc' = "joining" /\ n' = 1 /\ logical' = <<>> /\ k' = 1 /\ entries' = <<>>
  /\ UNCHANGED <<joined, start, tokens, pending, fresh>>

NextTrip == Reparse \/ (Next /\ UNCHANGED first)

SpecTrip == InitTrip /\ [][NextTrip]_<<vars, first>>

Written == first # NotYet

(* The same entries, wherever they stand.                                  *)
Unplaced(es) == [i \in DOMAIN es |-> StampSource(es[i], 0)]

Restored == pc # "error" /\ (pc = "parsed" => Unplaced(entries) = Unplaced(first))

(***************************************************************************)
(* What survives                                                           *)
(***************************************************************************)

(* A word that stands unquoted in the line.                                *)
Bare(word) == word # <<>> /\ Head(word) # "#" /\ ~Has(word, {" ", "nbsp", "'", "\"", "\\"})

(* quoteIfNeeded looks for spaces and double quotes; a comment starts      *)
(* inside quotes as well as outside.                                       *)
Quotable(value) ==
  /\ CommentStarts(<<"=">> \o value) = {} /\ ~Has(value, {"nbsp"})
  /\ Has(value, {"'", "\\"}) => Has(value, {" ", "\""})

(* breakArgsOptions leaves one space between words.                        *)
Evenly(value) == ~ \E i \in 1 .. Len(value) - 1 : value[i] = " " /\ value[i + 1] = " "

PrintableTail(e) ==
  /\ \A i \in DOMAIN e.hashes :
       LET value == e.hashes[i].algorithm \o <<":">> \o e.hashes[i].digest IN Quotable(value) /\ Evenly(value)
  /\ \A i \in DOMAIN e.options :
       Bare(e.options[i].name) /\ Quotable(e.options[i].value) /\ Evenly(e.options[i].value)

Printable(e) ==
  CASE e.kind = "requirement" -> PrintableTail(e)
    [] e.kind = "unnamed" ->
         /\ PrintableTail(e)
         /\ IF e.editable THEN Bare(e.raw)
            ELSE Head(e.raw) # "#" /\ ~Has(e.raw, Space) /\ Last(e.raw) # "\\"
    [] e.kind = "include" -> Bare(e.path)
    [] e.kind = "option"  -> Bare(e.name) /\ Quotable(e.value)

(* A file whose names and targets need no quoting, and whose values hold   *)
(* no comment, no run of spaces and no quote or backslash on its own,      *)
(* survives whole: every entry, in order (renderEntry, quoteIfNeeded,      *)
(* renderOption against shlexSplit and breakArgsOptions).                  *)
PrintableRoundTrips ==
  Written /\ (\A i \in DOMAIN first : Printable(first[i])) => Restored
=============================================================================

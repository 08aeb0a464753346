---------------------------- MODULE Candidates ----------------------------
(***************************************************************************)
(* The members of specifier sets and the candidate strings they are asked  *)
(* about, over concrete versions (version/specifier_query.go).             *)
(*                                                                         *)
(* A candidate is a string: its text, and the version it parses to, with   *)
(* an empty release if it parses to none.  A member adds to a specifier    *)
(* the policy it was built with and, for "===", the text of its operand,   *)
(* which need not parse.  Texts are told apart up to case, as EqualFold    *)
(* does.  "nil" stands for the operator of the zero Specifier.             *)
(***************************************************************************)
EXTENDS Specifiers

Candidate(text, v) == [text |-> text, ver |-> v]
Opaque(text)       == [text |-> text, ver |-> ZeroValue]

Parses(x)      == x.ver.release # <<>>
ParsesAsPre(x) == Parses(x) /\ IsPreRelease(x.ver)

WithPolicy(s, own)      == [spec |-> s, text |-> "", own |-> own]
Arbitrary(text, v, own) == [spec |-> Plain("===", v), text |-> text, own |-> own]
NilMember               == [spec |-> Plain("nil", ZeroValue), text |-> "", own |-> "Auto"]

(* admitsUnparseable: the nil operator and an arbitrary operand spelled    *)
(* the same way match what is no version; every other operator needs one.  *)
AdmitsUnparseable(m, x) == m.spec.op = "nil" \/ (m.spec.op = "===" /\ m.text = x.text)

(* groupMatches and the loop of filterKeep, for one member.                *)
MemberAdmits(m, x) ==
  \/ AdmitsUnparseable(m, x)
  \/ /\ m.spec.op \notin {"nil", "==="}
     /\ Parses(x)
     /\ Check(m.spec, x.ver)

(* Specifier.canonicalSpec: a "===" operand stands as written.             *)
CanonicalMember(m) ==
  IF m.spec.op = "===" THEN [spec |-> Plain("===", ZeroValue), text |-> m.text]
  ELSE IF m.spec.op = "nil" THEN [spec |-> m.spec, text |-> ""]
  ELSE [spec |-> CanonicalSpec(m.spec), text |-> ""]

(* Specifier.PreReleases: the policy it was built with, else the one its   *)
(* operator and operand suggest, if the operand parses.                    *)
ResolvedPolicy(m) ==
  IF m.own # "Auto" THEN m.own
  ELSE IF m.spec.ver.release = <<>> THEN "Auto"
  ELSE DerivedPolicy(m.spec)
=============================================================================

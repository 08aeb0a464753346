----------------------------- MODULE Selection -----------------------------
(***************************************************************************)
(* Which of the candidates a specifier, or a set, offers (the two          *)
(* filterKeep methods of version/specifier_query.go with matchAll,         *)
(* filterEmpty and applyPEP440Preference).  The loops run over the         *)
(* candidates one by one.                                                  *)
(***************************************************************************)
EXTENDS SpecifierSets, FiniteSets

CONSTANTS
  Subject,      \* what is asked: members and sets
  Candidates,   \* the sequences of items it is asked about
  IsPre(_),     \* whether an item is a pre-release version
  OwnPolicy(_)  \* the policy a member was built with

ASSUME SubjectsAssumption ==
  /\ Subject \subseteq [kind : {"member"}, member : Member]
                         \cup [kind : {"set"}, set : SpecifierSet]
  /\ Candidates \subseteq Seq(Item)
  /\ \A x \in Item : IsPre(x) \in BOOLEAN /\ (IsPre(x) => IsVersion(x))
  /\ \A m \in Member : OwnPolicy(m) \in {"Auto", MemberPolicy(m)}

VARIABLES
  subject,   \* the receiver of the query
  call,      \* the policy passed with the query
  items,     \* the candidates
  pc,        \* "start", "member", "match", "prefer" or "done"
  n,         \* the loop over the candidates
  matched,   \* matchAll's and filterEmpty's result: positions in items
  keep,      \* the positions offered
  held,      \* the pre-releases held back for want of a final release
  found      \* whether what they are held back for was found

vars == <<subject, call, items, pc, n, matched, keep, held, found>>

First == 1

Init ==
  /\ subject \in Subject
  /\ call \in Policy
  /\ items \in Candidates
  /\ pc = "start"
  /\ n = First
  /\ matched = {} /\ keep = {} /\ held = {}
  /\ found = FALSE

(* ContainsInstalled: an installed pre-release is asked for as such.       *)
AskInstalled ==
  /\ pc = "start"
  /\ subject.kind = "set" /\ Len(items) = 1
  /\ call # "Include"
  /\ IsPre(items[1])
  /\ call' = "Include"
  /\ UNCHANGED <<subject, items, pc, n, matched, keep, held, found>>

(***************************************************************************)
(* Specifier.filterKeep                                                    *)
(***************************************************************************)

IncludePre(m) == IF call = "Auto" THEN MemberPolicy(m) = "Include" ELSE call = "Include"

\* Mutant: a policy derived from the operand forbids as an explicit one does.
MayHoldResolved(m) == call = "Auto" /\ MemberPolicy(m) # "Exclude"

(* A pre-release waits for its turn unless it is forbidden outright; the   *)
(* policy derived from the operand forbids nothing.                        *)
MayHold(m) == call = "Auto" /\ OwnPolicy(m) # "Exclude"

StartMember ==
  /\ pc = "start"
  /\ subject.kind = "member"
  /\ pc' = "member"
  /\ UNCHANGED <<subject, call, items, n, matched, keep, held, found>>

OfferItem ==
  /\ pc = "member" /\ n <= Len(items)
  /\ Admits(subject.member, items[n])
  /\ ~IsPre(items[n]) \/ IncludePre(subject.member)
  /\ keep' = keep \cup {n}
  /\ found' = (found \/ IsVersion(items[n]))
  /\ n' = n + 1
  /\ UNCHANGED <<subject, call, items, pc, matched, held>>

HoldItem ==
  /\ pc = "member" /\ n <= Len(items)
  /\ Admits(subject.member, items[n])
  /\ IsPre(items[n]) /\ ~IncludePre(subject.member)
  /\ held' = IF MayHold(subject.member) THEN held \cup {n} ELSE held
  /\ n' = n + 1
  /\ UNCHANGED <<subject, call, items, pc, matched, keep, found>>

PassItem ==
  /\ pc = "member" /\ n <= Len(items)
  /\ ~Admits(subject.member, items[n])
  /\ n' = n + 1
  /\ UNCHANGED <<subject, call, items, pc, matched, keep, held, found>>

EndMember ==
  /\ pc = "member" /\ n > Len(items)
  /\ keep' = IF ~found /\ MayHold(subject.member) THEN keep \cup held ELSE keep
  /\ pc' = "done"
  /\ UNCHANGED <<subject, call, items, n, matched, held, found>>

(***************************************************************************)
(* Specifiers.filterKeep                                                   *)
(***************************************************************************)

InForce(ss) == IF call = "Auto" THEN SetPolicy(ss) ELSE call

StartSet ==
  /\ pc = "start"
  /\ subject.kind = "set"
  /\ pc' = "match"
  /\ UNCHANGED <<subject, call, items, n, matched, keep, held, found>>

(* matchAll, or filterEmpty if the set constrains nothing: Exclude drops   *)
(* the pre-releases, and the other policies decide nothing yet.            *)
MatchItem ==
  /\ pc = "match" /\ n <= Len(items)
  /\ matched' = IF SetAdmits(subject.set, items[n])
                     /\ ~(IsPre(items[n]) /\ InForce(subject.set) = "Exclude")
                  THEN matched \cup {n} ELSE matched
  /\ n' = n + 1
  /\ UNCHANGED <<subject, call, items, pc, keep, held, found>>

EndMatch ==
  /\ pc = "match" /\ n > Len(items)
  /\ IF InForce(subject.set) = "Auto"
       THEN pc' = "prefer" /\ n' = First /\ keep' = keep
       ELSE pc' = "done" /\ n' = n /\ keep' = matched
  /\ UNCHANGED <<subject, call, items, matched, held, found>>

\* Mutant: a string that is no version counts as a final release.
FinalOrOpaque(x) == ~IsPre(x)

Final(x) == IsVersion(x) /\ ~IsPre(x)

(* applyPEP440Preference.                                                  *)
PreferItem ==
  /\ pc = "prefer" /\ n <= Len(items)
  /\ keep'  = IF n \in matched /\ ~IsPre(items[n]) THEN keep \cup {n} ELSE keep
  /\ found' = (found \/ (n \in matched /\ Final(items[n])))
  /\ held'  = IF n \in matched /\ IsPre(items[n]) THEN held \cup {n} ELSE held
  /\ n' = n + 1
  /\ UNCHANGED <<subject, call, items, pc, matched>>

EndPrefer ==
  /\ pc = "prefer" /\ n > Len(items)
  /\ keep' = IF found THEN keep ELSE keep \cup held
  /\ pc' = "done"
  /\ UNCHANGED <<subject, call, items, n, matched, held, found>>

Next ==
  \/ AskInstalled
  \/ StartMember \/ OfferItem \/ HoldItem \/ PassItem \/ EndMember
  \/ StartSet \/ MatchItem \/ EndMatch \/ PreferItem \/ EndPrefer

Spec == Init /\ [][Next]_vars

(***************************************************************************)
(* Properties                                                              *)
(***************************************************************************)

(* Every variable keeps its type, and positions are positions of the       *)
(* candidates (the index loops of both filterKeep methods).                *)
TypeOK ==
  /\ subject \in Subject
  /\ call \in Policy
  /\ items \in Seq(Item)
  /\ pc \in {"start", "member", "match", "prefer", "done"}
  /\ subject.kind = "member" => pc \in {"start", "member", "done"}
  /\ subject.kind = "set" => pc # "member"
  /\ n \in 1 .. Len(items) + 1
  /\ matched \subseteq 1 .. Len(items)
  /\ keep \subseteq 1 .. Len(items)
  /\ held \subseteq 1 .. Len(items)
  /\ found \in BOOLEAN

(* What a policy does to matching pre-releases: offer them, never offer    *)
(* them, or offer them only where no final release matches.                *)
MemberMode(m) ==
  IF IncludePre(m) THEN "Include"
  ELSE IF call = "Auto" /\ OwnPolicy(m) # "Exclude" THEN "Prefer" ELSE "Exclude"

SetMode(ss) ==
  CASE InForce(ss) = "Auto" -> "Prefer" [] OTHER -> InForce(ss)

Chosen(Match(_), mode) ==
  LET final == \E p \in 1 .. Len(items) : Match(items[p]) /\ IsVersion(items[p]) /\ ~IsPre(items[p])
  IN  {p \in 1 .. Len(items) :
         /\ Match(items[p])
         /\ \/ ~IsPre(items[p])
            \/ mode = "Include"
            \/ mode = "Prefer" /\ ~final}

MemberPromise(m) == LET Match(x) == Admits(m, x) IN Chosen(Match, MemberMode(m))
SetPromise(ss)   == LET Match(x) == SetAdmits(ss, x) IN Chosen(Match, SetMode(ss))

(* The offer is what PEP 440 prescribes of the candidates that match the   *)
(* whole set: every final release, every string that is no version, and    *)
(* pre-releases as the policy says, decided over all candidates and not    *)
(* one by one (both filterKeep methods).                                   *)
OfferKeepsPromise ==
  pc = "done" =>
    keep = IF subject.kind = "member" THEN MemberPromise(subject.member)
           ELSE SetPromise(subject.set)

(* A set of one member offers what the member itself does, unless the      *)
(* member carries an explicit Exclude, which a set does not take over: two *)
(* code paths, one answer, the fall back to pre-releases included (the     *)
(* examples in the doc comment of Specifier.Filter show it for one         *)
(* specifier; that of Specifiers.PreReleases says only sets fall back).    *)
SetAgreesWithMember ==
  pc = "done" /\ subject.kind = "set" =>
    \A m \in Member :
      subject.set = [groups |-> << <<m>> >>, pre |-> "Auto"] /\ OwnPolicy(m) # "Exclude"
        => keep = MemberPromise(m)
=============================================================================

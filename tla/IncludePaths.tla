---------------------------- MODULE IncludePaths ----------------------------
(***************************************************************************)
(* How reqtxt.Flatten turns the target of an include directive into the    *)
(* path it hands to the open callback (reqtxt/flatten.go, resolveInclude). *)
(*                                                                         *)
(* A path is its form (relative, rooted at "/", or a URL with a scheme)    *)
(* and the sequence of its segments.  "" is never a segment: "." stands    *)
(* for itself and the empty sequence is what path.Clean prints as ".".     *)
(***************************************************************************)
EXTENDS Naturals, Sequences, SequencesExt

CONSTANTS
  Name,       \* the segments a path is written with, "." and ".." aside
  Unparsable  \* those of them that make net/url refuse a reference: "%zz"

Segment == Name \cup {".", ".."}
PathOf  == [form : {"rel", "abs", "url"}, segs : Seq(Segment)]

Rel(segs) == [form |-> "rel", segs |-> segs]
Abs(segs) == [form |-> "abs", segs |-> segs]
Url(segs) == [form |-> "url", segs |-> segs]

(* One step of path.Clean: "." goes, ".." removes a name before it, stays  *)
(* at the front of a relative path and is dropped at a root.               *)
CleanStep(form, done, s) ==
  CASE s = "."                                      -> done
    [] s = ".." /\ done # <<>> /\ Last(done) # ".." -> Front(done)
    [] s = ".." /\ done = <<>> /\ form # "rel"      -> done
    [] OTHER                                        -> Append(done, s)

(* path.Clean, and for a URL the dot-segment removal of RFC 3986.          *)
Clean(p) ==
  LET done[n \in 0 .. Len(p.segs)] ==
        IF n = 0 THEN <<>> ELSE CleanStep(p.form, done[n - 1], p.segs[n])
  IN  [p EXCEPT !.segs = done[Len(p.segs)]]

(* path.Dir: what is left of the last separator.                           *)
DirSegs(p) == IF p.segs = <<>> THEN <<>> ELSE Front(p.segs)

Parses(p) == \A i \in DOMAIN p.segs : p.segs[i] \notin Unparsable

(* A URL as path.Dir and path.Join see it: a relative path that starts     *)
(* with the scheme and the host.                                           *)
Mangled(p) == IF p.form = "url" THEN Rel(<<"https:", "host">> \o p.segs) ELSE p

(* A rooted target or one with a scheme goes to open as it is written,     *)
(* clean or not, and so does the root of a walk; any other is resolved     *)
(* against the referring file's directory, or URL, and comes out clean.    *)
(* Where net/url refuses the URL or the target, the URL is taken for a     *)
(* relative path.                                                          *)
ResolveInclude(from, target) ==
  LET base == IF Parses(from) /\ Parses(target) THEN from ELSE Mangled(from) IN
    IF target.form # "rel"
      THEN target
      ELSE Clean([base EXCEPT !.segs = DirSegs(base) \o target.segs])
=============================================================================

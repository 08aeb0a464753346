--------------------------- MODULE MCDistribution ---------------------------
(***************************************************************************)
(* Two directories with a wheel, two source distributions and a signature  *)
(* of one name in both.  What a file may hold covers every way an archive  *)
(* is opened or turned down or breaks off, documents at two depths, twice  *)
(* at one, twice under one name, and such as cannot be accepted.           *)
(***************************************************************************)
EXTENDS Distribution

Name(depth, info, dir) == [depth |-> depth, info |-> info, dir |-> dir]
Member(name, doc)      == [name |-> name, doc |-> doc]
Archive(kind, members) == [kind |-> kind, members |-> members]

Doc(project) == [version |-> "2.1", project |-> project, release |-> "1"]
Old          == [version |-> "1.0", project |-> "old", release |-> "1"]
Unknown      == [version |-> "2.1", project |-> "UNKNOWN", release |-> "1"]
Newer        == [version |-> "3.0", project |-> "new", release |-> "1"]

Metadata(dir, doc) == Member(Name(2, "METADATA", dir), doc)
PkgInfo(depth, dir, doc) == Member(Name(depth, "PKG-INFO", dir), doc)

Vendored == Member(Name(3, "METADATA", "vendor"), Old)
Junk     == Archive("junk", <<>>)

Wheels == {Archive("zip", <<Vendored, Metadata("a", Doc("a"))>>),
           Archive("zip", <<Metadata("a", NoDoc), Vendored, Vendored>>)}
SDists == {Archive("tar.gz", <<PkgInfo(3, "egg", Old), PkgInfo(2, "a", Doc("a")), PkgInfo(2, "a", Old)>>),
           Archive("tar.gz", <<PkgInfo(2, "a", NoDoc), PkgInfo(2, "b", Doc("b"))>>),
           Archive("zip", <<PkgInfo(1, "a", Unknown), PkgInfo(1, "b", Newer)>>),
           Archive("torn tar.gz", <<PkgInfo(2, "a", Doc("c"))>>),
           Archive("empty tar.gz", <<>>), Junk, Gone}

Base(ext)  == [stem |-> "a", ext |-> ext, asc |-> FALSE]
Asc(base)  == [base EXCEPT !.asc = TRUE]

Wheel == <<"d", Base(".whl")>>
SDist == <<"d", Base(".tar.gz")>>
Bz2   == <<"e", Base(".tar.bz2")>>
Egg   == <<"e", Base(".egg")>>
Sig(dir) == <<dir, Asc(Base(".tar.gz"))>>

MCHolds ==
  (Wheel :> Wheels) @@ (SDist :> SDists)
    @@ (Bz2 :> {Archive("bzip2", <<>>)})
    @@ (Egg :> {Archive("zip", <<PkgInfo(1, "a", Doc("z"))>>)})
    @@ (Sig("d") :> {Junk}) @@ (Sig("e") :> {Junk, Gone})

MCListing == (<<"d">> :> <<SDist, Sig("d"), Wheel>>) @@ (<<"e">> :> <<Sig("e")>>)

MCArguments ==
  {<<<<"d">>, <<"e">>>>, <<SDist, <<"d">>>>, <<SDist, Wheel>>, <<Bz2, Sig("e")>>, <<Egg>>, <<<<"e">>>>}
=============================================================================

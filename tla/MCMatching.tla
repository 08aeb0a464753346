----------------------------- MODULE MCMatching -----------------------------
(***************************************************************************)
(* The order of versions and the operators over a sample of versions that  *)
(* straddles every limit of the packed encoding.                           *)
(***************************************************************************)
EXTENDS SpecifierLaws

Release(r)        == [ZeroValue EXCEPT !.release = r]
Suffixed(r, p, q, d) == [Release(r) EXCEPT !.pre = p, !.post = q, !.dev = d]

(* Bound: with every field one bit wide, 2 is the first number that does   *)
(* not fit, and three segments are too many for MaxSegments = 2.           *)
Pres  == {<<>>, <<1, 0>>, <<3, 1>>, <<3, 2>>}
Posts == {<<>>, <<0>>, <<2>>}
Devs  == {<<>>, <<0>>, <<2>>}

FullySuffixed == {Suffixed(<<1>>, p, q, d) : p \in Pres, q \in Posts, d \in Devs}
OtherReleases ==
  {Suffixed(r, p, <<>>, d) : r \in {<<0>>, <<1, 0>>, <<1, 1>>, <<0, 1>>, <<1, 0, 1>>, <<2>>},
                              p \in {<<>>, <<1, 0>>}, d \in {<<>>, <<0>>}}
PostReleases  == {Suffixed(r, <<>>, <<0>>, <<>>) : r \in {<<1, 0>>, <<1, 1>>, <<1, 0, 1>>}}

Numeral == <<1, 0>>
Word    == <<0, 0>>
Locals  ==
  {[Release(<<1>>) EXCEPT !.local = l] :
     l \in {<<Numeral>>, <<Word>>, <<Numeral, Word>>, <<Numeral, Numeral>>}}
  \cup {[Suffixed(<<1>>, <<1, 0>>, <<>>, <<>>) EXCEPT !.local = <<Numeral>>],
        [Suffixed(<<1, 0>>, <<>>, <<0>>, <<>>) EXCEPT !.local = <<Numeral>>]}
Epochs  == {[u EXCEPT !.epoch = 1] : u \in {Release(<<0>>), Release(<<1>>), Release(<<1, 0>>)}}

Sample == FullySuffixed \cup OtherReleases \cup PostReleases \cup Locals \cup Epochs

Operands == {Release(<<1>>), Release(<<1, 0>>), Release(<<1, 1>>), Release(<<2>>),
             Suffixed(<<1>>, <<1, 0>>, <<>>, <<>>), Suffixed(<<1, 0>>, <<3, 1>>, <<>>, <<>>),
             Suffixed(<<1>>, <<>>, <<0>>, <<>>), Suffixed(<<1, 0>>, <<>>, <<>>, <<0>>),
             Suffixed(<<1>>, <<1, 0>>, <<0>>, <<>>), [Release(<<1>>) EXCEPT !.epoch = 1],
             Release(<<1, 0, 0>>), Release(<<1, 0, 1>>)}

OfOperators == {Plain(op, u) : op \in Op, u \in Operands \cup {[Release(<<1>>) EXCEPT !.local = <<Numeral>>]}}
                 \cup {Wild(op, u) : op \in EqualOps \cup {"!="}, u \in Operands}

\* Operands of "~=" that are not spelled the plain way.
Respelled ==
  {[Plain("~=", u) EXCEPT !.spelling = "alias"] : u \in {w \in Operands : ~Absent(w.pre)}}
  \cup {[Plain("~=", u) EXCEPT !.spelling = "v"] : u \in {w \in Operands : w.epoch = 0}}

Written == {s \in OfOperators \cup Respelled : Valid(s)}
=============================================================================

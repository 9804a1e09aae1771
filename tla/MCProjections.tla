---------------------------- MODULE MCProjections ----------------------------
(* Projections on a small instance: a tracker below a domain that is none,  *)
(* a domain that the second release maps to a country and takes off the     *)
(* blocklist, two hours that are two weeks.                                 *)
EXTENDS Projections, TLC

CONSTANTS a, b

MCClients == {a, b}
MCSymmetry == Permutations(MCClients)

MCLabelsOf == << <<"ads", "tv", "com">>, <<"img", "cdn", "net">> >>
MCEntity(suffix, name, country, tracking) ==
    [suffix |-> suffix, name |-> name, country |-> country, tracking |-> tracking]
MCEntities ==
    << {MCEntity(<<"tv", "com">>, "TV", "KR", FALSE),
        MCEntity(<<"ads", "tv", "com">>, "TV Ads", "US", TRUE)},
       {MCEntity(<<"tv", "com">>, "TV", "KR", TRUE),
        MCEntity(<<"cdn", "net">>, "CDN", "DE", FALSE)} >>
MCBlocklist == << { <<"cdn", "net">>, <<"com">> }, { <<"tv", "com">> } >>

\* log10(n + 1) / log10(5001)
MCChattiness == [n \in 0 .. 8 |->
    <<0, 814, 1290, 1628, 1890, 2104, 2285, 2442, 2580>>[n + 1]]
=============================================================================

------------------------------ MODULE MCRealFS ------------------------------
(***************************************************************************)
(* A TLC instance of RealFS: two names, two levels, and a link.            *)
(***************************************************************************)
EXTENDS RealFS

MCPaths == {<<>>, <<"a">>, <<"b">>, <<"a", "b">>}

FileOf(d) == [NewFile EXCEPT !.data = d]

\* One content is empty, one fits into a stream's buffer, one does not.
MCContents == {<<>>, <<1>>, <<1, 1>>}
MCBuffered == {<<>>, <<1>>}

MCSizes == {-1, 2}
MCModes == {RWX, {"read", "exec"}}
MCTimes == {1}

\* The host writes a longer file and makes links.
MCHostNodes == {FileOf(<<1, 1>>), Link(<<"b">>), Link(<<"a", "a">>)}

Disk(nodes) == [p \in DOMAIN nodes \union {<<>>} |-> IF p = <<>> THEN NewDir ELSE nodes[p]]

MCInitialDisks ==
  {Disk(<<>>),
   Disk((<<"a">> :> NewDir) @@ (<<"a", "b">> :> FileOf(<<1>>)) @@ (<<"b">> :> NewDir)),
   Disk((<<"a">> :> Link(<<"b">>)) @@ (<<"b">> :> NewDir)),
   Disk((<<"a">> :> Link(<<"b">>)) @@ (<<"b">> :> [FileOf(<<1>>) EXCEPT !.mode = {"read"}])),
   Disk(<<"b">> :> [FileOf(<<1>>) EXCEPT !.mode = {"write"}])}

\* What a call answered is read by no later one.
MCView == <<disk, call>>
==============================================================================

----------------------------- MODULE MCVirtualFS -----------------------------
(***************************************************************************)
(* TLC instances of VirtualFS: two backends, one of them with a file in    *)
(* it, and the mounts and paths that make them meet.                       *)
(***************************************************************************)
EXTENDS VirtualFS, Integers

Entry(prefix, perm, backend, sub) ==
  [prefix |-> prefix, canonical |-> TRUE, perm |-> perm, backend |-> backend,
   backendPath |-> Text(sub)]

RW == {"read", "write"}

\* The string "/a/", and the string "a".
MCTrailing == [names |-> <<"a">>, slashes |-> <<1, 1>>]
MCRelative == [names |-> <<"a">>, slashes |-> <<0, 0>>]

\* A writable mount of one backend twice, once on its own directory, and a
\* third time there by the string "a"; a read-only backend inside the first,
\* and again, with other permissions, as the root; a prefix with a trailing
\* slash.
MCMountEntries ==
  {Entry(<<"a">>, RW, "m1", <<>>), Entry(<<"b">>, RW, "m1", <<"a">>),
   [Entry(<<"a", "a">>, RW, "m1", <<>>) EXCEPT !.backendPath = MCRelative],
   Entry(<<"a", "b">>, {"read"}, "m2", <<>>), Entry(<<>>, RW, "m2", <<>>),
   [Entry(<<"b">>, {"read"}, "m2", <<>>) EXCEPT !.canonical = FALSE]}

\* One backend twice, the second time at "/a/".
MCTrailingEntries ==
  {Entry(<<"a">>, RW, "m1", <<>>),
   [Entry(<<"b">>, RW, "m1", <<>>) EXCEPT !.backendPath = MCTrailing]}

MCBackends == {"m1", "m2"}

MCInitialFS ==
  [b \in {"m1", "m2"} |->
     IF b = "m1" THEN EmptyFS ELSE WriteFile(EmptyFS, <<"a">>, <<1>>).fs]

MCPaths ==
  {<<"a">>, <<"a", "..", "b">>, <<"a", "b">>, <<"b", "b">>, <<"a", "a", "b">>,
   <<"a", "b", "a">>}

\* Three nodes beside the root of m1, none beside the one file of m2.
MCMaxIno == [b \in MCBackends |-> IF b = "m1" THEN 5 ELSE 3]

MCBytes == {<<1>>}
MCSizes == {-1, 2}
MCModes == {{"read", "write", "exec"}, {"read"}}
MCTimes == {1}
MCMaxNodes == [b \in MCBackends |-> IF b = "m1" THEN 4 ELSE 2]

MCLetters == {"a", "b"}

\* Strings as the router passes them on, and none.
MCHostPaths == {<<"a">>, <<"a", "b">>}
MCHostTexts == {Text(p) : p \in MCHostPaths}
MCNoTexts == {}

\* What a call answered is read by no later one.
MCView == <<mounts, fs>>
==============================================================================

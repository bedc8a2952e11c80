---------------------------- MODULE MCParseLoop ----------------------------
(* Instances of ParseLoop for TLC. *)
EXTENDS ParseLoop

\* Two chains that share their first block; the stored chain may be rolled
\* back past a window of two.
ForkedChains == {<<"a", "a", "a", "a">>, <<"a", "b", "b", "b", "b">>}

\* The same shape for a window of one.
ShortForks == {<<"a", "a", "a">>, <<"a", "b", "b", "b">>}

\* Two chains of one length, for the instances with more actors.
EvenForks == {<<"a", "a", "a">>, <<"a", "b", "b">>}

\* Forks at the first and at the second block: a walk may empty the table.
RootForks == {<<"a", "a">>, <<"b", "b">>, <<"a", "b">>}

\* A fork deeper than two windows of one block, above two common blocks.
DeepForks == {<<"a", "a", "a", "a", "a">>, <<"a", "a", "b", "b", "b">>}

\* State constraint: the run ends where a late answer has taken a live halt back, which
\* CondemnedNotExtended exempts.
NotOvertaken == ~overtaken
=============================================================================

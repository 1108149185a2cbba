------------------------------ MODULE MCVolume ------------------------------
(***************************************************************************)
(* Volume for TLC.  The names are "a" and "ab", one the beginning of the   *)
(* other, and "..a", which looks like "..".                                *)
(***************************************************************************)
EXTENDS Volume

Entry(kind, long, name, size, start) ==
  [kind |-> kind, long |-> long, name |-> name, size |-> size, start |-> start]

\* A root with every kind of entry, and files of one and of three clusters.
Root == << Entry("used", FALSE, "f", 1, 2), Entry("used", TRUE, "g", 0, 0),
           Entry("deleted", FALSE, "d", 1, 3), Entry("free", FALSE, "g", 0, 0),
           Entry("used", FALSE, "g", 5, 5) >>

\* The chains of g: in order, scattered, broken and cyclic.
Table(c3, c4, c5) == 2 :> ChainEnd @@ 3 :> c3 @@ 4 :> c4 @@ 5 :> c5

MCImages == {[root |-> Root, fat |-> t] :
               t \in {Table(ChainEnd, 3, 4), Table(4, ChainEnd, 3),
                      Table(0, 3, 4), Table(4, 5, 3)}}

\* The images are in order.
ASSUME ImagesInOrder == \A im \in MCImages : WellFormed(im)

MCCharacters == {"/", ".", "a", "b", " "}

MCSteps == {<<".">>, <<"/">>, <<".", "/">>, <<".", ".">>, <<"a">>,
            <<"a", "b">>, <<".", ".", "/", "a">>, <<".", ".", "a">>,
            <<"a", "/", ".", ".", "/", "a", "b", "/">>,
            <<"/", "a">>, <<"/", "a", "b">>, <<"/", "a", "/", "a", "b">>}

\* No action reads two of the parts - the open directories, the working
\* directory and the buffer of the application - so it is enough to see each
\* move while the others are as they were at the start.
OnePartMoves ==
  \/ curPath = <<Slash>> /\ path = <<Slash>>
  \/ /\ dirs = <<>> /\ reader = NULL /\ fread = NULL
     /\ curPath = <<Slash>> \/ path = <<Slash>>

MCFileNames == {<<"a">>, <<" ", "a", " ">>, <<"/", "a">>, <<"a", "/", "a">>}

\* The arguments are plain, and the files are below.
ASSUME ArgumentsPlain == PlainSteps
ASSUME NamesBelow == FilesBelow
=============================================================================

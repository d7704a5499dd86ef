----------------------------- MODULE MCPublish -----------------------------
(* Two calls: a release and the next, which lists a manifest the first does  *)
(* too, the same image under another version, or one of them tried again; a  *)
(* public repository and a mirror, one of which may be given twice.          *)
EXTENDS Publish

CONSTANTS c1, c2, public, mirror, narrow1, narrow2, wide, d1, d2, shared, none
MCReleases == {[image |-> d1, platforms |-> {shared}, tags |-> <<narrow1, wide>>],
               [image |-> d2, platforms |-> {shared}, tags |-> <<narrow2, wide>>],
               [image |-> d1, platforms |-> {shared}, tags |-> <<narrow2>>]}
MCRepositoryLists == {<<>>, <<public>>, <<public, mirror>>, <<public, public>>}
=============================================================================

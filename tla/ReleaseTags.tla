---------------------------- MODULE ReleaseTags ----------------------------
(***************************************************************************)
(* What publishing promises to those who pull: a release becomes whole in  *)
(* a repository (its manifests, its documents and its signatures are all   *)
(* there) before any tag of its family names it, and stays whole.  Which   *)
(* of its tags move, and in which order releases move them, is left open.  *)
(***************************************************************************)
EXTENDS Sequences

CONSTANTS
    Repos,          \* the repositories of a registry
    Tags,           \* their tags
    NoDigest,       \* what a tag that was never written names
    Releases        \* [image, platforms, tags]: what is published under which family of tags

VARIABLES
    whole,          \* [Repos -> the releases all of which is there]
    tags            \* [Repos -> [Tags -> the digest a tag names]]

Init ==
    /\ whole = [repo \in Repos |-> {}]
    /\ tags = [repo \in Repos |-> [tag \in Tags |-> NoDigest]]

Complete(repo, more) ==
    /\ whole' = [whole EXCEPT ![repo] = @ \cup more]
    /\ UNCHANGED tags

Name(repo, release, i) ==
    /\ release \in whole[repo]
    /\ tags' = [tags EXCEPT ![repo] = [@ EXCEPT ![release.tags[i]] = release.image]]
    /\ UNCHANGED whole

Next ==
    \E repo \in Repos :
        \/ \E more \in SUBSET Releases : Complete(repo, more)
        \/ \E release \in Releases : \E i \in DOMAIN release.tags : Name(repo, release, i)

Spec == Init /\ [][Next]_<<whole, tags>>
=============================================================================

------------------------------ MODULE Publish ------------------------------
(***************************************************************************)
(* App.Publish of daggerverse/z5labs: for one repository after another,    *)
(* push the image under its digest, attach its documents, sign it and the  *)
(* manifests it lists, and only then write its tags, narrowest first.      *)
(*                                                                         *)
(* Nothing spans two requests.  Any of them may fail, after the registry   *)
(* did what it was asked for as well as before; the call then ends with an *)
(* error that names what it has published.  Several calls run side by      *)
(* side: other releases, and the same one tried again.  A registry keeps   *)
(* what it was given: collecting what no tag names is its operator's       *)
(* sweep, which a publish does not design around.                          *)
(***************************************************************************)
EXTENDS Integers, Sequences, FiniteSets

CONSTANTS
    Calls,          \* calls of Publish
    Repos,          \* the repositories of a registry
    Tags,           \* their tags
    Digests,        \* digests of manifests
    NoDigest,       \* what a tag that was never written names
    Documents,      \* how many documents are attached, the provenance last
    Releases,       \* what there is to publish: image, the manifests it lists, its family of tags
    RepositoryLists \* the lists of repositories a call may be given

ASSUME PublishAssumption ==
    /\ NoDigest \notin Digests
    /\ Documents \in Nat \ {0}
    /\ Releases \subseteq [image : Digests, platforms : SUBSET Digests, tags : Seq(Tags) \ {<<>>}]
    /\ \A r \in Releases : \A i, j \in DOMAIN r.tags : r.tags[i] = r.tags[j] => i = j
    /\ \A r, s \in Releases : r.image = s.image => r.platforms = s.platforms
    /\ RepositoryLists \subseteq Seq(Repos)

VARIABLES
    manifests,      \* [Repos -> the manifests stored]
    referrers,      \* [Repos -> the documents attached: of which release, and which one]
    signed,         \* [Repos -> the digests that have a signature]
    tags,           \* [Repos -> [Tags -> the digest a tag names]]
    call,           \* [Calls -> the state of a call]
    named           \* history: [Calls -> the tags it has moved, and where]

registry == <<manifests, referrers, signed, tags>>
vars == <<manifests, referrers, signed, tags, call, named>>

\* What a call is given, and where it starts: at the first repository.
Called == [pc : {"checks"}, release : Releases, repositories : RepositoryLists,
           at : {1}, next : {1}, done : {{}}, refs : {<<>>}, answer : {<<>>}]

Init ==
    /\ manifests = [repo \in Repos |-> {}]
    /\ referrers = [repo \in Repos |-> {}]
    /\ signed = [repo \in Repos |-> {}]
    /\ tags = [repo \in Repos |-> [tag \in Tags |-> NoDigest]]
    /\ call \in [Calls -> Called]
    /\ named = [c \in Calls |-> {}]

At(c, line) == call[c].pc = line
Release(c) == call[c].release
Repo(c) == call[c].repositories[call[c].at]
Tag(c) == Release(c).tags[call[c].next]
Ref(c) == [repo |-> Repo(c), tag |-> Tag(c), digest |-> Release(c).image]

\* What is stored of a release: its image and what that lists.
Contents(release) == {release.image} \cup release.platforms

Goto(c, line) == call' = [call EXCEPT ![c] = [call[c] EXCEPT !.pc = line, !.next = 1, !.done = {}]]

\* Slip: the error says nothing of what was published.
FailSilently(c) == call' = [call EXCEPT ![c] = [call[c] EXCEPT !.pc = "failed"]]

\* alreadyPublished: the error names the references written so far.
Fail(c) == call' = [call EXCEPT ![c] = [call[c] EXCEPT !.pc = "failed", !.answer = call[c].refs]]

\* A call may be refused before anything is pushed, and is without a repository.
Refuse(c) == At(c, "checks") /\ Fail(c) /\ UNCHANGED <<registry, named>>
Check(c) ==
    /\ At(c, "checks") /\ call[c].repositories # <<>>
    /\ Goto(c, "push")
    /\ UNCHANGED <<registry, named>>

\* PushImageUntagged: the manifests that are listed first, the image last.
Store(c, digests) ==
    /\ manifests' = [manifests EXCEPT ![Repo(c)] = @ \cup digests]
    /\ UNCHANGED <<referrers, signed, tags, named>>
Push(c) == At(c, "push") /\ Store(c, Contents(Release(c))) /\ Goto(c, "attach")
PushFails(c) ==
    /\ At(c, "push") /\ Fail(c)
    /\ \E landed \in (SUBSET Release(c).platforms) \cup {Contents(Release(c))} : Store(c, landed)

\* attachAttestations: one document after another.
AttachNext(c) ==
    /\ referrers' = [referrers EXCEPT
            ![Repo(c)] = @ \cup {[release |-> Release(c), document |-> call[c].next]}]
    /\ UNCHANGED <<manifests, signed, tags, named>>

\* Slip: provenance, which comes last, is left to the next release.
AttachMost(c) ==
    /\ At(c, "attach") /\ Release(c).image \in manifests[Repo(c)]
    /\ AttachNext(c)
    /\ IF call[c].next + 1 >= Documents
       THEN Goto(c, "sign")
       ELSE call' = [call EXCEPT ![c] = [call[c] EXCEPT !.next = @ + 1]]

Attach(c) ==
    /\ At(c, "attach") /\ Release(c).image \in manifests[Repo(c)]
    /\ AttachNext(c)
    /\ IF call[c].next = Documents
       THEN Goto(c, "sign")
       ELSE call' = [call EXCEPT ![c] = [call[c] EXCEPT !.next = @ + 1]]
AttachFails(c) ==
    /\ At(c, "attach") /\ Fail(c)
    /\ AttachNext(c) \/ UNCHANGED <<registry, named>>

\* signableDigests, signImage: the image, then every manifest it lists, once.
Signable(release) == Contents(release)
SignNext(c, digest) ==
    /\ digest \in Signable(Release(c)) \ call[c].done
    /\ call[c].done = {} => digest = Release(c).image
    /\ signed' = [signed EXCEPT ![Repo(c)] = @ \cup {digest}]
    /\ UNCHANGED <<manifests, referrers, tags, named>>
Sign(c) ==
    /\ At(c, "sign")
    /\ \E digest \in Signable(Release(c)) :
        /\ SignNext(c, digest)
        /\ IF call[c].done \cup {digest} = Signable(Release(c))
           THEN Goto(c, "tag")
           ELSE call' = [call EXCEPT ![c] = [call[c] EXCEPT !.done = @ \cup {digest}]]
SignFails(c) ==
    /\ At(c, "sign") /\ Fail(c)
    /\ \/ \E digest \in Signable(Release(c)) : SignNext(c, digest)
       \/ UNCHANGED <<registry, named>>

\* Slip: the tags are written widest first.
MoveWidest(c) ==
    LET family == Release(c).tags
        tag == family[Len(family) + 1 - call[c].next] IN
    /\ tags' = [tags EXCEPT ![Repo(c)] = [@ EXCEPT ![tag] = Release(c).image]]
    /\ named' = [named EXCEPT ![c] = @ \cup {[repo |-> Repo(c), tag |-> tag]}]
    /\ UNCHANGED <<manifests, referrers, signed>>

\* Registry.Tag moves a tag as readily as it makes one.
MoveTag(c) ==
    /\ tags' = [tags EXCEPT ![Repo(c)] = [@ EXCEPT ![Tag(c)] = Release(c).image]]
    /\ named' = [named EXCEPT ![c] = @ \cup {[repo |-> Repo(c), tag |-> Tag(c)]}]
    /\ UNCHANGED <<manifests, referrers, signed>>

\* Slip: the loop over the tags runs one too far.
AdvanceTooFar(c) ==
    LET k == call[c]
        refs == Append(k.refs, Ref(c)) IN
    call' = [call EXCEPT ![c] =
        IF k.next <= Len(k.release.tags) THEN [k EXCEPT !.refs = refs, !.next = k.next + 1]
        ELSE IF k.at < Len(k.repositories)
        THEN [k EXCEPT !.refs = refs, !.next = 1, !.at = k.at + 1, !.pc = "push"]
        ELSE [k EXCEPT !.refs = refs, !.answer = refs, !.pc = "published"]]

\* Slip: one reference for a repository, its widest tag.
AdvanceByRepository(c) ==
    LET k == call[c]
        refs == Append(k.refs, Ref(c)) IN
    call' = [call EXCEPT ![c] =
        IF k.next < Len(k.release.tags) THEN [k EXCEPT !.next = k.next + 1]
        ELSE IF k.at < Len(k.repositories)
        THEN [k EXCEPT !.refs = refs, !.next = 1, !.at = k.at + 1, !.pc = "push"]
        ELSE [k EXCEPT !.refs = refs, !.answer = refs, !.pc = "published"]]

\* The next tag, then the next repository, then the answer.
Advance(c) ==
    LET k == call[c]
        refs == Append(k.refs, Ref(c)) IN
    call' = [call EXCEPT ![c] =
        IF k.next < Len(k.release.tags) THEN [k EXCEPT !.refs = refs, !.next = k.next + 1]
        ELSE IF k.at < Len(k.repositories)
        THEN [k EXCEPT !.refs = refs, !.next = 1, !.at = k.at + 1, !.pc = "push"]
        ELSE [k EXCEPT !.refs = refs, !.answer = refs, !.pc = "published"]]

WriteTag(c) ==
    /\ At(c, "tag") /\ Release(c).image \in manifests[Repo(c)]
    /\ MoveTag(c) /\ Advance(c)
TagFails(c) ==
    /\ At(c, "tag") /\ Fail(c)
    /\ MoveTag(c) \/ UNCHANGED <<registry, named>>

CallStep(c) ==
    \/ Refuse(c) \/ Check(c) \/ Push(c) \/ PushFails(c) \/ Attach(c) \/ AttachFails(c)
    \/ Sign(c) \/ SignFails(c) \/ WriteTag(c) \/ TagFails(c)

Next == \E c \in Calls : CallStep(c)

Spec == Init /\ [][Next]_vars
----------------------------------------------------------------------------
(* Properties. *)

\* Calls are at a line of Publish, in range of what they were given.
Lines == {"checks", "push", "attach", "sign", "tag", "published", "failed"}
Refs == [repo : Repos, tag : Tags, digest : Digests]
CallOK(k) ==
    /\ k.next \in Nat \ {0} /\ k.at \in Nat \ {0}
    /\ k.pc = "attach" => k.next <= Documents
    /\ k.pc = "tag" => k.next <= Len(k.release.tags)
    /\ k.pc \in {"push", "attach", "sign", "tag"} => k.at <= Len(k.repositories)
TypeOK ==
    /\ manifests \in [Repos -> SUBSET Digests]
    /\ referrers \in [Repos -> SUBSET [release : Releases, document : 1 .. Documents]]
    /\ signed \in [Repos -> SUBSET Digests]
    /\ tags \in [Repos -> [Tags -> Digests \cup {NoDigest}]]
    /\ call \in [Calls -> [pc : Lines, release : Releases, repositories : RepositoryLists,
                           at : Nat, next : Nat, done : SUBSET Digests,
                           refs : Seq(Refs), answer : Seq(Refs)]]
    /\ \A c \in Calls : CallOK(call[c])
    /\ named \in [Calls -> SUBSET [repo : Repos, tag : Tags]]

\* What a consumer verifies of a release in a repository is all there.
IsWhole(repo, release) ==
    /\ Contents(release) \subseteq manifests[repo] \cap signed[repo]
    /\ {[release |-> release, document |-> i] : i \in 1 .. Documents} \subseteq referrers[repo]

\* Publish implements ReleaseTags: "no tag resolves to" an image until every
\* document of a release of that name and every signature is there, whichever
\* calls run, fail half way and are made again.
Abstract == INSTANCE ReleaseTags WITH whole <- [repo \in Repos |-> {r \in Releases : IsWhole(repo, r)}]
TagsNameWholeReleases == Abstract!Spec

\* "They are written narrowest first": what a call has moved in a repository is
\* the narrow end of its family, so that one that fails half way leaves the tags
\* that more consumers follow where they were.
NarrowBeforeWide ==
    \A c \in Calls : LET family == Release(c).tags IN
        \A repo \in Repos : \A i \in DOMAIN family : \A j \in 1 .. i :
            [repo |-> repo, tag |-> family[i]] \in named[c] => [repo |-> repo, tag |-> family[j]] \in named[c]

\* A publish that succeeds answers with every tag it moved, repository by
\* repository and each pinned: the narrow one of the i-th repository is at a
\* place its caller can compute, and what is pinned is whole there.
AnswerIsPinned ==
    \A c \in Calls : LET k == call[c]  family == k.release.tags IN
        At(c, "published") =>
            /\ Len(k.answer) = Len(k.repositories) * Len(family)
            /\ \A i \in DOMAIN k.repositories : \A j \in DOMAIN family :
                k.answer[(i - 1) * Len(family) + j] =
                    [repo |-> k.repositories[i], tag |-> family[j], digest |-> k.release.image]
            /\ \A i \in DOMAIN k.repositories : IsWhole(k.repositories[i], k.release)

\* "The failure has to say what already shipped": an error names all the tags its
\* call has moved, but for the one whose request was not answered.
Told(c) == {[repo |-> r.repo, tag |-> r.tag] : r \in {call[c].answer[i] : i \in DOMAIN call[c].answer}}
ErrorTellsWhatShipped ==
    \A c \in Calls : At(c, "failed") =>
        /\ Told(c) \subseteq named[c]
        /\ \A one, other \in named[c] \ Told(c) : one = other
=============================================================================

--------------------------- MODULE PublishProofs ---------------------------
(***************************************************************************)
(* That Publish keeps its promises for any number of calls, any registry,  *)
(* any releases and any lists of repositories, whichever requests fail.    *)
(*                                                                         *)
(* A registry only grows, so what a call has stored stays stored while     *)
(* others run.  The invariant says how far a call has come: what is there  *)
(* of the repository it is at (Stored), that the repositories before are   *)
(* whole (Left), and that its references are the tags it has moved, each   *)
(* where its place is computed to be (Pinned).                             *)
(***************************************************************************)
EXTENDS Publish, TLAPS

Open(c) == call[c].pc \in {"checks", "push", "attach", "sign", "tag"}
HasDocuments(repo, release, n) == \A i \in 1 .. n : [release |-> release, document |-> i] \in referrers[repo]

\* What is there of the repository a call is at.
Stored(c) ==
    LET k == call[c] IN
    /\ k.pc = "checks" => k.at = 1
    /\ k.pc \in {"attach", "sign", "tag"} => Contents(k.release) \subseteq manifests[Repo(c)]
    /\ k.pc = "attach" => HasDocuments(Repo(c), k.release, k.next - 1)
    /\ k.pc \in {"sign", "tag"} => HasDocuments(Repo(c), k.release, Documents)
    /\ k.pc = "sign" => k.done \subseteq signed[Repo(c)]
    /\ k.pc = "tag" => Contents(k.release) \subseteq signed[Repo(c)]

\* Those before are whole.
Left(c) == Open(c) => \A i \in 1 .. call[c].at - 1 : IsWhole(call[c].repositories[i], call[c].release)

\* The tag j of the repository i, and its place among the references.
RefAt(k, i, j) == [repo |-> k.repositories[i], tag |-> k.release.tags[j], digest |-> k.release.image]
Place(k, i, j) == (i - 1) * Len(k.release.tags) + j
Before(i, j, at, next) == i < at \/ (i = at /\ j < next)

\* The references of a call that is at tag next of repository at.
Pinned(k, refs, at, next) ==
    /\ Len(refs) = Place(k, at, next) - 1
    /\ \A i \in DOMAIN k.repositories, j \in DOMAIN k.release.tags :
           Before(i, j, at, next) => refs[Place(k, i, j)] = RefAt(k, i, j)

TagsOf(refs) == {[repo |-> refs[i].repo, tag |-> refs[i].tag] : i \in DOMAIN refs}

Written(c) ==
    LET k == call[c] IN
    Open(c) => /\ Pinned(k, k.refs, k.at, IF k.pc = "tag" THEN k.next ELSE 1)
               /\ named[c] = TagsOf(k.refs)

\* The parts of the properties that are about one call.
Narrow(c) ==
    LET family == Release(c).tags IN
    \A repo \in Repos : \A i \in DOMAIN family : \A j \in 1 .. i :
        [repo |-> repo, tag |-> family[i]] \in named[c] => [repo |-> repo, tag |-> family[j]] \in named[c]
Answered(c) ==
    LET k == call[c]  family == k.release.tags IN
    At(c, "published") =>
        /\ Len(k.answer) = Len(k.repositories) * Len(family)
        /\ \A i \in DOMAIN k.repositories : \A j \in DOMAIN family :
            k.answer[(i - 1) * Len(family) + j] =
                [repo |-> k.repositories[i], tag |-> family[j], digest |-> k.release.image]
        /\ \A i \in DOMAIN k.repositories : IsWhole(k.repositories[i], k.release)
Tells(c) == At(c, "failed") => /\ Told(c) \subseteq named[c]
                               /\ \A one, other \in named[c] \ Told(c) : one = other

CallInv(c) == Stored(c) /\ Left(c) /\ Written(c) /\ Narrow(c) /\ Answered(c) /\ Tells(c)

Inv == TypeOK /\ \A c \in Calls : CallInv(c)

----------------------------------------------------------------------------
(* Types. *)

CallRecord == [pc : Lines, release : Releases, repositories : RepositoryLists,
               at : Nat, next : Nat, done : SUBSET Digests, refs : Seq(Refs), answer : Seq(Refs)]
RegistryOK ==
    /\ manifests \in [Repos -> SUBSET Digests]
    /\ referrers \in [Repos -> SUBSET [release : Releases, document : 1 .. Documents]]
    /\ signed \in [Repos -> SUBSET Digests]
    /\ tags \in [Repos -> [Tags -> Digests \cup {NoDigest}]]

LEMMA ReleaseTyped ==
    ASSUME NEW r \in Releases
    PROVE  /\ r.image \in Digests /\ r.platforms \in SUBSET Digests /\ Contents(r) \in SUBSET Digests
           /\ r.tags \in Seq(Tags) /\ Len(r.tags) \in Nat /\ Len(r.tags) >= 1
           /\ \A i, j \in DOMAIN r.tags : r.tags[i] = r.tags[j] => i = j
<1>1. /\ r \in [image : Digests, platforms : SUBSET Digests, tags : Seq(Tags) \ {<<>>}]
      /\ \A i, j \in DOMAIN r.tags : r.tags[i] = r.tags[j] => i = j
    BY PublishAssumption
<1>2. r.tags \in Seq(Tags) /\ r.tags # <<>>
    BY <1>1
<1>3. Len(r.tags) \in Nat /\ Len(r.tags) >= 1
    BY <1>2
<1> QED
    BY <1>1, <1>2, <1>3 DEF Contents

\* A call that is at a repository is at one of the registry's, and a call that
\* tags is at a tag of its family.
LEMMA CallTyped ==
    ASSUME TypeOK, NEW c \in Calls
    PROVE  /\ call[c] \in CallRecord /\ CallOK(call[c]) /\ named[c] \in SUBSET [repo : Repos, tag : Tags]
           /\ call[c].release \in Releases /\ call[c].repositories \in Seq(Repos)
           /\ \A i \in DOMAIN call[c].repositories : call[c].repositories[i] \in Repos
           /\ call[c].pc \in {"push", "attach", "sign", "tag"} =>
                  call[c].at \in DOMAIN call[c].repositories /\ Repo(c) \in Repos
           /\ call[c].pc = "tag" =>
                  call[c].next \in DOMAIN call[c].release.tags /\ Tag(c) \in Tags
<1>1. call[c] \in CallRecord /\ CallOK(call[c]) /\ named[c] \in SUBSET [repo : Repos, tag : Tags]
    BY DEF TypeOK, CallRecord
<1>2. call[c].release \in Releases /\ call[c].repositories \in Seq(Repos)
    BY <1>1, PublishAssumption DEF CallRecord
<1>3. \A i \in DOMAIN call[c].repositories : call[c].repositories[i] \in Repos
    BY <1>2
<1>4. call[c].pc \in {"push", "attach", "sign", "tag"} => call[c].at \in DOMAIN call[c].repositories
    BY <1>1, <1>2 DEF CallRecord, CallOK
<1>5. call[c].pc = "tag" => call[c].next \in DOMAIN call[c].release.tags
    BY <1>1, <1>2, ReleaseTyped DEF CallRecord, CallOK
<1>6. call[c].pc = "tag" => Tag(c) \in Tags
    BY <1>2, <1>5, ReleaseTyped DEF Tag, Release
<1> QED
    BY <1>1, <1>2, <1>3, <1>4, <1>5, <1>6 DEF Repo

LEMMA InitInv == Init => Inv
<1> SUFFICES ASSUME Init PROVE Inv
    OBVIOUS
<1>1. ASSUME NEW c \in Calls
      PROVE  /\ call[c] \in CallRecord /\ CallOK(call[c]) /\ named[c] = {}
             /\ call[c].pc = "checks" /\ call[c].at = 1 /\ call[c].next = 1 /\ call[c].refs = <<>>
  <2>1. call[c] \in Called
      BY DEF Init
  <2>2. <<>> \in Seq(Refs)
      OBVIOUS
  <2>3. /\ call[c].pc = "checks" /\ call[c].at = 1 /\ call[c].next = 1 /\ call[c].refs = <<>>
        /\ \E release \in Releases, repositories \in RepositoryLists :
               call[c] = [pc |-> "checks", release |-> release, repositories |-> repositories,
                          at |-> 1, next |-> 1, done |-> {}, refs |-> <<>>, answer |-> <<>>]
      BY <2>1 DEF Called
  <2>4. call[c] \in CallRecord
      BY <2>2, <2>3 DEF CallRecord, Lines
  <2> QED
      BY <2>3, <2>4 DEF CallOK, Init
<1>2. TypeOK
  <2>1. call \in [Calls -> CallRecord]
      BY <1>1 DEF Init
  <2> QED
      BY <1>1, <2>1 DEF Init, TypeOK, CallRecord
<1>3. ASSUME NEW c \in Calls PROVE CallInv(c)
  <2>1. Len(call[c].release.tags) \in Nat
      BY <1>2, CallTyped, ReleaseTyped
  <2>2. Stored(c) /\ Left(c)
      BY <1>1 DEF Stored, Left
  <2>3. Pinned(call[c], <<>>, 1, 1)
      BY <2>1, <1>2, CallTyped DEF Pinned, Place, Before
  <2>4. TagsOf(<<>>) = {}
      BY DEF TagsOf
  <2>5. Written(c)
      BY <1>1, <2>3, <2>4 DEF Written
  <2> QED
      BY <1>1, <2>2, <2>5 DEF CallInv, Narrow, Answered, Tells, At
<1> QED
    BY <1>2, <1>3 DEF Inv

----------------------------------------------------------------------------
(* The calls that do not move. *)

Grows ==
    \A repo \in Repos :
        /\ manifests[repo] \subseteq manifests'[repo]
        /\ referrers[repo] \subseteq referrers'[repo]
        /\ signed[repo] \subseteq signed'[repo]

LEMMA WholeStays ==
    ASSUME Grows, NEW repo \in Repos, NEW release, IsWhole(repo, release)
    PROVE  /\ Contents(release) \subseteq manifests'[repo] \cap signed'[repo]
           /\ {[release |-> release, document |-> i] : i \in 1 .. Documents} \subseteq referrers'[repo]
BY DEF IsWhole, Grows

\* What is true of a call stays true while others add to the registry.
LEMMA KeptInv ==
    ASSUME TypeOK, NEW c \in Calls, CallInv(c), Grows, call'[c] = call[c], named'[c] = named[c]
    PROVE  CallInv(c)'
<1> DEFINE k == call[c]
<1>1. /\ k.repositories \in Seq(Repos) /\ \A i \in DOMAIN k.repositories : k.repositories[i] \in Repos
      /\ k.pc \in {"push", "attach", "sign", "tag"} => k.at \in DOMAIN k.repositories /\ Repo(c) \in Repos
      /\ k.at \in Nat
    BY CallTyped DEF CallRecord
<1>2. Repo(c)' = Repo(c) /\ Release(c)' = Release(c)
    BY DEF Repo, Release
<1>3. Stored(c)'
  <2>1. k.pc \in {"attach", "sign", "tag"} => Contents(k.release) \subseteq manifests'[Repo(c)]
      BY <1>1 DEF CallInv, Stored, Grows
  <2>2. k.pc = "attach" => \A i \in 1 .. k.next - 1 : [release |-> k.release, document |-> i] \in referrers'[Repo(c)]
      BY <1>1 DEF CallInv, Stored, Grows, HasDocuments
  <2>3. k.pc \in {"sign", "tag"} =>
            \A i \in 1 .. Documents : [release |-> k.release, document |-> i] \in referrers'[Repo(c)]
      BY <1>1 DEF CallInv, Stored, Grows, HasDocuments
  <2>4. /\ k.pc = "sign" => k.done \subseteq signed'[Repo(c)]
        /\ k.pc = "tag" => Contents(k.release) \subseteq signed'[Repo(c)]
        /\ k.pc = "checks" => k.at = 1
      BY <1>1 DEF CallInv, Stored, Grows
  <2> QED
      BY <1>2, <2>1, <2>2, <2>3, <2>4 DEF Stored, HasDocuments, Contents
<1>4. Left(c)'
  <2>1. ASSUME Open(c), NEW i \in 1 .. k.at - 1
        PROVE  IsWhole(k.repositories[i], k.release)'
    <3>1. k.pc # "checks"
        BY <2>1 DEF CallInv, Stored
    <3>2. k.repositories[i] \in Repos
        BY <1>1, <2>1, <3>1 DEF Open
    <3>3. IsWhole(k.repositories[i], k.release)
        BY <2>1 DEF CallInv, Left
    <3> QED
        BY WholeStays, <3>2, <3>3 DEF IsWhole, Contents
  <2>2. Open(c)' = Open(c)
      BY DEF Open
  <2> QED
      BY <2>1, <2>2 DEF Left
<1>5. Written(c)' /\ Narrow(c)' /\ Tells(c)'
  <2>1. Written(c)'
      BY DEF CallInv, Written, Open, Pinned, Place, RefAt, TagsOf, Before
  <2>2. Narrow(c)'
      BY <1>2 DEF CallInv, Narrow
  <2>3. Tells(c)'
      BY DEF CallInv, Tells, Told, At
  <2> QED
      BY <2>1, <2>2, <2>3
<1>6. Answered(c)'
  <2>1. ASSUME At(c, "published"), NEW i \in DOMAIN k.repositories
        PROVE  IsWhole(k.repositories[i], k.release)'
    <3>1. k.repositories[i] \in Repos /\ IsWhole(k.repositories[i], k.release)
        BY <1>1, <2>1 DEF CallInv, Answered
    <3> QED
        BY WholeStays, <3>1 DEF IsWhole, Contents
  <2>2. At(c, "published")' = At(c, "published")
      BY DEF At
  <2> QED
      BY <2>1, <2>2 DEF CallInv, Answered
<1> QED
    BY <1>3, <1>4, <1>5, <1>6 DEF CallInv

\* One call goes on as x, and has moved the tags y.
LEMMA OneMoves ==
    ASSUME Inv, NEW c \in Calls, NEW x \in CallRecord, NEW y \in SUBSET [repo : Repos, tag : Tags],
           CallOK(x), call' = [call EXCEPT ![c] = x], named' = [named EXCEPT ![c] = y],
           RegistryOK', Grows, CallInv(c)'
    PROVE  Inv'
<1>1. TypeOK
    BY DEF Inv
<1>2. call' \in [Calls -> CallRecord] /\ named' \in [Calls -> SUBSET [repo : Repos, tag : Tags]]
    BY <1>1 DEF TypeOK, CallRecord
<1>3. call'[c] = x /\ \A d \in Calls \ {c} : call'[d] = call[d] /\ named'[d] = named[d]
    BY <1>1 DEF TypeOK
<1>4. \A d \in Calls : CallOK(call'[d])
    BY <1>1, <1>3 DEF TypeOK
<1>5. TypeOK'
    BY <1>2, <1>4 DEF TypeOK, RegistryOK, CallRecord
<1>6. \A d \in Calls \ {c} : CallInv(d)'
    BY <1>1, <1>3, KeptInv DEF Inv
<1> QED
    BY <1>5, <1>6 DEF Inv

----------------------------------------------------------------------------
(* The call that moves. *)

\* It fails: the error names its references, and at most one tag moved since.
LEMMA FailInv ==
    ASSUME Inv, NEW c \in Calls, Open(c), Fail(c), RegistryOK', Grows,
           NEW y \in SUBSET [repo : Repos, tag : Tags], named' = [named EXCEPT ![c] = y],
           named[c] \subseteq y, \A one, other \in y \ named[c] : one = other, Narrow(c)'
    PROVE  Inv'
<1> DEFINE x == [call[c] EXCEPT !.pc = "failed", !.answer = call[c].refs]
<1>1. call[c] \in CallRecord /\ CallOK(call[c]) /\ TypeOK
    BY CallTyped DEF Inv
<1>2. x \in CallRecord /\ CallOK(x) /\ x.pc = "failed" /\ x.answer = call[c].refs
    BY <1>1 DEF CallRecord, CallOK, Lines
<1>3. call' = [call EXCEPT ![c] = x]
    BY DEF Fail
<1> HIDE DEF x
<1>4. call'[c] = x /\ named'[c] = y
    BY <1>1, <1>3 DEF TypeOK
<1>5. Tells(c)'
  <2>1. named[c] = TagsOf(call[c].refs)
      BY DEF Inv, CallInv, Written
  <2>2. Told(c)' = named[c]
      BY <1>2, <1>4, <2>1 DEF Told, TagsOf
  <2> QED
      BY <1>4, <2>2 DEF Tells
<1>6. Stored(c)' /\ Left(c)' /\ Written(c)' /\ Answered(c)'
    BY <1>2, <1>4 DEF Stored, Left, Written, Answered, Open, At
<1> QED
    BY <1>2, <1>3, <1>5, <1>6, OneMoves DEF CallInv

\* It goes on in its repository, with nothing tagged there yet.
LEMMA WorkInv ==
    ASSUME Inv, NEW c \in Calls, call[c].pc \in {"checks", "push", "attach", "sign"},
           NEW x \in CallRecord, CallOK(x), x.pc \in {"push", "attach", "sign", "tag"},
           x.pc = "tag" => x.next = 1,
           x.release = call[c].release, x.repositories = call[c].repositories,
           x.at = call[c].at, x.refs = call[c].refs,
           call' = [call EXCEPT ![c] = x], UNCHANGED named, RegistryOK', Grows, Stored(c)'
    PROVE  Inv'
<1>1. TypeOK /\ named[c] \in SUBSET [repo : Repos, tag : Tags] /\ call[c] \in CallRecord /\ CallOK(call[c])
    BY CallTyped DEF Inv
<1>2. call'[c] = x /\ named' = [named EXCEPT ![c] = named[c]]
    BY <1>1 DEF TypeOK
<1>3. Open(c) /\ At(c, "failed")' = FALSE /\ At(c, "published")' = FALSE
    BY <1>2 DEF Open, At
<1>4. Left(c)'
  <2>1. ASSUME NEW i \in 1 .. x.at - 1
        PROVE  IsWhole(x.repositories[i], x.release)'
    <3>1. IsWhole(x.repositories[i], x.release)
        BY <1>3 DEF Inv, CallInv, Left
    <3>2. x.at <= Len(x.repositories) /\ x.repositories \in Seq(Repos) /\ x.at \in Nat
        BY <1>1, CallTyped DEF CallRecord, CallOK
    <3>3. x.repositories[i] \in Repos
        BY <3>2
    <3> QED
        BY <3>1, <3>3, WholeStays DEF IsWhole, Contents
  <2> QED
      BY <1>2, <2>1 DEF Left
<1>5. Written(c)'
  <2>1. Pinned(call[c], call[c].refs, call[c].at, 1) /\ named[c] = TagsOf(call[c].refs)
      BY <1>3 DEF Inv, CallInv, Written
  <2>2. Pinned(x, x.refs, x.at, 1)
      BY <2>1 DEF Pinned, Place, RefAt
  <2>3. named'[c] = TagsOf(x.refs)
      BY <2>1
  <2>4. call'[c].pc = "tag" => call'[c].next = 1
      BY <1>2
  <2> QED
      BY <1>2, <2>2, <2>3, <2>4 DEF Written
<1>6. Narrow(c)'
    BY <1>2 DEF Inv, CallInv, Narrow, Release
<1> QED
    BY <1>1, <1>2, <1>3, <1>4, <1>5, <1>6, OneMoves DEF CallInv, Answered, Tells

LEMMA GotoTyped ==
    ASSUME Inv, NEW c \in Calls, NEW line \in {"push", "attach", "sign", "tag"},
           call[c].pc \in {"checks", "push", "attach", "sign"}, call[c].repositories # <<>>, Goto(c, line)
    PROVE  \E x \in CallRecord :
               /\ x = [call[c] EXCEPT !.pc = line, !.next = 1, !.done = {}]
               /\ CallOK(x) /\ call' = [call EXCEPT ![c] = x] /\ call'[c] = x
<1> DEFINE x == [call[c] EXCEPT !.pc = line, !.next = 1, !.done = {}]
<1>1. /\ TypeOK /\ call[c] \in CallRecord /\ CallOK(call[c]) /\ call[c].repositories \in Seq(Repos)
      /\ Len(call[c].release.tags) >= 1
    BY CallTyped, ReleaseTyped DEF Inv
<1>2. call[c].at <= Len(call[c].repositories)
  <2>1. Len(call[c].repositories) \in Nat /\ Len(call[c].repositories) >= 1
      BY <1>1
  <2>2. call[c].pc = "checks" => call[c].at = 1
      BY DEF Inv, CallInv, Stored
  <2> QED
      BY <1>1, <2>1, <2>2 DEF CallOK
<1>3. x \in CallRecord
    BY <1>1 DEF CallRecord, Lines
<1>4. CallOK(x)
    BY <1>1, <1>2, PublishAssumption DEF CallRecord, CallOK
<1>5. call' = [call EXCEPT ![c] = x] /\ call'[c] = x
    BY <1>1 DEF Goto, TypeOK
<1> QED
    BY <1>3, <1>4, <1>5

LEMMA CheckInv == ASSUME Inv, NEW c \in Calls, Check(c) PROVE Inv'
<1>1. PICK x \in CallRecord :
          /\ x = [call[c] EXCEPT !.pc = "push", !.next = 1, !.done = {}]
          /\ CallOK(x) /\ call' = [call EXCEPT ![c] = x] /\ call'[c] = x
    BY GotoTyped DEF Check, At
<1>2. call[c] \in CallRecord /\ TypeOK
    BY CallTyped DEF Inv
<1>3. /\ x.pc = "push" /\ x.next = 1 /\ x.release = call[c].release
      /\ x.repositories = call[c].repositories /\ x.at = call[c].at /\ x.refs = call[c].refs
    BY <1>1, <1>2 DEF CallRecord
<1>4. RegistryOK' /\ Grows /\ UNCHANGED named /\ call[c].pc = "checks"
    BY <1>2 DEF Check, At, registry, RegistryOK, TypeOK, Grows
<1>5. Stored(c)'
    BY <1>1, <1>3 DEF Stored
<1> QED
    BY <1>1, <1>3, <1>4, <1>5, WorkInv

\* Manifests are stored in the repository a call is at.
LEMMA StoreGrows ==
    ASSUME TypeOK, NEW c \in Calls, Repo(c) \in Repos, NEW digests \in SUBSET Digests, Store(c, digests)
    PROVE  RegistryOK' /\ Grows /\ digests \subseteq manifests'[Repo(c)]
BY DEF Store, TypeOK, RegistryOK, Grows

LEMMA PushInv == ASSUME Inv, NEW c \in Calls, Push(c) PROVE Inv'
<1>1. /\ TypeOK /\ call[c] \in CallRecord /\ call[c].repositories # <<>> /\ call[c].release \in Releases
      /\ Repo(c) \in Repos /\ call[c].pc = "push"
    BY CallTyped DEF Inv, Push, At
<1>2. PICK x \in CallRecord :
          /\ x = [call[c] EXCEPT !.pc = "attach", !.next = 1, !.done = {}]
          /\ CallOK(x) /\ call' = [call EXCEPT ![c] = x] /\ call'[c] = x
    BY <1>1, GotoTyped DEF Push
<1>3. /\ x.pc = "attach" /\ x.next = 1 /\ x.release = call[c].release
      /\ x.repositories = call[c].repositories /\ x.at = call[c].at /\ x.refs = call[c].refs
    BY <1>1, <1>2 DEF CallRecord
<1>4. RegistryOK' /\ Grows /\ Contents(Release(c)) \subseteq manifests'[Repo(c)]
    BY <1>1, ReleaseTyped, StoreGrows DEF Push, Release
<1>5. Stored(c)'
  <2>1. Repo(c)' = Repo(c)
      BY <1>2, <1>3 DEF Repo
  <2>2. \A i \in 1 .. x.next - 1 : FALSE
      BY <1>3
  <2> QED
      BY <1>2, <1>3, <1>4, <2>1, <2>2 DEF Stored, HasDocuments, Release, Contents
<1> QED
    BY <1>1, <1>2, <1>3, <1>4, <1>5, WorkInv DEF Push, Store

\* A document is attached, and the ones before it stay.
LEMMA AttachGrows ==
    ASSUME Inv, NEW c \in Calls, At(c, "attach"), AttachNext(c)
    PROVE  /\ RegistryOK' /\ Grows /\ UNCHANGED named
           /\ \A i \in 1 .. call[c].next : [release |-> Release(c), document |-> i] \in referrers'[Repo(c)]
           /\ Contents(Release(c)) \subseteq manifests'[Repo(c)]
<1> DEFINE doc == [release |-> Release(c), document |-> call[c].next]
<1>1. /\ TypeOK /\ call[c] \in CallRecord /\ CallOK(call[c]) /\ call[c].release \in Releases
      /\ Repo(c) \in Repos /\ call[c].pc = "attach"
    BY CallTyped DEF Inv, At
<1>2. call[c].next \in 1 .. Documents
    BY <1>1, PublishAssumption DEF CallRecord, CallOK
<1>3. doc \in [release : Releases, document : 1 .. Documents]
    BY <1>1, <1>2 DEF Release
<1>4. referrers' = [referrers EXCEPT ![Repo(c)] = referrers[Repo(c)] \cup {doc}]
    BY DEF AttachNext
<1>5. RegistryOK' /\ Grows /\ UNCHANGED <<manifests, named>> /\ doc \in referrers'[Repo(c)]
    BY <1>1, <1>3, <1>4 DEF AttachNext, TypeOK, RegistryOK, Grows
<1>6. /\ \A i \in 1 .. call[c].next - 1 : [release |-> Release(c), document |-> i] \in referrers[Repo(c)]
      /\ Contents(Release(c)) \subseteq manifests[Repo(c)]
    BY <1>1 DEF Inv, CallInv, Stored, HasDocuments, Release
<1>7. \A i \in 1 .. call[c].next : i \in 1 .. call[c].next - 1 \/ i = call[c].next
    BY <1>2
<1> QED
    BY <1>1, <1>5, <1>6, <1>7 DEF Grows

LEMMA AttachInv == ASSUME Inv, NEW c \in Calls, Attach(c) PROVE Inv'
<1>1. /\ TypeOK /\ call[c] \in CallRecord /\ CallOK(call[c]) /\ call[c].release \in Releases
      /\ call[c].repositories # <<>> /\ call[c].pc = "attach" /\ Repo(c) \in Repos
    BY CallTyped DEF Inv, Attach, At
<1>2. /\ RegistryOK' /\ Grows /\ UNCHANGED named
      /\ \A i \in 1 .. call[c].next : [release |-> Release(c), document |-> i] \in referrers'[Repo(c)]
      /\ Contents(Release(c)) \subseteq manifests'[Repo(c)]
    BY AttachGrows DEF Attach
<1>3. CASE call[c].next = Documents /\ Goto(c, "sign")
  <2>1. PICK x \in CallRecord :
            /\ x = [call[c] EXCEPT !.pc = "sign", !.next = 1, !.done = {}]
            /\ CallOK(x) /\ call' = [call EXCEPT ![c] = x] /\ call'[c] = x
      BY <1>1, <1>3, GotoTyped
  <2>2. /\ x.pc = "sign" /\ x.done = {} /\ x.release = call[c].release
        /\ x.repositories = call[c].repositories /\ x.at = call[c].at /\ x.refs = call[c].refs
      BY <1>1, <2>1 DEF CallRecord
  <2>3. Repo(c)' = Repo(c)
      BY <2>1, <2>2 DEF Repo
  <2>4. Stored(c)'
      BY <1>2, <1>3, <2>1, <2>2, <2>3 DEF Stored, HasDocuments, Release, Contents
  <2> QED
      BY <1>1, <1>2, <2>1, <2>2, <2>4, WorkInv
<1>4. CASE /\ call[c].next # Documents
           /\ call' = [call EXCEPT ![c] = [call[c] EXCEPT !.next = call[c].next + 1]]
  <2> DEFINE x == [call[c] EXCEPT !.next = call[c].next + 1]
  <2>1. call[c].next + 1 \in Nat /\ call[c].next + 1 <= Documents /\ call[c].next + 1 # 0
      BY <1>1, <1>4, PublishAssumption DEF CallRecord, CallOK
  <2>2. x \in CallRecord /\ call'[c] = x
      BY <1>1, <1>4, <2>1 DEF CallRecord, TypeOK
  <2>3. /\ x.pc = "attach" /\ x.next = call[c].next + 1 /\ x.release = call[c].release
        /\ x.repositories = call[c].repositories /\ x.at = call[c].at /\ x.refs = call[c].refs
      BY <1>1 DEF CallRecord
  <2>4. CallOK(x)
      BY <1>1, <2>1, <2>3 DEF CallOK
  <2> HIDE DEF x
  <2>5. Repo(c)' = Repo(c)
      BY <2>2, <2>3 DEF Repo
  <2>6. 1 .. x.next - 1 = 1 .. call[c].next
      BY <1>1, <2>3 DEF CallRecord
  <2>7. Stored(c)'
      BY <1>2, <2>2, <2>3, <2>5, <2>6 DEF Stored, HasDocuments, Release, Contents
  <2>8. call' = [call EXCEPT ![c] = x]
      BY <1>4 DEF x
  <2> QED
      BY <1>1, <1>2, <2>2, <2>3, <2>4, <2>7, <2>8, WorkInv
<1> QED
    BY <1>3, <1>4 DEF Attach

\* A manifest is signed, and what was signed stays.
LEMMA SignGrows ==
    ASSUME Inv, NEW c \in Calls, At(c, "sign"), NEW digest \in Signable(Release(c)), SignNext(c, digest)
    PROVE  /\ RegistryOK' /\ Grows /\ UNCHANGED named
           /\ call[c].done \cup {digest} \subseteq signed'[Repo(c)]
           /\ Contents(Release(c)) \subseteq manifests'[Repo(c)]
           /\ \A i \in 1 .. Documents : [release |-> Release(c), document |-> i] \in referrers'[Repo(c)]
           /\ call[c].done \cup {digest} \in SUBSET Digests
<1>1. /\ TypeOK /\ call[c] \in CallRecord /\ call[c].release \in Releases
      /\ Repo(c) \in Repos /\ call[c].pc = "sign"
    BY CallTyped DEF Inv, At
<1>2. digest \in Digests
    BY <1>1, ReleaseTyped DEF Signable, Release
<1>3. signed' = [signed EXCEPT ![Repo(c)] = signed[Repo(c)] \cup {digest}]
    BY DEF SignNext
<1>4. RegistryOK' /\ Grows /\ UNCHANGED <<manifests, referrers, named>> /\ digest \in signed'[Repo(c)]
    BY <1>1, <1>2, <1>3 DEF SignNext, TypeOK, RegistryOK, Grows
<1>5. /\ call[c].done \subseteq signed[Repo(c)] /\ Contents(Release(c)) \subseteq manifests[Repo(c)]
      /\ \A i \in 1 .. Documents : [release |-> Release(c), document |-> i] \in referrers[Repo(c)]
    BY <1>1 DEF Inv, CallInv, Stored, HasDocuments, Release
<1>6. call[c].done \cup {digest} \in SUBSET Digests
    BY <1>1, <1>2 DEF CallRecord
<1> QED
    BY <1>1, <1>4, <1>5, <1>6 DEF Grows

LEMMA SignInv == ASSUME Inv, NEW c \in Calls, Sign(c) PROVE Inv'
<1>1. /\ TypeOK /\ call[c] \in CallRecord /\ CallOK(call[c]) /\ call[c].release \in Releases
      /\ call[c].repositories # <<>> /\ call[c].pc = "sign" /\ Repo(c) \in Repos
    BY CallTyped DEF Inv, Sign, At
<1>2. PICK digest \in Signable(Release(c)) :
          /\ SignNext(c, digest)
          /\ \/ call[c].done \cup {digest} = Signable(Release(c)) /\ Goto(c, "tag")
             \/ call' = [call EXCEPT ![c] = [call[c] EXCEPT !.done = call[c].done \cup {digest}]]
    BY DEF Sign
<1>3. /\ RegistryOK' /\ Grows /\ UNCHANGED named
      /\ call[c].done \cup {digest} \subseteq signed'[Repo(c)]
      /\ Contents(Release(c)) \subseteq manifests'[Repo(c)]
      /\ \A i \in 1 .. Documents : [release |-> Release(c), document |-> i] \in referrers'[Repo(c)]
      /\ call[c].done \cup {digest} \in SUBSET Digests
    BY <1>2, SignGrows DEF Sign
<1>4. CASE call[c].done \cup {digest} = Signable(Release(c)) /\ Goto(c, "tag")
  <2>1. PICK x \in CallRecord :
            /\ x = [call[c] EXCEPT !.pc = "tag", !.next = 1, !.done = {}]
            /\ CallOK(x) /\ call' = [call EXCEPT ![c] = x] /\ call'[c] = x
      BY <1>1, <1>4, GotoTyped
  <2>2. /\ x.pc = "tag" /\ x.next = 1 /\ x.release = call[c].release
        /\ x.repositories = call[c].repositories /\ x.at = call[c].at /\ x.refs = call[c].refs
      BY <1>1, <2>1 DEF CallRecord
  <2>3. Repo(c)' = Repo(c) /\ Contents(Release(c)) \subseteq signed'[Repo(c)]
      BY <1>3, <1>4, <2>1, <2>2 DEF Repo, Signable
  <2>4. Stored(c)'
      BY <1>3, <2>1, <2>2, <2>3 DEF Stored, HasDocuments, Release, Contents
  <2> QED
      BY <1>1, <1>3, <2>1, <2>2, <2>4, WorkInv
<1>5. CASE call' = [call EXCEPT ![c] = [call[c] EXCEPT !.done = call[c].done \cup {digest}]]
  <2> DEFINE x == [call[c] EXCEPT !.done = call[c].done \cup {digest}]
  <2>1. x \in CallRecord /\ call'[c] = x
      BY <1>1, <1>3, <1>5 DEF CallRecord, TypeOK
  <2>2. /\ x.pc = "sign" /\ x.next = call[c].next /\ x.release = call[c].release
        /\ x.repositories = call[c].repositories /\ x.at = call[c].at /\ x.refs = call[c].refs
        /\ x.done = call[c].done \cup {digest}
      BY <1>1 DEF CallRecord
  <2>3. CallOK(x) /\ call' = [call EXCEPT ![c] = x]
      BY <1>1, <1>5, <2>2 DEF CallOK
  <2> HIDE DEF x
  <2>4. Repo(c)' = Repo(c)
      BY <2>1, <2>2 DEF Repo
  <2>5. Stored(c)'
      BY <1>3, <2>1, <2>2, <2>4 DEF Stored, HasDocuments, Release, Contents
  <2> QED
      BY <1>1, <1>3, <2>1, <2>2, <2>3, <2>5, WorkInv
<1> QED
    BY <1>2, <1>4, <1>5

LEMMA UnchangedGrows == ASSUME TypeOK, UNCHANGED registry PROVE RegistryOK' /\ Grows
BY DEF registry, TypeOK, RegistryOK, Grows

\* A request fails: the registry did what it was asked for, part of it, or nothing.
LEMMA FailsInv ==
    ASSUME Inv, NEW c \in Calls, Refuse(c) \/ PushFails(c) \/ AttachFails(c) \/ SignFails(c) PROVE Inv'
<1>1. TypeOK /\ named[c] \in SUBSET [repo : Repos, tag : Tags] /\ call[c].release \in Releases
    BY CallTyped DEF Inv
<1>2. ASSUME Open(c), Fail(c), RegistryOK', Grows, UNCHANGED named PROVE Inv'
  <2>1. named' = [named EXCEPT ![c] = named[c]] /\ named'[c] = named[c]
      BY <1>1, <1>2 DEF TypeOK
  <2>2. Release(c)' = Release(c)
    <3>1. call[c] \in CallRecord /\ call'[c] = [call[c] EXCEPT !.pc = "failed", !.answer = call[c].refs]
        BY <1>1, <1>2, CallTyped DEF Fail, TypeOK
    <3> QED
        BY <3>1 DEF Release, CallRecord
  <2>3. Narrow(c)'
      BY <2>1, <2>2 DEF Inv, CallInv, Narrow
  <2> QED
      BY <1>1, <1>2, <2>1, <2>3, FailInv
<1>3. CASE Refuse(c)
    BY <1>1, <1>2, <1>3, UnchangedGrows DEF Refuse, Open, At
<1>4. CASE PushFails(c)
  <2>1. Repo(c) \in Repos /\ Open(c)
      BY <1>1, <1>4, CallTyped DEF PushFails, At, Open
  <2>2. PICK landed \in (SUBSET Release(c).platforms) \cup {Contents(Release(c))} : Store(c, landed)
      BY <1>4 DEF PushFails
  <2>3. landed \in SUBSET Digests
      BY <1>1, <2>2, ReleaseTyped DEF Release
  <2>4. RegistryOK' /\ Grows
      BY <1>1, <2>1, <2>2, <2>3, StoreGrows
  <2> QED
      BY <1>2, <1>4, <2>1, <2>2, <2>4 DEF PushFails, Store
<1>5. CASE AttachFails(c)
  <2>1. Open(c) /\ At(c, "attach") /\ Fail(c)
      BY <1>5 DEF AttachFails, At, Open
  <2>2. CASE AttachNext(c)
      BY <1>2, <2>1, <2>2, AttachGrows
  <2>3. CASE UNCHANGED <<registry, named>>
      BY <1>1, <1>2, <2>1, <2>3, UnchangedGrows
  <2> QED
      BY <1>5, <2>2, <2>3 DEF AttachFails
<1>6. CASE SignFails(c)
  <2>1. Open(c) /\ At(c, "sign") /\ Fail(c)
      BY <1>6 DEF SignFails, At, Open
  <2>2. CASE \E digest \in Signable(Release(c)) : SignNext(c, digest)
      BY <1>2, <2>1, <2>2, SignGrows
  <2>3. CASE UNCHANGED <<registry, named>>
      BY <1>1, <1>2, <2>1, <2>3, UnchangedGrows
  <2> QED
      BY <1>6, <2>2, <2>3 DEF SignFails
<1> QED
    BY <1>3, <1>4, <1>5, <1>6

----------------------------------------------------------------------------
(* Tags. *)

LEMMA ProductTyped == ASSUME NEW a \in Nat, NEW n \in Nat PROVE a * n \in Nat
OBVIOUS

LEMMA ProductGrows == ASSUME NEW a \in Nat, NEW b \in Nat, NEW n \in Nat, a <= b PROVE a * n <= b * n
OBVIOUS

LEMMA ProductNext == ASSUME NEW a \in Int, NEW n \in Int PROVE (a + 1) * n = a * n + n
OBVIOUS

LEMMA ProductLast == ASSUME NEW a \in Nat \ {0}, NEW n \in Nat PROVE a * n = (a - 1) * n + n
<1>1. a - 1 \in Int /\ n \in Int /\ (a - 1) + 1 = a
    OBVIOUS
<1>2. ((a - 1) + 1) * n = (a - 1) * n + n
    BY <1>1, ProductNext
<1> QED
    BY <1>1, <1>2

\* The places are in the order in which the tags are moved.
LEMMA PlaceBefore ==
    ASSUME NEW k, Len(k.release.tags) \in Nat, NEW i \in Nat \ {0}, NEW j \in 1 .. Len(k.release.tags),
           NEW at \in Nat \ {0}, NEW next \in Nat \ {0}, Before(i, j, at, next)
    PROVE  Place(k, i, j) \in 1 .. Place(k, at, next) - 1
<1> DEFINE n == Len(k.release.tags)
           p == (i - 1) * n
           q == (at - 1) * n
<1>1. n \in Nat /\ j \in 1 .. n /\ i - 1 \in Nat /\ at - 1 \in Nat
    OBVIOUS
<1>2. Place(k, i, j) = p + j /\ Place(k, at, next) = q + next
    BY DEF Place
<1> HIDE DEF n
<1>3. p \in Nat /\ q \in Nat
    BY <1>1, ProductTyped
<1>4. CASE i < at
  <2>1. i * n = p + n
      BY <1>1, ProductLast
  <2>2. i * n <= q
    <3>1. i \in Nat /\ i <= at - 1
        BY <1>4
    <3> QED
        BY <1>1, <3>1, ProductGrows
  <2> HIDE DEF p, q
  <2>3. p + n <= q
      BY <2>1, <2>2
  <2> QED
      BY <1>1, <1>2, <1>3, <2>3
<1>5. CASE i = at /\ j < next
  <2>1. p = q
      BY <1>5
  <2> HIDE DEF p, q
  <2> QED
      BY <1>1, <1>2, <1>3, <1>5, <2>1
<1> QED
    BY <1>4, <1>5 DEF Before

\* A tag is moved: nothing is stored, and the family stays named from its narrow end.
LEMMA MoveTagNames ==
    ASSUME Inv, NEW c \in Calls, At(c, "tag"), MoveTag(c)
    PROVE  LET y == named[c] \cup {[repo |-> Repo(c), tag |-> Tag(c)]}
               family == Release(c).tags
           IN  /\ RegistryOK' /\ Grows
               /\ y \in SUBSET [repo : Repos, tag : Tags]
               /\ named' = [named EXCEPT ![c] = y] /\ named'[c] = y
               /\ \A repo \in Repos : \A i \in DOMAIN family : \A j \in 1 .. i :
                      [repo |-> repo, tag |-> family[i]] \in y => [repo |-> repo, tag |-> family[j]] \in y
<1> DEFINE k == call[c]
           family == Release(c).tags
           y == named[c] \cup {[repo |-> Repo(c), tag |-> Tag(c)]}
<1>1. /\ TypeOK /\ k \in CallRecord /\ k.pc = "tag" /\ Repo(c) \in Repos /\ Tag(c) \in Tags
      /\ k.release \in Releases /\ k.next \in DOMAIN family /\ k.at \in DOMAIN k.repositories
      /\ named[c] \in SUBSET [repo : Repos, tag : Tags]
    BY CallTyped DEF Inv, At, Release
<1>2. /\ family \in Seq(Tags) /\ Len(family) \in Nat
      /\ \A i, j \in DOMAIN family : family[i] = family[j] => i = j
    BY <1>1, ReleaseTyped DEF Release
<1>3. y \in SUBSET [repo : Repos, tag : Tags]
    BY <1>1
<1>4. named' = [named EXCEPT ![c] = y] /\ named'[c] = y
    BY <1>1 DEF MoveTag, TypeOK
<1>5. RegistryOK' /\ Grows
  <2>1. k.release.image \in Digests /\ tags[Repo(c)] \in [Tags -> Digests \cup {NoDigest}]
      BY <1>1, ReleaseTyped DEF TypeOK
  <2>2. tags' = [tags EXCEPT ![Repo(c)] = [tags[Repo(c)] EXCEPT ![Tag(c)] = k.release.image]]
      BY DEF MoveTag, Release
  <2>3. tags' \in [Repos -> [Tags -> Digests \cup {NoDigest}]]
      BY <1>1, <2>1, <2>2 DEF TypeOK
  <2> QED
      BY <1>1, <2>3 DEF MoveTag, TypeOK, RegistryOK, Grows
\* The narrower tags of this repository are references already.
<1>6. ASSUME NEW j \in DOMAIN family, j < k.next
      PROVE  [repo |-> Repo(c), tag |-> family[j]] \in named[c]
  <2>1. Pinned(k, k.refs, k.at, k.next) /\ named[c] = TagsOf(k.refs)
      BY <1>1 DEF Inv, CallInv, Written, Open
  <2>2. k.refs[Place(k, k.at, j)] = RefAt(k, k.at, j) /\ Len(k.refs) = Place(k, k.at, k.next) - 1
      BY <1>1, <1>6, <2>1 DEF Pinned, Before, Release
  <2>3. Place(k, k.at, j) \in 1 .. Len(k.refs)
    <3>1. k.at \in Nat \ {0} /\ k.next \in Nat \ {0} /\ Before(k.at, j, k.at, k.next)
        BY <1>1, <1>6, CallTyped DEF CallRecord, CallOK, Before
    <3>2. j \in 1 .. Len(k.release.tags) /\ Len(k.release.tags) \in Nat
        BY <1>2 DEF Release
    <3>3. Place(k, k.at, j) \in 1 .. Place(k, k.at, k.next) - 1
        BY <3>1, <3>2, PlaceBefore
    <3> QED
        BY <2>2, <3>3
  <2>4. Place(k, k.at, j) \in DOMAIN k.refs
      BY <1>1, <2>3 DEF CallRecord
  <2> QED
      BY <2>1, <2>2, <2>4 DEF TagsOf, RefAt, Repo, Release
<1>7. ASSUME NEW repo \in Repos, NEW i \in DOMAIN family, NEW j \in 1 .. i,
             [repo |-> repo, tag |-> family[i]] \in y
      PROVE  [repo |-> repo, tag |-> family[j]] \in y
  <2>1. j \in DOMAIN family
      BY <1>2
  <2>2. CASE [repo |-> repo, tag |-> family[i]] \in named[c]
      BY <2>2 DEF Inv, CallInv, Narrow
  <2>3. CASE repo = Repo(c) /\ family[i] = Tag(c)
    <3>1. i = k.next
        BY <1>1, <1>2, <2>3 DEF Tag, Release
    <3>2. CASE j = k.next
        BY <2>3, <3>2 DEF Tag, Release
    <3>3. CASE j < k.next
        BY <1>6, <2>1, <2>3, <3>3
    <3> QED
        BY <1>1, <1>2, <3>1, <3>2, <3>3
  <2> QED
      BY <1>7, <2>2, <2>3
<1> QED
    BY <1>3, <1>4, <1>5, <1>7

\* Another reference takes the next place.
LEMMA AppendPinned ==
    ASSUME TypeOK, NEW c \in Calls, call[c].pc = "tag",
           Pinned(call[c], call[c].refs, call[c].at, call[c].next)
    PROVE  LET k == call[c]  refs == Append(k.refs, Ref(c)) IN
           /\ refs \in Seq(Refs) /\ Len(refs) = Place(k, k.at, k.next)
           /\ TagsOf(refs) = TagsOf(k.refs) \cup {[repo |-> Repo(c), tag |-> Tag(c)]}
           /\ \A i \in DOMAIN k.repositories, j \in DOMAIN k.release.tags :
                  Before(i, j, k.at, k.next + 1) => refs[Place(k, i, j)] = RefAt(k, i, j)
<1> DEFINE k == call[c]
           refs == Append(k.refs, Ref(c))
<1>1. /\ k \in CallRecord /\ k.refs \in Seq(Refs) /\ Ref(c) \in Refs
      /\ k.repositories \in Seq(Repos) /\ k.release.tags \in Seq(Tags) /\ Len(k.release.tags) \in Nat
      /\ k.at \in Nat \ {0} /\ k.next \in Nat \ {0}
  <2>1. /\ k \in CallRecord /\ CallOK(k) /\ Repo(c) \in Repos /\ Tag(c) \in Tags
        /\ k.release \in Releases /\ k.repositories \in Seq(Repos)
      BY CallTyped
  <2>2. k.release.image \in Digests /\ k.release.tags \in Seq(Tags) /\ Len(k.release.tags) \in Nat
      BY <2>1, ReleaseTyped
  <2>3. Ref(c) \in Refs
      BY <2>1, <2>2 DEF Ref, Refs, Release
  <2> QED
      BY <2>1, <2>2, <2>3 DEF CallRecord, CallOK
<1>2. Len(k.refs) = Place(k, k.at, k.next) - 1 /\ Len(k.refs) \in Nat
    BY <1>1 DEF Pinned
<1>3. Place(k, k.at, k.next) \in Nat
  <2>1. k.at - 1 \in Nat
      BY <1>1
  <2>2. (k.at - 1) * Len(k.release.tags) \in Nat
      BY <1>1, <2>1, ProductTyped
  <2> QED
      BY <1>1, <2>2 DEF Place
<1>4. Place(k, k.at, k.next) = Len(k.refs) + 1
    BY <1>2, <1>3
<1>5. refs \in Seq(Refs) /\ Len(refs) = Len(k.refs) + 1 /\ refs[Len(k.refs) + 1] = Ref(c)
      /\ \A i \in 1 .. Len(k.refs) : refs[i] = k.refs[i]
    BY <1>1
<1>6. TagsOf(refs) = TagsOf(k.refs) \cup {[repo |-> Repo(c), tag |-> Tag(c)]}
  <2>1. DOMAIN refs = 1 .. Len(k.refs) + 1 /\ DOMAIN k.refs = 1 .. Len(k.refs)
      BY <1>1, <1>5
  <2>2. Ref(c).repo = Repo(c) /\ Ref(c).tag = Tag(c)
      BY DEF Ref
  <2>3. \A i \in 1 .. Len(k.refs) + 1 : i \in 1 .. Len(k.refs) \/ i = Len(k.refs) + 1
      BY <1>2
  <2>4. 1 .. Len(k.refs) \subseteq 1 .. Len(k.refs) + 1 /\ Len(k.refs) + 1 \in 1 .. Len(k.refs) + 1
      BY <1>2
  <2> HIDE DEF refs
  <2>5. \A i \in DOMAIN refs : \/ i \in DOMAIN k.refs /\ refs[i] = k.refs[i]
                               \/ refs[i] = Ref(c)
      BY <1>5, <2>1, <2>3
  <2>6. \A i \in DOMAIN k.refs : i \in DOMAIN refs /\ refs[i] = k.refs[i]
      BY <1>5, <2>1, <2>4
  <2>7. \E i \in DOMAIN refs : refs[i] = Ref(c)
      BY <1>5, <2>1, <2>4
  <2> QED
      BY <2>2, <2>5, <2>6, <2>7 DEF TagsOf
<1>7. ASSUME NEW i \in DOMAIN k.repositories, NEW j \in DOMAIN k.release.tags, Before(i, j, k.at, k.next + 1)
      PROVE  refs[Place(k, i, j)] = RefAt(k, i, j)
  <2>1. i \in Nat \ {0} /\ j \in 1 .. Len(k.release.tags)
      BY <1>1
  <2>2. CASE Before(i, j, k.at, k.next)
    <3>1. Place(k, i, j) \in 1 .. Len(k.refs)
        BY <1>1, <1>2, <2>1, <2>2, PlaceBefore
    <3>2. k.refs[Place(k, i, j)] = RefAt(k, i, j)
        BY <2>2 DEF Pinned
    <3> QED
        BY <1>5, <3>1, <3>2
  <2>3. CASE i = k.at /\ j = k.next
    <3>1. RefAt(k, i, j) = Ref(c)
        BY <2>3 DEF RefAt, Ref, Repo, Tag, Release
    <3> QED
        BY <1>4, <1>5, <2>3, <3>1
  <2>4. Before(i, j, k.at, k.next) \/ (i = k.at /\ j = k.next)
      BY <1>1, <1>7, <2>1 DEF Before
  <2> QED
      BY <2>2, <2>3, <2>4
<1> QED
    BY <1>2, <1>4, <1>5, <1>6, <1>7

\* A call that tags has made the repository it is at whole.
LEMMA TaggedIsWhole ==
    ASSUME Inv, NEW c \in Calls, call[c].pc = "tag"
    PROVE  \A i \in 1 .. call[c].at : IsWhole(call[c].repositories[i], call[c].release)
<1>1. call[c].at \in Nat \ {0}
    BY CallTyped DEF Inv, CallRecord, CallOK
<1>2. \A i \in 1 .. call[c].at - 1 : IsWhole(call[c].repositories[i], call[c].release)
    BY DEF Inv, CallInv, Left, Open
<1>3. IsWhole(Repo(c), call[c].release)
    BY DEF Inv, CallInv, Stored, HasDocuments, IsWhole
<1>4. \A i \in 1 .. call[c].at : i \in 1 .. call[c].at - 1 \/ i = call[c].at
    BY <1>1
<1> QED
    BY <1>2, <1>3, <1>4 DEF Repo

\* It stays whole as the registry grows.
LEMMA TaggedStaysWhole ==
    ASSUME Inv, NEW c \in Calls, call[c].pc = "tag", Grows, NEW i \in 1 .. call[c].at,
           call'[c].repositories = call[c].repositories, call'[c].release = call[c].release
    PROVE  IsWhole(call[c].repositories[i], call[c].release)'
<1>1. /\ call[c].at \in DOMAIN call[c].repositories /\ call[c].repositories \in Seq(Repos)
      /\ \A r \in DOMAIN call[c].repositories : call[c].repositories[r] \in Repos
    BY CallTyped DEF Inv
<1>2. call[c].repositories[i] \in Repos
    BY <1>1
<1>3. IsWhole(call[c].repositories[i], call[c].release)
    BY TaggedIsWhole
<1> QED
    BY <1>2, <1>3, WholeStays DEF IsWhole, Contents

\* There is another tag.
LEMMA NextTagInv ==
    ASSUME Inv, NEW c \in Calls, At(c, "tag"), MoveTag(c), Advance(c),
           call[c].next < Len(call[c].release.tags)
    PROVE  Inv'
<1> DEFINE k == call[c]
           refs == Append(k.refs, Ref(c))
           x == [k EXCEPT !.refs = refs, !.next = k.next + 1]
           y == named[c] \cup {[repo |-> Repo(c), tag |-> Tag(c)]}
<1>1. /\ TypeOK /\ k \in CallRecord /\ CallOK(k) /\ k.pc = "tag" /\ Repo(c) \in Repos
      /\ k.release \in Releases /\ Len(k.release.tags) \in Nat /\ Open(c)
      /\ k.repositories \in Seq(Repos) /\ k.release.tags \in Seq(Tags)
    BY CallTyped, ReleaseTyped DEF Inv, At, Open
<1>2. Pinned(k, k.refs, k.at, k.next) /\ named[c] = TagsOf(k.refs)
    BY <1>1 DEF Inv, CallInv, Written
<1>3. /\ RegistryOK' /\ Grows /\ y \in SUBSET [repo : Repos, tag : Tags]
      /\ named' = [named EXCEPT ![c] = y] /\ named'[c] = y
      /\ \A repo \in Repos : \A i \in DOMAIN k.release.tags : \A j \in 1 .. i :
             [repo |-> repo, tag |-> k.release.tags[i]] \in y => [repo |-> repo, tag |-> k.release.tags[j]] \in y
    BY MoveTagNames DEF Release
<1>4. /\ refs \in Seq(Refs) /\ Len(refs) = Place(k, k.at, k.next) /\ TagsOf(refs) = y
      /\ \A i \in DOMAIN k.repositories, j \in DOMAIN k.release.tags :
             Before(i, j, k.at, k.next + 1) => refs[Place(k, i, j)] = RefAt(k, i, j)
    BY <1>1, <1>2, AppendPinned
<1> HIDE DEF refs, y
<1>5. x \in CallRecord /\ call' = [call EXCEPT ![c] = x] /\ call'[c] = x
  <2>1. x \in CallRecord
    <3>1. k.next + 1 \in Nat
        BY <1>1 DEF CallRecord
    <3> QED
        BY <1>1, <1>4, <3>1 DEF CallRecord
  <2>2. call' = [call EXCEPT ![c] = x]
      BY DEF Advance, refs
  <2> QED
      BY <1>1, <2>1, <2>2 DEF TypeOK
<1>6. /\ x.pc = "tag" /\ x.next = k.next + 1 /\ x.at = k.at /\ x.refs = refs /\ x.done = k.done
      /\ x.release = k.release /\ x.repositories = k.repositories
    BY <1>1 DEF CallRecord
<1>7. CallOK(x)
    BY <1>1, <1>6 DEF CallOK, CallRecord
<1> HIDE DEF x
<1>8. Stored(c)' /\ Left(c)'
  <2>1. Repo(c)' = Repo(c)
      BY <1>5, <1>6 DEF Repo
  <2>2. /\ Contents(k.release) \subseteq manifests'[Repo(c)] \cap signed'[Repo(c)]
        /\ \A i \in 1 .. Documents : [release |-> k.release, document |-> i] \in referrers'[Repo(c)]
      BY <1>1, <1>3 DEF Inv, CallInv, Stored, HasDocuments, Grows
  <2>3. Stored(c)'
      BY <1>5, <1>6, <2>1, <2>2 DEF Stored, HasDocuments, Contents
  <2>4. \A i \in 1 .. x.at - 1 : i \in 1 .. k.at
      BY <1>1, <1>6 DEF CallRecord
  <2>5. Left(c)'
      BY <1>1, <1>3, <1>5, <1>6, <2>4, TaggedStaysWhole DEF Left
  <2> QED
      BY <2>3, <2>5
<1>9. Written(c)'
  <2>1. Place(x, x.at, x.next) - 1 = Place(k, k.at, k.next)
    <3> DEFINE p == (k.at - 1) * Len(k.release.tags)
    <3>1. k.at - 1 \in Nat /\ k.next \in Nat
        BY <1>1 DEF CallRecord, CallOK
    <3>2. p \in Nat
        BY <1>1, <3>1, ProductTyped
    <3>3. Place(k, k.at, k.next) = p + k.next /\ Place(x, x.at, x.next) = p + (k.next + 1)
        BY <1>6 DEF Place
    <3> HIDE DEF p
    <3> QED
        BY <3>1, <3>2, <3>3
  <2>2. \A i, j : Place(x, i, j) = Place(k, i, j) /\ RefAt(x, i, j) = RefAt(k, i, j)
      BY <1>6 DEF Place, RefAt
  <2>3. Pinned(x, x.refs, x.at, x.next)
      BY <1>4, <1>6, <2>1, <2>2 DEF Pinned
  <2> QED
      BY <1>3, <1>4, <1>5, <1>6, <2>3 DEF Written
<1>10. Narrow(c)' /\ Answered(c)' /\ Tells(c)'
    BY <1>3, <1>5, <1>6 DEF Narrow, Answered, Tells, At, Release
<1> QED
    BY <1>3, <1>5, <1>7, <1>8, <1>9, <1>10, OneMoves DEF CallInv

\* The family is done: the next repository, or the answer.
LEMMA LastTagInv ==
    ASSUME Inv, NEW c \in Calls, At(c, "tag"), MoveTag(c), Advance(c),
           ~(call[c].next < Len(call[c].release.tags))
    PROVE  Inv'
<1> DEFINE k == call[c]
           n == Len(k.release.tags)
           refs == Append(k.refs, Ref(c))
           y == named[c] \cup {[repo |-> Repo(c), tag |-> Tag(c)]}
<1>1. /\ TypeOK /\ k \in CallRecord /\ CallOK(k) /\ k.pc = "tag" /\ Repo(c) \in Repos
      /\ k.release \in Releases /\ n \in Nat /\ n >= 1 /\ Open(c)
      /\ k.repositories \in Seq(Repos) /\ k.release.tags \in Seq(Tags)
      /\ k.at \in Nat \ {0} /\ k.at <= Len(k.repositories) /\ k.next = n
  <2>1. /\ TypeOK /\ k \in CallRecord /\ CallOK(k) /\ k.pc = "tag" /\ Repo(c) \in Repos
        /\ k.release \in Releases /\ n \in Nat /\ n >= 1 /\ Open(c)
        /\ k.repositories \in Seq(Repos) /\ k.release.tags \in Seq(Tags)
      BY CallTyped, ReleaseTyped DEF Inv, At, Open
  <2> QED
      BY <2>1 DEF CallRecord, CallOK
<1>2. Pinned(k, k.refs, k.at, k.next) /\ named[c] = TagsOf(k.refs)
    BY <1>1 DEF Inv, CallInv, Written
<1>3. /\ RegistryOK' /\ Grows /\ y \in SUBSET [repo : Repos, tag : Tags]
      /\ named' = [named EXCEPT ![c] = y] /\ named'[c] = y
      /\ \A repo \in Repos : \A i \in DOMAIN k.release.tags : \A j \in 1 .. i :
             [repo |-> repo, tag |-> k.release.tags[i]] \in y => [repo |-> repo, tag |-> k.release.tags[j]] \in y
    BY MoveTagNames DEF Release
<1>4. /\ refs \in Seq(Refs) /\ Len(refs) = Place(k, k.at, k.next) /\ TagsOf(refs) = y
      /\ \A i \in DOMAIN k.repositories, j \in DOMAIN k.release.tags :
             Before(i, j, k.at, k.next + 1) => refs[Place(k, i, j)] = RefAt(k, i, j)
    BY <1>1, <1>2, AppendPinned
<1> HIDE DEF refs, y
\* All of this repository is among the references.
<1>5. /\ Len(refs) = k.at * n
      /\ \A i \in DOMAIN k.repositories, j \in DOMAIN k.release.tags :
             i <= k.at => refs[Place(k, i, j)] = RefAt(k, i, j)
  <2>1. Place(k, k.at, k.next) = (k.at - 1) * n + k.next
      BY DEF Place
  <2>2. k.at * n = (k.at - 1) * n + n
    <3> HIDE DEF k, n
    <3>1. k.at \in Nat \ {0} /\ n \in Nat
        BY <1>1
    <3> QED
        BY <3>1, ProductLast
  <2>3. k.at * n = Place(k, k.at, k.next)
    <3> HIDE DEF k, n
    <3> QED
        BY <1>1, <2>1, <2>2
  <2>4. ASSUME NEW i \in DOMAIN k.repositories, NEW j \in DOMAIN k.release.tags, i <= k.at
        PROVE  Before(i, j, k.at, k.next + 1)
      BY <1>1, <2>4 DEF Before
  <2> QED
      BY <1>4, <2>3, <2>4
<1>6. CASE k.at < Len(k.repositories)
  <2> DEFINE x == [k EXCEPT !.refs = refs, !.next = 1, !.at = k.at + 1, !.pc = "push"]
  <2>1. x \in CallRecord /\ call' = [call EXCEPT ![c] = x] /\ call'[c] = x
    <3>1. k.at + 1 \in Nat /\ "push" \in Lines
        BY <1>1 DEF Lines
    <3>2. x \in CallRecord
        BY <1>1, <1>4, <3>1 DEF CallRecord
    <3>3. call' = [call EXCEPT ![c] = x]
        BY <1>6 DEF Advance, refs
    <3> QED
        BY <1>1, <3>2, <3>3 DEF TypeOK
  <2>2. /\ x.pc = "push" /\ x.next = 1 /\ x.at = k.at + 1 /\ x.refs = refs
        /\ x.release = k.release /\ x.repositories = k.repositories
      BY <1>1 DEF CallRecord
  <2> HIDE DEF x
  <2>3. CallOK(x)
      BY <1>1, <1>6, <2>2 DEF CallOK
  <2>4. Stored(c)'
      BY <2>1, <2>2 DEF Stored
  <2>5. Left(c)'
    <3>1. \A i \in 1 .. x.at - 1 : i \in 1 .. k.at
        BY <1>1, <2>2
    <3> QED
        BY <1>1, <1>3, <2>1, <2>2, <3>1, TaggedStaysWhole DEF Left
  <2>6. Written(c)'
    <3>1. Place(x, x.at, 1) - 1 = k.at * n
      <4>1. Place(x, x.at, 1) = ((k.at + 1) - 1) * n + 1
          BY <2>2 DEF Place
      <4>2. (k.at + 1) - 1 = k.at /\ k.at \in Nat /\ n \in Nat
          BY <1>1
      <4>3. k.at * n \in Nat
          BY <4>2, ProductTyped
      <4> DEFINE product == k.at * n
      <4>4. Place(x, x.at, 1) = product + 1
          BY <4>1, <4>2
      <4>5. product \in Nat
          BY <4>3
      <4> HIDE DEF product
      <4>6. Place(x, x.at, 1) - 1 = product
          BY <4>4, <4>5
      <4> QED
          BY <4>6 DEF product
    <3>2. \A i, j : Place(x, i, j) = Place(k, i, j) /\ RefAt(x, i, j) = RefAt(k, i, j)
        BY <2>2 DEF Place, RefAt
    <3>3. ASSUME NEW i \in DOMAIN k.repositories, NEW j \in DOMAIN k.release.tags, Before(i, j, x.at, 1)
          PROVE  i <= k.at
        BY <1>1, <2>2, <3>3 DEF Before
    <3>4. Pinned(x, x.refs, x.at, 1)
        BY <1>5, <2>2, <3>1, <3>2, <3>3 DEF Pinned
    <3> QED
        BY <1>3, <1>4, <2>1, <2>2, <3>4 DEF Written
  <2>7. Narrow(c)' /\ Answered(c)' /\ Tells(c)'
      BY <1>3, <2>1, <2>2 DEF Narrow, Answered, Tells, At, Release
  <2> QED
      BY <1>3, <2>1, <2>3, <2>4, <2>5, <2>6, <2>7, OneMoves DEF CallInv
<1>7. CASE ~(k.at < Len(k.repositories))
  <2> DEFINE x == [k EXCEPT !.refs = refs, !.answer = refs, !.pc = "published"]
  <2>1. x \in CallRecord /\ call' = [call EXCEPT ![c] = x] /\ call'[c] = x
    <3>1. x \in CallRecord
        BY <1>1, <1>4 DEF CallRecord, Lines
    <3>2. call' = [call EXCEPT ![c] = x]
        BY <1>7 DEF Advance, refs
    <3> QED
        BY <1>1, <3>1, <3>2 DEF TypeOK
  <2>2. /\ x.pc = "published" /\ x.at = k.at /\ x.next = k.next /\ x.answer = refs
        /\ x.release = k.release /\ x.repositories = k.repositories
      BY <1>1 DEF CallRecord
  <2> HIDE DEF x
  <2>3. CallOK(x)
      BY <1>1, <2>2 DEF CallOK
  <2>4. k.at = Len(k.repositories) /\ \A i \in DOMAIN k.repositories : i \in 1 .. k.at /\ i <= k.at
      BY <1>1, <1>7
  <2>5. Answered(c)'
    <3>1. Len(refs) = Len(k.repositories) * n
        BY <1>5, <2>4
    <3>2. \A i \in DOMAIN k.repositories : \A j \in DOMAIN k.release.tags :
              refs[(i - 1) * n + j] =
                  [repo |-> k.repositories[i], tag |-> k.release.tags[j], digest |-> k.release.image]
        BY <1>5, <2>4 DEF Place, RefAt
    <3>3. \A i \in DOMAIN k.repositories : IsWhole(k.repositories[i], k.release)'
        BY <1>1, <1>3, <2>1, <2>2, <2>4, TaggedStaysWhole
    <3>4. call'[c].answer = refs /\ call'[c].repositories = k.repositories /\ call'[c].release = k.release
        BY <2>1, <2>2
    <3> QED
        BY <3>1, <3>2, <3>3, <3>4 DEF Answered
  <2>6. Stored(c)' /\ Left(c)' /\ Written(c)' /\ Narrow(c)' /\ Tells(c)'
      BY <1>3, <2>1, <2>2 DEF Stored, Left, Written, Open, Narrow, Tells, At, Release
  <2> QED
      BY <1>3, <2>1, <2>3, <2>5, <2>6, OneMoves DEF CallInv
<1> QED
    BY <1>6, <1>7

LEMMA WriteTagInv == ASSUME Inv, NEW c \in Calls, WriteTag(c) PROVE Inv'
BY NextTagInv, LastTagInv DEF WriteTag

\* The request is not answered: the tag may have moved all the same.
LEMMA TagFailsInv == ASSUME Inv, NEW c \in Calls, TagFails(c) PROVE Inv'
<1>1. TypeOK /\ At(c, "tag") /\ Open(c) /\ Fail(c) /\ named[c] \in SUBSET [repo : Repos, tag : Tags]
    BY CallTyped DEF TagFails, Inv, At, Open
<1>2. Release(c)' = Release(c)
  <2>1. call[c] \in CallRecord /\ call'[c] = [call[c] EXCEPT !.pc = "failed", !.answer = call[c].refs]
      BY <1>1, CallTyped DEF Fail, TypeOK
  <2> QED
      BY <2>1 DEF Release, CallRecord
<1>3. CASE MoveTag(c)
  <2> DEFINE y == named[c] \cup {[repo |-> Repo(c), tag |-> Tag(c)]}
  <2>1. /\ RegistryOK' /\ Grows /\ y \in SUBSET [repo : Repos, tag : Tags]
        /\ named' = [named EXCEPT ![c] = y] /\ named'[c] = y
        /\ \A repo \in Repos : \A i \in DOMAIN Release(c).tags : \A j \in 1 .. i :
               [repo |-> repo, tag |-> Release(c).tags[i]] \in y => [repo |-> repo, tag |-> Release(c).tags[j]] \in y
      BY <1>1, <1>3, MoveTagNames
  <2>2. named[c] \subseteq y /\ \A one, other \in y \ named[c] : one = other
      OBVIOUS
  <2> HIDE DEF y
  <2>3. Narrow(c)'
      BY <1>2, <2>1 DEF Narrow
  <2> QED
      BY <1>1, <2>1, <2>2, <2>3, FailInv
<1>4. CASE UNCHANGED <<registry, named>>
  <2>1. named' = [named EXCEPT ![c] = named[c]] /\ named'[c] = named[c]
      BY <1>1, <1>4 DEF TypeOK
  <2>2. Narrow(c)'
      BY <1>2, <2>1 DEF Inv, CallInv, Narrow
  <2> QED
      BY <1>1, <1>4, <2>1, <2>2, UnchangedGrows, FailInv
<1> QED
    BY <1>3, <1>4 DEF TagFails


\* The step nobody takes.
LEMMA StutterInv == ASSUME Inv, UNCHANGED vars PROVE Inv'
<1>1. TypeOK /\ UNCHANGED registry /\ call' = call /\ named' = named
    BY DEF Inv, vars, registry
<1>2. Grows
    BY <1>1, UnchangedGrows
<1>3. \A c \in Calls : CallInv(c)'
    BY <1>1, <1>2, KeptInv DEF Inv
<1>4. TypeOK'
    BY <1>1 DEF TypeOK, CallOK, registry
<1> QED
    BY <1>3, <1>4 DEF Inv

LEMMA StepInv == Inv /\ [Next]_vars => Inv'
<1>1. ASSUME Inv, NEW c \in Calls, CallStep(c) PROVE Inv'
    BY <1>1, FailsInv, CheckInv, PushInv, AttachInv, SignInv, WriteTagInv, TagFailsInv DEF CallStep
<1> QED
    BY <1>1, StutterInv DEF Next

LEMMA AlwaysInv == Spec => []Inv
BY InitInv, StepInv, PTL DEF Spec

----------------------------------------------------------------------------
(* What follows. *)

\* Calls stay on the lines of Publish and within the lists they were given.
THEOREM TypeCorrect == Spec => []TypeOK
<1>1. Inv => TypeOK
    BY DEF Inv
<1> QED
    BY <1>1, AlwaysInv, PTL

\* A call that fails half way leaves the wider tags where they were.
THEOREM NarrowFirst == Spec => []NarrowBeforeWide
<1>1. Inv => NarrowBeforeWide
    BY DEF Inv, CallInv, Narrow, NarrowBeforeWide
<1> QED
    BY <1>1, AlwaysInv, PTL

\* A publish that succeeds answers with every tag, each in its place, of images
\* that are whole.
THEOREM AnswersArePinned == Spec => []AnswerIsPinned
<1>1. Inv => AnswerIsPinned
    BY DEF Inv, CallInv, Answered, AnswerIsPinned
<1> QED
    BY <1>1, AlwaysInv, PTL

\* One that fails names what it has tagged, but for the request not answered.
THEOREM ErrorsTell == Spec => []ErrorTellsWhatShipped
<1>1. Inv => ErrorTellsWhatShipped
    BY DEF Inv, CallInv, Tells, ErrorTellsWhatShipped
<1> QED
    BY <1>1, AlwaysInv, PTL

----------------------------------------------------------------------------
(* Publish implements ReleaseTags. *)

Whole(repo) == {r \in Releases : IsWhole(repo, r)}
wholes == [repo \in Repos |-> Whole(repo)]

LEMMA InitMaps == Init => Abstract!Init
<1> SUFFICES ASSUME Init PROVE Abstract!Init
    OBVIOUS
<1>1. \A repo \in Repos : \A r \in Releases : ~IsWhole(repo, r)
  <2> SUFFICES ASSUME NEW repo \in Repos, NEW r \in Releases PROVE ~IsWhole(repo, r)
      OBVIOUS
  <2>1. r.image \in Contents(r) /\ manifests[repo] = {}
      BY DEF Contents, Init
  <2> QED
      BY <2>1 DEF IsWhole
<1> QED
    BY <1>1 DEF Init, Abstract!Init

\* A request that moves no tag can only complete releases where it was made.
LEMMA OthersComplete ==
    ASSUME Grows, NEW here \in Repos, UNCHANGED tags,
           \A repo \in Repos \ {here} :
               UNCHANGED <<manifests[repo], referrers[repo], signed[repo]>>
    PROVE  Abstract!Next
<1>1. Whole(here) \subseteq Whole(here)'
    BY WholeStays DEF Whole, IsWhole, Contents
<1>2. \A repo \in Repos \ {here} : Whole(repo)' = Whole(repo)
    BY DEF Whole, IsWhole
<1>3. wholes' = [wholes EXCEPT ![here] = @ \cup Whole(here)']
    BY <1>1, <1>2 DEF wholes
<1>4. Whole(here)' \in SUBSET Releases
    BY DEF Whole
<1> QED
    BY <1>3, <1>4 DEF Abstract!Next, Abstract!Complete, wholes, Whole

\* A tag that moves names what is whole.
LEMMA TagsName ==
    ASSUME Inv, NEW c \in Calls, At(c, "tag"), MoveTag(c)
    PROVE  Abstract!Next
<1>1. /\ TypeOK /\ Repo(c) \in Repos /\ Release(c) \in Releases /\ call[c].at \in Nat \ {0}
      /\ call[c].next \in DOMAIN Release(c).tags
    BY CallTyped DEF Inv, At, Release, CallRecord, CallOK
<1>2. IsWhole(Repo(c), Release(c))
  <2>1. call[c].at \in 1 .. call[c].at
      BY <1>1
  <2> QED
      BY <2>1, TaggedIsWhole DEF At, Repo, Release
<1>3. wholes' = wholes
    BY DEF wholes, Whole, IsWhole, MoveTag
<1>4. Release(c) \in wholes[Repo(c)]
    BY <1>1, <1>2 DEF wholes, Whole
<1>5. tags' = [tags EXCEPT ![Repo(c)] = [tags[Repo(c)] EXCEPT ![Release(c).tags[call[c].next]] = Release(c).image]]
    BY DEF MoveTag, Tag
<1>6. Abstract!Name(Repo(c), Release(c), call[c].next)
    BY <1>3, <1>4, <1>5 DEF Abstract!Name, wholes, Whole
<1> QED
    BY <1>1, <1>6 DEF Abstract!Next

LEMMA StepMaps == ASSUME Inv, [Next]_vars PROVE Abstract!Next \/ UNCHANGED <<wholes, tags>>
<1>1. CASE UNCHANGED registry
    BY <1>1 DEF registry, wholes, Whole, IsWhole
<1>2. ASSUME NEW c \in Calls, CallStep(c), ~UNCHANGED registry
      PROVE  Abstract!Next
  <2>1. /\ TypeOK /\ call[c].release \in Releases /\ Contents(Release(c)) \in SUBSET Digests
        /\ call[c].pc \in {"push", "attach", "sign", "tag"} => Repo(c) \in Repos
      BY CallTyped, ReleaseTyped DEF Inv, Release
  <2>2. ASSUME NEW digests \in SUBSET Digests, At(c, "push"), Store(c, digests) PROVE Abstract!Next
    <3>1. Repo(c) \in Repos /\ Grows /\ UNCHANGED tags
        BY <2>1, <2>2, StoreGrows DEF At, Store
    <3>2. \A repo \in Repos \ {Repo(c)} : UNCHANGED <<manifests[repo], referrers[repo], signed[repo]>>
        BY <2>1, <2>2 DEF Store, TypeOK
    <3> QED
        BY <3>1, <3>2, OthersComplete
  <2>3. ASSUME At(c, "attach"), AttachNext(c) PROVE Abstract!Next
    <3>1. Repo(c) \in Repos /\ Grows /\ UNCHANGED tags
        BY <2>1, <2>3, AttachGrows DEF At, AttachNext
    <3>2. \A repo \in Repos \ {Repo(c)} : UNCHANGED <<manifests[repo], referrers[repo], signed[repo]>>
        BY <2>1, <2>3 DEF AttachNext, TypeOK
    <3> QED
        BY <3>1, <3>2, OthersComplete
  <2>4. ASSUME NEW digest \in Signable(Release(c)), At(c, "sign"), SignNext(c, digest) PROVE Abstract!Next
    <3>1. Repo(c) \in Repos /\ Grows /\ UNCHANGED tags
        BY <2>1, <2>4, SignGrows DEF At, SignNext
    <3>2. \A repo \in Repos \ {Repo(c)} : UNCHANGED <<manifests[repo], referrers[repo], signed[repo]>>
        BY <2>1, <2>4 DEF SignNext, TypeOK
    <3> QED
        BY <3>1, <3>2, OthersComplete
  <2>5. CASE Push(c) \/ PushFails(c)
    <3>1. PICK digests \in SUBSET Digests : Store(c, digests)
        BY <2>1, <2>5 DEF Push, PushFails, Contents
    <3> QED
        BY <2>2, <2>5, <3>1 DEF Push, PushFails
  <2>6. CASE Attach(c) \/ AttachFails(c)
      BY <1>2, <2>3, <2>6 DEF Attach, AttachFails
  <2>7. CASE Sign(c) \/ SignFails(c)
      BY <1>2, <2>4, <2>7 DEF Sign, SignFails
  <2>8. CASE WriteTag(c) \/ TagFails(c)
      BY <1>2, <2>8, TagsName DEF WriteTag, TagFails
  <2>9. CASE Refuse(c) \/ Check(c)
      BY <1>2, <2>9 DEF Refuse, Check
  <2> QED
      BY <1>2, <2>5, <2>6, <2>7, <2>8, <2>9 DEF CallStep
<1> QED
    BY <1>1, <1>2 DEF Next, vars, registry

\* No tag ever names an image of which a document, a signature or a manifest is
\* missing, whichever calls run, fail half way and are made again.
THEOREM PublishImplementsReleaseTags == Spec => TagsNameWholeReleases
<1>1. Init => Abstract!Init
    BY InitMaps
<1>2. Inv /\ [Next]_vars => [Abstract!Next]_<<wholes, tags>>
    BY StepMaps
<1>3. [Abstract!Next]_<<wholes, tags>> = [Abstract!Next]_<<[repo \in Repos |-> {r \in Releases : IsWhole(repo, r)}], tags>>
    BY DEF wholes, Whole
<1> QED
    BY <1>1, <1>2, <1>3, AlwaysInv, PTL DEF Spec, TagsNameWholeReleases, Abstract!Spec, wholes, Whole
=============================================================================

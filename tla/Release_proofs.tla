---------------------------- MODULE Release_proofs ----------------------------
(***************************************************************************)
(* Proofs about Release for every number of images and every set of runs:  *)
(* its inductive invariant, the properties of version and latest tags and, *)
(* where a commit is of one branch and the registry answers, those of      *)
(* revision tags.                                                          *)
(***************************************************************************)
EXTENDS ReleaseRefinement, TLAPS

USE PromotionAssumption, ReleaseAssumption DEF Images

(* Versions are ordered, and a bump goes up. *)
LEMMA LowerTransitive ==
    \A u, v, w \in Versions : Lower(u, v) /\ Lower(v, w) => Lower(u, w)
  BY DEF Lower, Versions, Part

LEMMA LowerIrreflexive == \A v \in Versions : ~Lower(v, v)
  BY DEF Lower, Versions, Part

LEMMA BumpedIsHigher ==
    \A v \in Versions, bump \in Bumps : Lower(v, Bumped(v, bump))
  BY DEF Lower, Bumped, Versions, Part

(* One entry of a table of tables is replaced. *)
LEMMA TableUpdate ==
    ASSUME NEW S, NEW T, NEW V, NEW f \in [S -> [T -> V]],
           NEW s \in S, NEW t \in T, NEW v \in V
    PROVE  LET g == [f EXCEPT ![s][t] = v]
           IN /\ g \in [S -> [T -> V]]
              /\ g[s][t] = v
              /\ \A x \in S, y \in T : x # s \/ y # t => g[x][y] = f[x][y]
<1>. DEFINE row == [f[s] EXCEPT ![t] = v]
<1>1. row \in [T -> V] /\ row[t] = v /\ \A y \in T : y # t => row[y] = f[s][y]
  OBVIOUS
<1>. HIDE DEF row
<1>2. [f EXCEPT ![s] = row] \in [S -> [T -> V]]
  BY <1>1
<1>3. [f EXCEPT ![s][t] = v] = [f EXCEPT ![s] = row]
  BY DEF row
<1>. QED
  BY <1>1, <1>2, <1>3

LEMMA StableUpdate ==
    ASSUME TypeOK, NEW i \in Images, NEW v \in Versions, NEW d \in Digests \cup {None},
           stable' = [stable EXCEPT ![i][v] = d]
    PROVE  /\ stable' \in [Images -> [Versions -> Digests \cup {None}]]
           /\ stable'[i][v] = d
           /\ \A x \in Images, y \in Versions : x # i \/ y # v => stable'[x][y] = stable[x][y]
<1>. stable \in [Images -> [Versions -> Digests \cup {None}]]
  BY DEF TypeOK
<1>. HIDE DEF Images
<1>. QED
  BY TableUpdate

LEMMA AliasUpdate ==
    ASSUME BuildTypeOK, NEW i \in Images, NEW a \in Aliases, NEW d \in Digests \cup {None},
           alias' = [alias EXCEPT ![i][a] = d]
    PROVE  alias' \in [Images -> [Aliases -> Digests \cup {None}]]
<1>. alias \in [Images -> [Aliases -> Digests \cup {None}]]
  BY DEF BuildTypeOK
<1>. HIDE DEF Images
<1>. QED
  BY TableUpdate

(* A step keeps every variable in its type. *)
LEMMA TypeStep == IInv /\ [Next]_vars => TypeOK'
<1>. SUFFICES ASSUME IInv, [Next]_vars PROVE TypeOK'
  OBVIOUS
<1>. TypeOK /\ AtImage /\ VersionInv
  BY DEF IInv
<1>. USE DEF TypeOK, BuildTypeOK, BuildLabels, ReleaseLabels, bvars, published, rest, At, GoOn, Requests
<1>1. ASSUME NEW b \in Builds, BuildStart(b), UNCHANGED rvars PROVE TypeOK'
  BY <1>1 DEF BuildStart, rvars
<1>2. ASSUME NEW b \in Builds, BuildDropped(b), UNCHANGED rvars PROVE TypeOK'
  BY <1>2 DEF BuildDropped, rvars
<1>3. ASSUME NEW b \in Builds, BuildSuite(b), UNCHANGED rvars PROVE TypeOK'
  BY <1>3 DEF BuildSuite, rvars
<1>4. ASSUME NEW b \in Builds, InspectRevision(b), UNCHANGED rvars PROVE TypeOK'
  BY <1>4 DEF InspectRevision, rvars
<1>5. ASSUME NEW b \in Builds, InspectDiffers(b), UNCHANGED rvars PROVE TypeOK'
  BY <1>5 DEF InspectDiffers, End, rvars
<1>7. ASSUME NEW b \in Builds, CreateTags(b), UNCHANGED rvars PROVE TypeOK'
  <2>1. next[b] \in Images /\ suite[b][next[b]] \in Digests \cup {None}
    BY <1>7 DEF AtImage, CreateTags
  <2>2. SetRevision(b) => revision' \in [Images -> [Commits -> Digests \cup {None}]]
    BY <2>1 DEF SetRevision
  <2>3. SetAlias(b) => alias' \in [Images -> [Aliases -> Digests \cup {None}]]
    <3>1. CASE AliasOf[b] = None
      BY <3>1 DEF SetAlias
    <3>2. CASE AliasOf[b] # None
      <4>1. AliasOf[b] \in Aliases
        BY <3>2
      <4>2. SetAlias(b) => alias' = [alias EXCEPT ![next[b]][AliasOf[b]] = suite[b][next[b]]]
        BY <3>2 DEF SetAlias
      <4>3. BuildTypeOK
        OBVIOUS
      <4>. HIDE DEF TypeOK, BuildTypeOK, Images
      <4>. QED
        BY <2>1, <4>1, <4>2, <4>3, AliasUpdate
    <3>. QED
      BY <3>1, <3>2
  <2>. QED
    BY <1>7, <2>1, <2>2, <2>3 DEF CreateTags, rvars
<1>8. ASSUME NEW b \in Builds, CreateFails(b), UNCHANGED rvars PROVE TypeOK'
  <2>1. next[b] \in Images /\ suite[b][next[b]] \in Digests \cup {None}
    BY <1>8 DEF AtImage, CreateFails
  <2>2. SetRevision(b) => revision' \in [Images -> [Commits -> Digests \cup {None}]]
    BY <2>1 DEF SetRevision
  <2>3. SetAlias(b) => alias' \in [Images -> [Aliases -> Digests \cup {None}]]
    <3>1. CASE AliasOf[b] = None
      BY <3>1 DEF SetAlias
    <3>2. CASE AliasOf[b] # None
      <4>1. AliasOf[b] \in Aliases
        BY <3>2
      <4>2. SetAlias(b) => alias' = [alias EXCEPT ![next[b]][AliasOf[b]] = suite[b][next[b]]]
        BY <3>2 DEF SetAlias
      <4>3. BuildTypeOK
        OBVIOUS
      <4>. HIDE DEF TypeOK, BuildTypeOK, Images
      <4>. QED
        BY <2>1, <4>1, <4>2, <4>3, AliasUpdate
    <3>. QED
      BY <3>1, <3>2
  <2>. QED
    BY <1>8, <2>1, <2>2, <2>3 DEF CreateFails, End, rvars
<1>9. ASSUME NEW b \in Builds, VerifyTags(b), UNCHANGED rvars PROVE TypeOK'
  BY <1>9 DEF AtImage, VerifyTags, rvars
<1>10. ASSUME NEW b \in Builds, BuildDone(b), UNCHANGED rvars PROVE TypeOK'
  BY <1>10 DEF BuildDone, End, rvars
<1>11. ASSUME NEW b \in Builds, BuildFails(b), UNCHANGED rvars PROVE TypeOK'
  BY <1>11 DEF BuildFails, End, rvars
<1>12. ASSUME NEW b \in Builds, BuildAgain(b), UNCHANGED rvars PROVE TypeOK'
  BY <1>12 DEF BuildAgain, rvars
<1>13. ASSUME NEW r \in Releases, Dispatch(r) PROVE TypeOK'
  BY <1>13 DEF Dispatch
<1>14. ASSUME NEW r \in Releases, Begin(r) PROVE TypeOK'
  BY <1>14 DEF Begin, Take
<1>15. ASSUME NEW r \in Releases, Prepare(r) PROVE TypeOK'
  BY <1>15 DEF Prepare
<1>16. ASSUME NEW r \in Releases, Inspect(r) PROVE TypeOK'
  <2>. DEFINE digest == revision[place[r]][request[r].sha]
  <2>1. place[r] \in Images /\ request[r].sha \in Commits
    BY <1>16 DEF VersionInv, Inspect, Requests
  <2>2. digest \in Digests \cup {None}
    <3>1. revision \in [Images -> [Commits -> Digests \cup {None}]]
      OBVIOUS
    <3>2. revision[place[r]] \in [Commits -> Digests \cup {None}]
      BY <2>1, <3>1
    <3>. QED
      BY ONLY <2>1, <3>2
  <2>3. record' = [record EXCEPT ![r][place[r]] = digest]
    BY <1>16 DEF Inspect
  <2>. HIDE DEF digest
  <2>4. record' \in [Releases -> [Images -> Digests \cup {None}]]
    BY <2>1, <2>2, <2>3
  <2>5. missing' \in [Releases -> SUBSET Images]
    BY <1>16, <2>1 DEF Inspect
  <2>. QED
    BY <1>16, <2>1, <2>4, <2>5 DEF Inspect
<1>17. ASSUME NEW r \in Releases, Inspected(r) PROVE TypeOK'
  BY <1>17 DEF Inspected
<1>18. ASSUME NEW r \in Releases, Promote(r) PROVE TypeOK'
  <2>1. /\ place[r] \in Images /\ record[r][place[r]] \in Digests \cup {None}
        /\ version[r] \in Versions
    BY <1>18 DEF Promote, VersionInv
  <2>2. stable' \in [Images -> [Versions -> Digests \cup {None}]]
    <3>1. CASE stable' = stable
      BY <3>1
    <3>2. CASE SetStable(r)
      BY ONLY <2>1, <3>2, TypeOK, StableUpdate DEF SetStable
    <3>. QED
      BY <1>18, <3>1, <3>2 DEF Promote
  <2>. QED
    BY <1>18, <2>1, <2>2 DEF Promote
<1>19. ASSUME NEW r \in Releases, PromoteFails(r) PROVE TypeOK'
  BY <1>19 DEF VersionInv, PromoteFails, SetStable, Fail, NoDigests, Leave
<1>20. ASSUME NEW r \in Releases, Publish(r) PROVE TypeOK'
  BY <1>20 DEF VersionInv, Publish
<1>21. ASSUME NEW r \in Releases, TagChecked(r) PROVE TypeOK'
  BY <1>21 DEF TagChecked
<1>22. ASSUME NEW r \in Releases, ReleaseFails(r) PROVE TypeOK'
  BY <1>22 DEF ReleaseFails, Fail, NoDigests, Leave
<1>23. ASSUME NEW r \in Releases, Dropped(r) PROVE TypeOK'
  BY <1>23 DEF Dropped
<1>24. ASSUME NEW r \in Releases, ReleaseAgain(r) PROVE TypeOK'
  BY <1>24 DEF ReleaseAgain
<1>25. ASSUME NEW r \in Releases, CheckCurrent(r) PROVE TypeOK'
  BY <1>25 DEF CheckCurrent
<1>26. ASSUME NEW r \in Releases, MoveLatest(r) PROVE TypeOK'
  BY <1>26 DEF MoveLatest, SetLatest
<1>27. ASSUME NEW r \in Releases, MoveFails(r) PROVE TypeOK'
  BY <1>27 DEF MoveFails, SetLatest, Leave
<1>28. ASSUME NEW r \in Releases, LatestFails(r) PROVE TypeOK'
  BY <1>28 DEF LatestFails, Leave
<1>29. ASSUME NEW r \in Releases, LatestAgain(r) PROVE TypeOK'
  BY <1>29 DEF LatestAgain, Take
<1>30. ASSUME NEW r \in Releases, ReleaseDone(r) PROVE TypeOK'
  BY <1>30 DEF ReleaseDone, Leave
<1>31. CASE MainAdvances
  BY <1>31 DEF MainAdvances
<1>32. CASE UNCHANGED vars
  BY <1>32 DEF vars, rvars
<1>. QED
  BY <1>1, <1>2, <1>3, <1>4, <1>5, <1>7, <1>8, <1>9, <1>10, <1>11,
     <1>12, <1>13, <1>14, <1>15, <1>16, <1>17, <1>18, <1>19, <1>20, <1>21,
     <1>22, <1>23, <1>24, <1>25, <1>26, <1>27, <1>28, <1>29, <1>30, <1>31,
     <1>32
     DEF Next, BuildRun, ReleaseJob, LatestJob

(* A step keeps the inductive invariant. *)
LEMMA InvStep == IInv /\ [Next]_vars => IInv'
<1>. SUFFICES ASSUME IInv, [Next]_vars PROVE IInv'
  OBVIOUS
<1>. TypeOK /\ TypeOK'
  BY TypeStep DEF IInv
<1>. USE DEF TypeOK, BuildTypeOK, BuildLabels, ReleaseLabels, bvars, published, rest, At, GoOn, Requests,
         IInv, AtImage, GroupInv, VersionInv, LoopInv, LoopInvOf, ReleaseComplete, PublishedInv, LatestComplete, Released
<1>1. ASSUME NEW b \in Builds, BuildStart(b), UNCHANGED rvars PROVE IInv'
  BY <1>1 DEF BuildStart, rvars
<1>2. ASSUME NEW b \in Builds, BuildDropped(b), UNCHANGED rvars PROVE IInv'
  BY <1>2 DEF BuildDropped, rvars
<1>3. ASSUME NEW b \in Builds, BuildSuite(b), UNCHANGED rvars PROVE IInv'
  BY <1>3 DEF BuildSuite, rvars
<1>4. ASSUME NEW b \in Builds, InspectRevision(b), UNCHANGED rvars PROVE IInv'
  BY <1>4 DEF InspectRevision, rvars
<1>5. ASSUME NEW b \in Builds, InspectDiffers(b), UNCHANGED rvars PROVE IInv'
  BY <1>5 DEF InspectDiffers, End, rvars
<1>7. ASSUME NEW b \in Builds, CreateTags(b), UNCHANGED rvars PROVE IInv'
  BY <1>7 DEF CreateTags, SetRevision, SetAlias, rvars
<1>8. ASSUME NEW b \in Builds, CreateFails(b), UNCHANGED rvars PROVE IInv'
  BY <1>8 DEF CreateFails, SetRevision, SetAlias, End, rvars
<1>9. ASSUME NEW b \in Builds, VerifyTags(b), UNCHANGED rvars PROVE IInv'
  BY <1>9 DEF VerifyTags, rvars
<1>10. ASSUME NEW b \in Builds, BuildDone(b), UNCHANGED rvars PROVE IInv'
  BY <1>10 DEF BuildDone, End, rvars
<1>11. ASSUME NEW b \in Builds, BuildFails(b), UNCHANGED rvars PROVE IInv'
  <2>1. AtImage'
    BY <1>11 DEF BuildFails, End, rvars
  <2>2. GroupInv'
    BY <1>11 DEF BuildFails, End, rvars
  <2>3. VersionInv'
    BY <1>11 DEF BuildFails, End, rvars
  <2>4. LoopInv'
    BY <1>11 DEF BuildFails, End, rvars
  <2>5. ReleaseComplete'
    BY <1>11 DEF BuildFails, End, rvars
  <2>6. PublishedInv'
    BY <1>11 DEF BuildFails, End, rvars
  <2>7. LatestComplete'
    BY <1>11 DEF BuildFails, End, rvars
  <2>. HIDE DEF TypeOK, AtImage, GroupInv, VersionInv, LoopInv,
       ReleaseComplete, PublishedInv, LatestComplete
  <2>. QED
    BY <2>1, <2>2, <2>3, <2>4, <2>5, <2>6, <2>7 DEF IInv
<1>12. ASSUME NEW b \in Builds, BuildAgain(b), UNCHANGED rvars PROVE IInv'
  BY <1>12 DEF BuildAgain, rvars
<1>13. ASSUME NEW r \in Releases, Dispatch(r) PROVE IInv'
  <2>1. AtImage'
    BY <1>13 DEF Dispatch, Requests
  <2>2. GroupInv'
    BY <1>13 DEF Dispatch, Requests
  <2>3. VersionInv'
    BY <1>13 DEF Dispatch, Requests
  <2>4. LoopInv'
    BY <1>13 DEF Dispatch, Requests
  <2>5. ReleaseComplete'
    BY <1>13 DEF Dispatch, Requests
  <2>6. PublishedInv'
    BY <1>13 DEF Dispatch, Requests
  <2>7. LatestComplete'
    BY <1>13 DEF Dispatch, Requests
  <2>. HIDE DEF TypeOK, AtImage, GroupInv, VersionInv, LoopInv,
       ReleaseComplete, PublishedInv, LatestComplete
  <2>. QED
    BY <2>1, <2>2, <2>3, <2>4, <2>5, <2>6, <2>7 DEF IInv
<1>14. ASSUME NEW r \in Releases, Begin(r) PROVE IInv'
  BY <1>14 DEF Begin, Take
<1>15. ASSUME NEW r \in Releases, Prepare(r) PROVE IInv'
  <2>1. AtImage'
    BY <1>15 DEF Prepare
  <2>2. GroupInv'
    BY <1>15 DEF Prepare
  <2>3. VersionInv'
    <3>1. PICK v \in Versions : /\ IsCurrentVersion(v)
                                 /\ Bumped(v, request[r].bump) \in Versions
                                 /\ version' = [version EXCEPT ![r] = Bumped(v, request[r].bump)]
      BY <1>15 DEF Prepare
    <3>. DEFINE w == Bumped(v, request[r].bump)
    <3>2. v \in Versions /\ request[r].bump \in Bumps
      BY <1>15 DEF Prepare, Requests
    <3>5. w \in Versions /\ Lower(v, w)
      BY <3>1, <3>2, BumpedIsHigher
    <3>. HIDE DEF w
    <3>3. \A u \in Released : Lower(u, w)
      BY <3>1, <3>2, <3>5, LowerTransitive DEF IsCurrentVersion
    <3>4. version' = [version EXCEPT ![r] = w]
      BY <3>1 DEF w
    <3>. QED
      BY <1>15, <3>5, <3>3, <3>4 DEF Prepare
  <2>4. LoopInv'
    BY <1>15 DEF Prepare
  <2>5. ReleaseComplete'
    BY <1>15 DEF Prepare
  <2>6. PublishedInv'
    BY <1>15 DEF Prepare
  <2>7. LatestComplete'
    BY <1>15 DEF Prepare
  <2>. HIDE DEF TypeOK, AtImage, GroupInv, VersionInv, LoopInv,
       ReleaseComplete, PublishedInv, LatestComplete
  <2>. QED
    BY <2>1, <2>2, <2>3, <2>4, <2>5, <2>6, <2>7 DEF IInv
<1>16. ASSUME NEW r \in Releases, Inspect(r) PROVE IInv'
  BY <1>16 DEF Inspect
<1>17. ASSUME NEW r \in Releases, Inspected(r) PROVE IInv'
  <2>1. AtImage'
    BY <1>17 DEF Inspected
  <2>2. GroupInv'
    BY <1>17 DEF Inspected
  <2>3. VersionInv'
    BY <1>17 DEF Inspected
  <2>4. LoopInv'
    BY <1>17 DEF Inspected
  <2>5. ReleaseComplete'
    BY <1>17 DEF Inspected
  <2>6. PublishedInv'
    BY <1>17 DEF Inspected
  <2>7. LatestComplete'
    BY <1>17 DEF Inspected
  <2>. HIDE DEF TypeOK, AtImage, GroupInv, VersionInv, LoopInv,
       ReleaseComplete, PublishedInv, LatestComplete
  <2>. QED
    BY <2>1, <2>2, <2>3, <2>4, <2>5, <2>6, <2>7 DEF IInv
<1>18. ASSUME NEW r \in Releases, Promote(r) PROVE IInv'
  <2>. DEFINE v == version[r]
             k == place[r]
  <2>a. v \in Versions /\ k \in Images /\ record[r][k] # None /\ record[r][k] \in Digests
    BY <1>18 DEF Promote
  <2>b. /\ stable'[k][v] = record[r][k]
        /\ \A i \in Images, u \in Versions :
               i # k \/ u # v => stable'[i][u] = stable[i][u]
    <3>1. /\ stable' = stable \/ stable' = [stable EXCEPT ![k][v] = record[r][k]]
          /\ stable'[k][v] = record[r][k]
      BY <1>18 DEF Promote, SetStable
    <3>. HIDE DEF TypeOK, v, k
    <3>2. CASE stable' = stable
      BY ONLY <3>1, <3>2
    <3>3. CASE stable' = [stable EXCEPT ![k][v] = record[r][k]]
      <4>. DEFINE d == record[r][k]
      <4>1. d \in Digests \cup {None} /\ stable' = [stable EXCEPT ![k][v] = d]
        BY <2>a, <3>3
      <4>2. /\ v \in Versions /\ k \in Images
            /\ stable \in [Images -> [Versions -> Digests \cup {None}]]
        BY <2>a, TypeOK DEF TypeOK
      <4>. HIDE DEF d, Images
      <4>3. /\ stable'[k][v] = d
            /\ \A i \in Images, u \in Versions :
                   i # k \/ u # v => stable'[i][u] = stable[i][u]
        BY ONLY <4>1, <4>2
      <4>. QED
        BY <4>3 DEF d
    <3>. QED
      BY <3>1, <3>2, <3>3
  <2>c. \A u \in Released : u # v
    BY <1>18, LowerIrreflexive DEF Promote
  <2>d. /\ rpc[r] = "promoting"
        /\ place' = [place EXCEPT ![r] = @ + 1]
        /\ UNCHANGED <<bvars, main, latest, git, current, rpc, request, version, record, missing>>
    BY <1>18 DEF Promote
  <2>e. \A q \in Releases :
           rpc[q] \in {"inspecting", "promoting", "moving"} => q = r
    BY <1>18 DEF Promote
  <2>. HIDE DEF v, k
  <2>1. AtImage'
    BY <2>a, <2>b, <2>c, <2>d, <2>e DEF v, k
  <2>2. GroupInv'
    BY <2>a, <2>b, <2>c, <2>d, <2>e DEF v, k
  <2>3. VersionInv'
    BY <2>a, <2>b, <2>c, <2>d, <2>e DEF v, k
  <2>4. LoopInv'
    <3>. HIDE DEF LoopInvOf
    <3>. SUFFICES ASSUME NEW q \in Releases
                  PROVE  LoopInvOf(q)'
      BY DEF LoopInvOf
    <3>1. LoopInvOf(q)
      BY DEF LoopInvOf
    <3>2. CASE q = r
      <4>1. /\ rpc[r] = "promoting" /\ rpc'[r] = "promoting"
            /\ v = version[r] /\ version'[r] = v
            /\ k \in Int /\ k = place[r] /\ place'[r] = k + 1
            /\ record'[r] = record[r] /\ missing'[r] = missing[r]
        BY <2>a, <2>d DEF v, k
      <4>2. ASSUME NEW i \in Images
            PROVE  /\ record'[r][i] # None
                   /\ i \in missing'[r] /\ place'[r] <= i => stable'[i][version'[r]] = None
                   /\ i < place'[r] => stable'[i][version'[r]] # None
        <5>1. /\ record[r][i] # None
              /\ i \in missing[r] /\ k <= i => stable[i][v] = None
              /\ i < k => stable[i][v] # None
          BY <3>1, <3>2, <4>1 DEF LoopInvOf
        <5>2. i # k => stable'[i][v] = stable[i][v]
          BY <2>a, <2>b
        <5>. QED
          BY <2>a, <2>b, <4>1, <5>1, <5>2
      <4>. QED
        BY <3>2, <4>1, <4>2 DEF LoopInvOf
    <3>3. CASE q # r
      BY <3>1, <3>3, <2>d, <2>e DEF LoopInvOf
    <3>. QED
      BY <3>2, <3>3
  <2>5. ReleaseComplete'
    <3>1. \A u \in Released, i \in Images : stable'[i][u] = stable[i][u]
      BY <2>b, <2>c
    <3>. QED
      BY <3>1, <2>d
  <2>6. PublishedInv'
    BY <2>a, <2>b, <2>c, <2>d, <2>e DEF v, k
  <2>7. LatestComplete'
    <3>1. \A u \in Released, i \in Images : stable'[i][u] = stable[i][u]
      BY <2>b, <2>c
    <3>2. \A q \in Releases : rpc[q] = "done" /\ version[q] = current => current \in Released
      OBVIOUS
    <3>. QED
      BY <3>1, <3>2, <2>d
  <2>. HIDE DEF TypeOK, AtImage, GroupInv, VersionInv, LoopInv,
       ReleaseComplete, PublishedInv, LatestComplete
  <2>. QED
    BY <2>1, <2>2, <2>3, <2>4, <2>5, <2>6, <2>7 DEF IInv
<1>19. ASSUME NEW r \in Releases, PromoteFails(r) PROVE IInv'
  BY <1>19 DEF PromoteFails, SetStable, Fail, Leave
<1>20. ASSUME NEW r \in Releases, Publish(r) PROVE IInv'
  BY <1>20 DEF Publish
<1>21. ASSUME NEW r \in Releases, TagChecked(r) PROVE IInv'
  BY <1>21 DEF TagChecked
<1>22. ASSUME NEW r \in Releases, ReleaseFails(r) PROVE IInv'
  BY <1>22 DEF ReleaseFails, Fail, Leave
<1>23. ASSUME NEW r \in Releases, Dropped(r) PROVE IInv'
  <2>1. AtImage'
    BY <1>23 DEF Dropped
  <2>2. GroupInv'
    BY <1>23 DEF Dropped
  <2>3. VersionInv'
    BY <1>23 DEF Dropped
  <2>4. LoopInv'
    BY <1>23 DEF Dropped
  <2>5. ReleaseComplete'
    BY <1>23 DEF Dropped
  <2>6. PublishedInv'
    BY <1>23 DEF Dropped
  <2>7. LatestComplete'
    BY <1>23 DEF Dropped
  <2>. HIDE DEF TypeOK, AtImage, GroupInv, VersionInv, LoopInv,
       ReleaseComplete, PublishedInv, LatestComplete
  <2>. QED
    BY <2>1, <2>2, <2>3, <2>4, <2>5, <2>6, <2>7 DEF IInv
<1>24. ASSUME NEW r \in Releases, ReleaseAgain(r) PROVE IInv'
  BY <1>24 DEF ReleaseAgain
<1>25. ASSUME NEW r \in Releases, CheckCurrent(r) PROVE IInv'
  <2>1. AtImage'
    BY <1>25 DEF CheckCurrent
  <2>2. GroupInv'
    BY <1>25 DEF CheckCurrent
  <2>3. VersionInv'
    BY <1>25 DEF CheckCurrent
  <2>4. LoopInv'
    BY <1>25 DEF CheckCurrent
  <2>5. ReleaseComplete'
    BY <1>25 DEF CheckCurrent
  <2>6. PublishedInv'
    BY <1>25 DEF CheckCurrent
  <2>7. LatestComplete'
    BY <1>25 DEF CheckCurrent
  <2>. HIDE DEF TypeOK, AtImage, GroupInv, VersionInv, LoopInv,
       ReleaseComplete, PublishedInv, LatestComplete
  <2>. QED
    BY <2>1, <2>2, <2>3, <2>4, <2>5, <2>6, <2>7 DEF IInv
<1>26. ASSUME NEW r \in Releases, MoveLatest(r) PROVE IInv'
  BY <1>26 DEF MoveLatest, SetLatest
<1>27. ASSUME NEW r \in Releases, MoveFails(r) PROVE IInv'
  BY <1>27 DEF MoveFails, SetLatest, Leave
<1>28. ASSUME NEW r \in Releases, LatestFails(r) PROVE IInv'
  BY <1>28 DEF LatestFails, Leave
<1>29. ASSUME NEW r \in Releases, LatestAgain(r) PROVE IInv'
  BY <1>29 DEF LatestAgain, Take
<1>30. ASSUME NEW r \in Releases, ReleaseDone(r) PROVE IInv'
  <2>1. AtImage'
    BY <1>30 DEF ReleaseDone, Leave
  <2>2. GroupInv'
    BY <1>30 DEF ReleaseDone, Leave
  <2>3. VersionInv'
    BY <1>30 DEF ReleaseDone, Leave
  <2>4. LoopInv'
    BY <1>30 DEF ReleaseDone, Leave
  <2>5. ReleaseComplete'
    BY <1>30 DEF ReleaseDone, Leave
  <2>6. PublishedInv'
    BY <1>30 DEF ReleaseDone, Leave
  <2>7. LatestComplete'
    BY <1>30 DEF ReleaseDone, Leave
  <2>. HIDE DEF TypeOK, AtImage, GroupInv, VersionInv, LoopInv,
       ReleaseComplete, PublishedInv, LatestComplete
  <2>. QED
    BY <2>1, <2>2, <2>3, <2>4, <2>5, <2>6, <2>7 DEF IInv
<1>31. CASE MainAdvances
  BY <1>31 DEF MainAdvances
<1>32. CASE UNCHANGED vars
  BY <1>32 DEF vars, rvars
<1>. QED
  BY <1>1, <1>2, <1>3, <1>4, <1>5, <1>7, <1>8, <1>9, <1>10, <1>11,
     <1>12, <1>13, <1>14, <1>15, <1>16, <1>17, <1>18, <1>19, <1>20, <1>21,
     <1>22, <1>23, <1>24, <1>25, <1>26, <1>27, <1>28, <1>29, <1>30, <1>31,
     <1>32
     DEF Next, BuildRun, ReleaseJob, LatestJob

(* The initial states satisfy the inductive invariant. *)
LEMMA StartInv == Init => IInv
  BY DEF Init, BuildInit, NoDigests, IInv, TypeOK, BuildTypeOK, BuildLabels, ReleaseLabels,
     AtImage, GroupInv, VersionInv, LoopInv, LoopInvOf, ReleaseComplete, Released,
     PublishedInv, LatestComplete

(* The inductive invariant holds in every reachable state. *)
THEOREM Invariance == Spec => []IInv
  BY StartInv, InvStep, PTL DEF Spec

(* A released version has all its images, whatever failed on the way.      *)
THEOREM ReleaseCompletenessThm == Spec => []ReleaseComplete
  BY Invariance, PTL DEF IInv

(* After a successful run for the current release, all latest tags are its. *)
THEOREM LatestCompletenessThm == Spec => []LatestComplete
  BY Invariance, PTL DEF IInv

StablesStay ==
    \A i \in Images, v \in Versions :
        stable[i][v] # None => stable'[i][v] = stable[i][v]

(* No step moves a version tag. *)
LEMMA StableStep == IInv /\ [Next]_vars => StablesStay
<1>1. ASSUME IInv, NEW r \in Releases, Promote(r) PROVE StablesStay
  <2>. SUFFICES ASSUME NEW i \in Images, NEW v \in Versions, stable[i][v] # None,
                       SetStable(r), place[r] \in missing[r]
                PROVE  stable'[i][v] = stable[i][v]
    BY <1>1 DEF Promote, StablesStay
  <2>1. /\ place[r] \in Images /\ version[r] \in Versions
        /\ record[r][place[r]] \in Digests \cup {None}
        /\ stable[place[r]][version[r]] = None
    BY <1>1 DEF Promote, IInv, TypeOK, VersionInv, LoopInv, LoopInvOf
  <2>. QED
    BY <2>1, StableUpdate DEF SetStable, IInv
<1>2. ASSUME IInv, NEW r \in Releases, PromoteFails(r) PROVE StablesStay
  <2>. SUFFICES ASSUME NEW i \in Images, NEW v \in Versions, stable[i][v] # None,
                       SetStable(r), place[r] \in missing[r]
                PROVE  stable'[i][v] = stable[i][v]
    BY <1>2 DEF PromoteFails, StablesStay
  <2>1. /\ place[r] \in Images /\ version[r] \in Versions
        /\ record[r][place[r]] \in Digests \cup {None}
        /\ stable[place[r]][version[r]] = None
    BY <1>2 DEF PromoteFails, IInv, TypeOK, VersionInv, LoopInv, LoopInvOf
  <2>. QED
    BY <2>1, StableUpdate DEF SetStable, IInv
<1>3. ASSUME [Next]_vars, ~\E r \in Releases : Promote(r) \/ PromoteFails(r) PROVE stable' = stable
  BY <1>3
     DEF Fail, Leave, GoOn, Take, rvars, vars, published, MainAdvances,
         ReleaseJob, LatestJob, Next, Dispatch, Begin, Prepare, Inspect,
         Inspected, Publish, TagChecked, ReleaseFails, Dropped,
         ReleaseAgain, CheckCurrent, MoveLatest, MoveFails, LatestFails,
         LatestAgain, ReleaseDone
<1>. SUFFICES ASSUME IInv, [Next]_vars PROVE StablesStay
  OBVIOUS
<1>4. CASE \E r \in Releases : Promote(r) \/ PromoteFails(r)
  BY <1>4, <1>1, <1>2
<1>5. CASE ~\E r \in Releases : Promote(r) \/ PromoteFails(r)
  BY <1>5, <1>3 DEF StablesStay
<1>. QED
  BY <1>4, <1>5

(* Version tags never move, even while revision tags do. *)
THEOREM StableImmutability == Spec => StableImmutable
<1>1. IInv /\ [Next]_vars =>
          [\A i \in Images, v \in Versions :
               stable[i][v] # None => stable'[i][v] = stable[i][v]]_vars
  BY StableStep DEF StablesStay
<1>. QED
  BY <1>1, Invariance, PTL DEF Spec, StableImmutable

(* A new release is higher than all before it. *)
THEOREM VersionOrder == Spec => VersionsIncrease
<1>. DEFINE Good == \A v \in Versions :
                  git[v] = None /\ git'[v] # None => \A u \in Released : Lower(u, v)
<1>1. ASSUME IInv, NEW r \in Releases, Publish(r) PROVE Good
  BY <1>1 DEF Publish, IInv, TypeOK, VersionInv, Released
<1>2. ASSUME [Next]_vars, ~\E r \in Releases : Publish(r) PROVE git' = git
  BY <1>2
     DEF Fail, Leave, GoOn, Take, rvars, vars, published, MainAdvances,
         ReleaseJob, LatestJob, Next, Dispatch, Begin, Prepare, Inspect,
         Inspected, Promote, PromoteFails, TagChecked, ReleaseFails,
         Dropped, ReleaseAgain, CheckCurrent, MoveLatest, MoveFails,
         LatestFails, LatestAgain, ReleaseDone
<1>3. IInv /\ [Next]_vars => Good
  <2>. SUFFICES ASSUME IInv, [Next]_vars PROVE Good
    OBVIOUS
  <2>1. CASE \E r \in Releases : Publish(r)
    BY <2>1, <1>1
  <2>2. CASE ~\E r \in Releases : Publish(r)
    BY <2>2, <1>2
  <2>. QED
    BY <2>1, <2>2
<1>. QED
  BY <1>3, Invariance, PTL DEF Spec, VersionsIncrease

(* Latest tags only move to the image of the current release. *)
THEOREM LatestOrder == Spec => LatestFollows
<1>. DEFINE Good == \A i \in Images :
                  latest'[i] # latest[i] =>
                      current # None /\ latest'[i] = stable[i][current]
<1>1. ASSUME IInv, NEW r \in Releases, MoveLatest(r) PROVE Good
  BY <1>1 DEF MoveLatest, SetLatest, IInv, TypeOK, VersionInv, PublishedInv
<1>2. ASSUME IInv, NEW r \in Releases, MoveFails(r) PROVE Good
  BY <1>2 DEF MoveFails, SetLatest, IInv, TypeOK, VersionInv, PublishedInv
<1>3. ASSUME [Next]_vars, ~\E r \in Releases : MoveLatest(r) \/ MoveFails(r) PROVE latest' = latest
  BY <1>3
     DEF Fail, Leave, GoOn, Take, rvars, vars, published, MainAdvances,
         ReleaseJob, LatestJob, Next, Dispatch, Begin, Prepare, Inspect,
         Inspected, Promote, PromoteFails, Publish, TagChecked,
         ReleaseFails, Dropped, ReleaseAgain, CheckCurrent, LatestFails,
         LatestAgain, ReleaseDone
<1>4. IInv /\ [Next]_vars => Good
  <2>. SUFFICES ASSUME IInv, [Next]_vars PROVE Good
    OBVIOUS
  <2>1. CASE \E r \in Releases : MoveLatest(r) \/ MoveFails(r)
    BY <2>1, <1>1, <1>2
  <2>2. CASE ~\E r \in Releases : MoveLatest(r) \/ MoveFails(r)
    BY <2>2, <1>3
  <2>. QED
    BY <2>1, <2>2
<1>. QED
  BY <1>4, Invariance, PTL DEF Spec, LatestFollows

-----------------------------------------------------------------------------
(* Release implements Catalogue *)

(* A step that publishes nothing and moves no latest tag changes nothing in *)
(* the catalogue: the version tags it may write are of no release.          *)
LEMMA CatalogueStays ==
    ASSUME IInv, StablesStay, UNCHANGED <<git, current, latest>>
    PROVE  UNCHANGED C!cvars
<1>1. ASSUME NEW v \in Versions, git[v] # None PROVE Entry(v)' = Entry(v)
  <2>1. \A i \in Images : stable'[i][v] = stable[i][v]
    BY <1>1 DEF IInv, ReleaseComplete, Released, StablesStay
  <2>. QED
    BY <2>1 DEF Entry
<1>2. CatalogueOf' = CatalogueOf
  BY <1>1 DEF CatalogueOf
<1>. QED
  BY <1>2 DEF C!cvars

(* A release is published whole. *)
LEMMA PublishRefines ==
    ASSUME IInv, NEW r \in Releases, Publish(r)
    PROVE  C!Next
<1>0. PICK w \in Versions : w = version[r]
  BY DEF Publish, IInv, TypeOK, VersionInv
<1>1. /\ w \in Versions /\ git[w] = None /\ current' = w
      /\ git' = [git EXCEPT ![w] = request[r].sha] /\ UNCHANGED <<stable, latest>>
      /\ \A u \in Released : Lower(u, w)
  BY <1>0 DEF Publish, IInv, VersionInv
<1>2. git \in [Versions -> Commits \cup {None}] /\ request[r].sha \in Commits
  BY DEF Publish, IInv, TypeOK, VersionInv, Requests
<1>3. \A i \in Images : stable[i][w] \in Digests
  <2>1. place[r] = NumImages + 1 /\ rpc[r] = "promoting"
    BY DEF Publish, IInv, TypeOK
  <2>2. \A i \in Images : i < place[r]
    BY <2>1
  <2>3. \A i \in Images : stable[i][w] # None
    BY <1>0, <2>1, <2>2 DEF IInv, LoopInv, LoopInvOf
  <2>4. \A i \in Images : stable[i][w] \in Digests \cup {None}
    BY <1>1 DEF IInv, TypeOK
  <2>. QED
    BY <2>3, <2>4
<1>4. git'[w] = request[r].sha /\ request[r].sha # None
      /\ \A v \in Versions : v # w => git'[v] = git[v]
  BY <1>1, <1>2
<1>5. Entry(w)' \in C!Entries
  <2>1. [i \in Images |-> stable'[i][w]] \in [Images -> Digests]
    BY <1>1, <1>3
  <2>2. git'[w] \in Commits
    BY <1>2, <1>4
  <2>. QED
    BY <2>1, <2>2 DEF Entry, C!Entries
<1>6. CatalogueOf' = [CatalogueOf EXCEPT ![w] = Entry(w)']
  <2>1. \A v \in Versions : v # w => Entry(v)' = Entry(v)
    BY <1>1, <1>4 DEF Entry
  <2>2. git'[w] # None
    BY <1>2, <1>4
  <2>3. \A v \in Versions : CatalogueOf'[v] = IF v = w THEN Entry(w)' ELSE CatalogueOf[v]
    BY <1>4, <2>1, <2>2 DEF CatalogueOf
  <2>4. CatalogueOf' = [v \in Versions |-> CatalogueOf'[v]]
        /\ CatalogueOf = [v \in Versions |-> CatalogueOf[v]]
    BY DEF CatalogueOf
  <2>. QED
    BY <2>3, <2>4
<1>7. CatalogueOf[w] = None /\ \A u \in Versions : CatalogueOf[u] # None => u \in Released
  BY <1>1 DEF CatalogueOf, Released
<1>8. C!Publish(w)
  BY <1>1, <1>5, <1>6, <1>7 DEF C!Publish, C!Released
<1>. QED
  BY <1>8 DEF C!Next

(* A latest tag is moved to the newest release. *)
LEMMA MoveRefines ==
    ASSUME IInv, NEW r \in Releases, MoveLatest(r) \/ MoveFails(r)
    PROVE  C!Next
<1>0. PICK i \in Images : i = place[r]
  BY DEF MoveLatest, MoveFails
<1>1. /\ latest' = [latest EXCEPT ![i] = record[r][i]]
      /\ UNCHANGED <<stable, git, current>> /\ rpc[r] = "moving"
  BY <1>0 DEF MoveLatest, MoveFails, SetLatest
<1>2. current \in Versions /\ git[current] # None /\ record[r][i] = stable[i][current]
  BY <1>1 DEF IInv, TypeOK, PublishedInv, VersionInv
<1>3. CatalogueOf[current].digests[i] = record[r][i]
  BY <1>1, <1>2 DEF CatalogueOf, Entry
<1>4. CatalogueOf' = CatalogueOf
  BY <1>1 DEF CatalogueOf, Entry
<1>5. C!Follow(i)
  BY <1>1, <1>2, <1>3, <1>4 DEF C!Follow
<1>. QED
  BY <1>5 DEF C!Next

LEMMA ReleaseStepRefines == IInv /\ [Next]_vars => [C!Next]_(C!cvars)
<1>. SUFFICES ASSUME IInv, [Next]_vars PROVE [C!Next]_(C!cvars)
  OBVIOUS
<1>1. CASE \E r \in Releases : Publish(r)
  BY <1>1, PublishRefines
<1>2. CASE \E r \in Releases : MoveLatest(r) \/ MoveFails(r)
  BY <1>2, MoveRefines
<1>3. CASE ~\E r \in Releases : Publish(r) \/ MoveLatest(r) \/ MoveFails(r)
  <2>1. UNCHANGED <<git, current, latest>>
    BY <1>3
       DEF Fail, Leave, GoOn, Take, rvars, vars, published, MainAdvances,
           ReleaseJob, LatestJob, Next, Dispatch, Begin, Prepare, Inspect,
           Inspected, Promote, PromoteFails, TagChecked, ReleaseFails,
           Dropped, ReleaseAgain, CheckCurrent, LatestFails, LatestAgain, ReleaseDone
  <2>. QED
    BY <2>1, StableStep, CatalogueStays
<1>. QED
  BY <1>1, <1>2, <1>3

(* Whatever runs fail half way, start again and overtake each other, users  *)
(* of the registry see whole versions that appear in order and stay, and    *)
(* latest tags that follow the newest.                                      *)
THEOREM ReleaseImplementsCatalogue == Spec => ImplementsCatalogue
<1>1. Init => C!Init
  BY DEF Init, C!Init, CatalogueOf
<1>. QED
  BY <1>1, ReleaseStepRefines, Invariance, PTL DEF Spec, C!Spec, ImplementsCatalogue

(* What the abstract specification promises by itself: the newest release   *)
(* is the highest, and latest tags are those of releases.                   *)
LEMMA CatalogueGrows ==
    ASSUME NEW v \in Versions, C!Publish(v)
    PROVE  /\ CatalogueOf[v] = None
           /\ \A u \in Versions : u # v => CatalogueOf'[u] = CatalogueOf[u]
           /\ current' = v /\ latest' = latest
           /\ C!Released' = C!Released \cup {v}
<1>1. /\ CatalogueOf' = [CatalogueOf EXCEPT ![v] = CatalogueOf'[v]]
      /\ CatalogueOf'[v] # None /\ CatalogueOf[v] = None
      /\ current' = v /\ latest' = latest
  BY EntryAssumption DEF C!Publish, CatalogueOf
<1>2. \A u \in Versions : u # v => CatalogueOf'[u] = CatalogueOf[u]
  BY <1>1 DEF CatalogueOf
<1>3. C!Released' = C!Released \cup {v}
  BY <1>1, <1>2 DEF C!Released
<1>. QED
  BY <1>1, <1>2, <1>3

LEMMA CatalogueIsOrdered == C!Spec => [](C!NewestIsHighest /\ C!LatestIsReleased)
<1>. DEFINE Good == C!NewestIsHighest /\ C!LatestIsReleased
<1>1. C!Init => Good
  BY DEF C!Init, C!NewestIsHighest, C!LatestIsReleased, C!Released
<1>2. Good /\ [C!Next]_(C!cvars) => Good'
  <2>. SUFFICES ASSUME Good, [C!Next]_(C!cvars) PROVE Good'
    OBVIOUS
  <2>1. ASSUME NEW v \in Versions, C!Publish(v) PROVE Good'
    <3>1. C!NewestIsHighest'
      <4>1. current' = v /\ v # None /\ C!Released' = C!Released \cup {v}
        BY <2>1, CatalogueGrows
      <4>2. \A u \in C!Released : Lower(u, v)
        BY <2>1 DEF C!Publish
      <4>. QED
        BY <4>1, <4>2 DEF C!NewestIsHighest
    <3>2. C!LatestIsReleased'
      <4>. SUFFICES ASSUME NEW i \in Images, latest'[i] # None
                    PROVE  \E u \in C!Released' : latest'[i] = CatalogueOf'[u].digests[i]
        BY DEF C!LatestIsReleased
      <4>1. PICK u \in C!Released : latest[i] = CatalogueOf[u].digests[i]
        BY <2>1, CatalogueGrows DEF C!LatestIsReleased
      <4>2. u \in Versions /\ CatalogueOf[u] # None
        BY DEF C!Released
      <4>3. u # v /\ CatalogueOf'[u] = CatalogueOf[u] /\ u \in C!Released'
        BY <2>1, <4>2, CatalogueGrows
      <4>. QED
        BY <2>1, <4>1, <4>3, CatalogueGrows
    <3>. QED
      BY <3>1, <3>2
  <2>2. ASSUME NEW i \in Images, C!Follow(i) PROVE Good'
    <3>1. /\ current # None /\ current' = current /\ CatalogueOf' = CatalogueOf
          /\ latest' = [latest EXCEPT ![i] = CatalogueOf[current].digests[i]]
      BY <2>2 DEF C!Follow
    <3>2. C!Released' = C!Released
      BY <3>1 DEF C!Released
    <3>3. C!NewestIsHighest'
      BY <3>1, <3>2 DEF C!NewestIsHighest
    <3>4. current \in C!Released
      BY <3>1 DEF C!NewestIsHighest
    <3>5. \A x \in Images : latest'[x] # None =>
              \E u \in C!Released : latest'[x] = CatalogueOf[u].digests[x]
      BY <3>1, <3>4 DEF C!LatestIsReleased
    <3>6. C!LatestIsReleased'
      BY <3>1, <3>2, <3>5 DEF C!LatestIsReleased
    <3>. QED
      BY <3>3, <3>6
  <2>3. CASE UNCHANGED C!cvars
    BY <2>3 DEF C!cvars, C!NewestIsHighest, C!LatestIsReleased, C!Released
  <2>. QED
    BY <2>1, <2>2, <2>3 DEF C!Next
<1>. QED
  BY <1>1, <1>2, PTL DEF C!Spec

(* The abstract specification counts the same versions as released.         *)
LEMMA SameReleased == IInv => C!Released = Released
<1>. SUFFICES ASSUME IInv PROVE C!Released = Released
  OBVIOUS
<1>1. ASSUME NEW v \in Released PROVE Entry(v) \in C!Entries
  <2>1. v \in Versions /\ git[v] \in Commits
    BY DEF Released, IInv, TypeOK
  <2>2. \A i \in Images : stable[i][v] \in Digests
    BY <2>1 DEF IInv, TypeOK, ReleaseComplete
  <2>. QED
    BY <2>1, <2>2 DEF Entry, C!Entries
<1>. QED
  BY <1>1, EntryAssumption DEF C!Released, Released, CatalogueOf

(* GitHub and next-version.sh agree on which release is the last.           *)
THEOREM CurrentHighest == Spec => []CurrentIsHighest
<1>1. IInv /\ C!NewestIsHighest => CurrentIsHighest
  BY SameReleased DEF C!NewestIsHighest, CurrentIsHighest
<1>. QED
  BY <1>1, ReleaseImplementsCatalogue, CatalogueIsOrdered, Invariance, PTL
     DEF ImplementsCatalogue

(* Latest tags are those of releases. *)
THEOREM LatestReleased == Spec => []LatestIsReleased
<1>1. ASSUME IInv, C!LatestIsReleased PROVE LatestIsReleased
  <2>. SUFFICES ASSUME NEW i \in Images, latest[i] # None
                PROVE  \E v \in Released : latest[i] = stable[i][v]
    BY DEF LatestIsReleased
  <2>1. PICK v \in C!Released : latest[i] = CatalogueOf[v].digests[i]
    BY <1>1 DEF C!LatestIsReleased
  <2>2. v \in Released
    BY <1>1, SameReleased
  <2>3. CatalogueOf[v].digests[i] = stable[i][v]
    BY <2>2 DEF Released, CatalogueOf, Entry
  <2>. QED
    BY <2>1, <2>2, <2>3
<1>. QED
  BY <1>1, ReleaseImplementsCatalogue, CatalogueIsOrdered, Invariance, PTL
     DEF ImplementsCatalogue

-----------------------------------------------------------------------------
(* Revision tags, where all runs for a commit are of one branch and the     *)
(* registry answers.                                                        *)

OneBranchPerCommit ==
    \A a, b \in Builds : CommitOf[a] = CommitOf[b] => GroupOf[a] = GroupOf[b]

Promoting == {"inspecting", "creating", "verifying"}

Matches(i, b) == revision[i][CommitOf[b]] = suite[b][i]

(* A suite is complete before it is promoted, and stays as it is.           *)
SuiteInv ==
    \A b \in Builds :
        /\ \/ \A i \in Images : suite[b][i] = None
           \/ \A i \in Images : suite[b][i] # None
        /\ bpc[b] = "building" => \A i \in Images : suite[b][i] = None
        /\ bpc[b] \in Promoting => \A i \in Images : suite[b][i] # None

(* A run has found or set its digests up to `next`.                         *)
PassedInv ==
    \A b \in Builds :
        /\ bpc[b] \notin Promoting => next[b] = 1
        /\ bpc[b] \in {"creating", "verifying"} => next[b] \in Images
        /\ bpc[b] \in Promoting => \A i \in Images : i < next[b] => Matches(i, b)
        /\ bpc[b] = "creating" =>
               revision[next[b]][CommitOf[b]] \in {None, suite[b][next[b]]}
        /\ bpc[b] = "verifying" => Matches(next[b], b)

(* What a commit has of tags is an initial piece of one run's suite.        *)
PieceOf(c, b) ==
    /\ CommitOf[b] = c
    /\ \A i \in Images : revision[i][c] \in {None, suite[b][i]}

PieceInv ==
    \A c \in Commits, i \in Images :
        revision[i][c] # None =>
            /\ \A j \in Images : j < i => revision[j][c] # None
            /\ \E b \in Builds : PieceOf(c, b)

HolderInv ==
    \A b \in Builds :
        bpc[b] = "building" \/ bpc[b] \in Promoting => group[GroupOf[b]] = b

PromotionInv ==
    /\ BuildTypeOK
    /\ group \in [Groups -> Builds \cup Releases \cup {None}]
    /\ HolderInv
    /\ SuiteInv
    /\ PassedInv
    /\ PieceInv

(* What a release run has got to matches its commit's revision tags, and    *)
(* the version's tags match what it has got to.                             *)
RecordInvOf(r) ==
    /\ rpc[r] = "inspecting" =>
           \A i \in Images :
               i < place[r] =>
                   /\ record[r][i] = revision[i][request[r].sha]
                   /\ i \notin missing[r] => stable[i][version[r]] = record[r][i]
    /\ rpc[r] = "promoting" =>
           \A i \in Images :
               /\ record[r][i] = revision[i][request[r].sha]
               /\ i \notin missing[r] \/ i < place[r] =>
                      stable[i][version[r]] = record[r][i]

RecordInv == \A r \in Releases : RecordInvOf(r)

MatchInv ==
    /\ IInv
    /\ PromotionInv
    /\ RecordInv
    /\ ReleaseMatchesRevision

(* One revision tag is written. *)
LEMMA RevisionUpdate ==
    ASSUME BuildTypeOK, NEW i \in Images, NEW c \in Commits, NEW d \in Digests \cup {None},
           revision' = [revision EXCEPT ![i][c] = d]
    PROVE  /\ revision' \in [Images -> [Commits -> Digests \cup {None}]]
           /\ revision'[i][c] = d
           /\ \A x \in Images, y \in Commits :
                  x # i \/ y # c => revision'[x][y] = revision[x][y]
<1>. revision \in [Images -> [Commits -> Digests \cup {None}]]
  BY DEF BuildTypeOK
<1>. HIDE DEF Images
<1>. QED
  BY TableUpdate

(* Two runs for one commit are not past the queue at the same time. *)
LEMMA OneRunPerCommit ==
    ASSUME OneBranchPerCommit, HolderInv, NEW a \in Builds, NEW b \in Builds,
           bpc[a] \in Promoting, bpc[b] \in Promoting, CommitOf[a] = CommitOf[b]
    PROVE  a = b
  BY DEF OneBranchPerCommit, HolderInv

(* A tag that is set names what the run's suite has for it; the commit's    *)
(* tags are still an initial piece of one suite.                            *)
LEMMA TagIsSet ==
    ASSUME OneBranchPerCommit, PromotionInv, NEW b \in Builds, bpc[b] = "creating",
           SetRevision(b), UNCHANGED suite,
           \A a \in Builds : a # b => bpc'[a] = bpc[a] /\ next'[a] = next[a],
           \/ next'[b] = next[b] /\ bpc'[b] = "verifying"
           \/ next'[b] = 1 /\ bpc'[b] \notin Promoting
    PROVE  /\ \A i \in Images, c \in Commits :
                  revision[i][c] # None => revision'[i][c] = revision[i][c]
           /\ PassedInv'
           /\ PieceInv'
<1>. DEFINE n == next[b]
            k == CommitOf[b]
            d == suite[b][n]
<1>1. /\ n \in Images /\ k \in Commits /\ d \in Digests \cup {None} /\ d # None
      /\ revision[n][k] \in {None, d}
      /\ \A i \in Images : i < n => revision[i][k] = suite[b][i]
      /\ \A i \in Images : suite[b][i] # None
  BY DEF PromotionInv, PassedInv, SuiteInv, BuildTypeOK, Promoting, Matches
<1>2. /\ revision'[n][k] = d
      /\ \A x \in Images, y \in Commits :
             x # n \/ y # k => revision'[x][y] = revision[x][y]
  <2>1. revision' = [revision EXCEPT ![n][k] = d]
    BY DEF SetRevision
  <2>2. revision \in [Images -> [Commits -> Digests \cup {None}]]
    BY DEF PromotionInv, BuildTypeOK
  <2>. HIDE DEF n, k, d, Images
  <2>3. LET g == [revision EXCEPT ![n][k] = d]
        IN /\ g[n][k] = d
           /\ \A x \in Images, y \in Commits : x # n \/ y # k => g[x][y] = revision[x][y]
    BY <1>1, <2>2, TableUpdate
  <2>. QED
    BY <2>1, <2>3
<1>. HIDE DEF n, k, d
<1>3. \A i \in Images, c \in Commits :
          revision[i][c] # None => revision'[i][c] = revision[i][c]
  BY <1>1, <1>2
<1>4. PassedInv'
  <2>. SUFFICES ASSUME NEW a \in Builds
                PROVE  /\ bpc'[a] \notin Promoting => next'[a] = 1
                       /\ bpc'[a] \in {"creating", "verifying"} => next'[a] \in Images
                       /\ bpc'[a] \in Promoting =>
                              \A i \in Images : i < next'[a] =>
                                  revision'[i][CommitOf[a]] = suite[a][i]
                       /\ bpc'[a] = "creating" =>
                              revision'[next'[a]][CommitOf[a]] \in {None, suite[a][next'[a]]}
                       /\ bpc'[a] = "verifying" =>
                              revision'[next'[a]][CommitOf[a]] = suite[a][next'[a]]
    BY DEF PassedInv, Matches
  <2>1. CASE a = b
    BY <1>1, <1>2, <2>1 DEF n, k, d, Promoting
  <2>2. CASE a # b
    <3>1. bpc'[a] = bpc[a] /\ next'[a] = next[a]
      BY <2>2
    <3>2. bpc[a] \in Promoting => CommitOf[a] # k
      BY <2>2, OneRunPerCommit DEF k, PromotionInv, Promoting
    <3>3. CommitOf[a] \in Commits
      OBVIOUS
    <3>4. bpc[a] \in Promoting =>
              \A i \in Images : revision'[i][CommitOf[a]] = revision[i][CommitOf[a]]
      BY <1>2, <3>2, <3>3
    <3>5. /\ bpc[a] \notin Promoting => next[a] = 1
          /\ bpc[a] \in {"creating", "verifying"} => next[a] \in Images
          /\ bpc[a] \in Promoting =>
                 \A i \in Images : i < next[a] => revision[i][CommitOf[a]] = suite[a][i]
          /\ bpc[a] = "creating" =>
                 revision[next[a]][CommitOf[a]] \in {None, suite[a][next[a]]}
          /\ bpc[a] = "verifying" =>
                 revision[next[a]][CommitOf[a]] = suite[a][next[a]]
      BY DEF PromotionInv, PassedInv, Matches
    <3>. QED
      BY <3>1, <3>4, <3>5 DEF Promoting
  <2>. QED
    BY <2>1, <2>2
<1>5. PieceInv'
  <2>. SUFFICES ASSUME NEW c \in Commits, NEW i \in Images, revision'[i][c] # None
                PROVE  /\ \A j \in Images : j < i => revision'[j][c] # None
                       /\ \E a \in Builds : PieceOf(c, a)'
    BY DEF PieceInv
  <2>1. CASE c # k \/ revision[n][k] # None
    <3>1. \A j \in Images : revision'[j][c] = revision[j][c]
      BY <1>1, <1>2, <2>1
    <3>2. \A a \in Builds : PieceOf(c, a) => PieceOf(c, a)'
      BY <3>1 DEF PieceOf
    <3>. QED
      BY <3>1, <3>2 DEF PromotionInv, PieceInv
  <2>2. CASE c = k /\ revision[n][k] = None
    <3>1. \A j \in Images : j > n => revision[j][k] = None
      BY <1>1, <2>2 DEF PromotionInv, PieceInv
    <3>2. \A j \in Images : j < n => revision'[j][k] = suite[b][j]
      BY <1>1, <1>2
    <3>3. \A j \in Images : j > n => revision'[j][k] = None
      BY <1>1, <1>2, <3>1
    <3>4. revision'[n][k] = suite[b][n] /\ n \in Int
      BY <1>1, <1>2 DEF d
    <3>5. \A j \in Images : j <= n => revision'[j][k] # None /\ revision'[j][k] = suite[b][j]
      BY <1>1, <3>2, <3>4
    <3>6. i <= n
      BY <2>2, <3>3, <3>4
    <3>7. \A j \in Images : revision'[j][k] \in {None, suite[b][j]}
      BY <3>3, <3>4, <3>5
    <3>8. PieceOf(c, b)'
      BY <2>2, <3>7 DEF k, PieceOf
    <3>. QED
      BY <2>2, <3>4, <3>5, <3>6, <3>8
  <2>. QED
    BY <2>1, <2>2
<1>. QED
  BY <1>3, <1>4, <1>5

RevisionsStay ==
    \A i \in Images, c \in Commits :
        revision[i][c] # None => revision'[i][c] = revision[i][c]

(* A step that writes no revision tag and builds nothing keeps the piece.   *)
LEMMA PieceStays ==
    ASSUME PromotionInv, UNCHANGED <<revision, suite>>
    PROVE  PieceInv' /\ RevisionsStay
<1>1. \A c \in Commits, a \in Builds : PieceOf(c, a) => PieceOf(c, a)'
  BY DEF PieceOf
<1>. QED
  BY <1>1 DEF PromotionInv, PieceInv, RevisionsStay

(* The tags of an image are created: the moving tag keeps its type, too. *)
LEMMA AliasIsSet ==
    ASSUME PromotionInv, NEW b \in Builds, next[b] \in Images,
           SetAlias(b) \/ UNCHANGED alias
    PROVE  alias' \in [Images -> [Aliases -> Digests \cup {None}]]
<1>1. CASE UNCHANGED alias
  BY <1>1 DEF PromotionInv, BuildTypeOK
<1>2. CASE AliasOf[b] # None /\ SetAlias(b)
  <2>1. /\ AliasOf[b] \in Aliases /\ suite[b][next[b]] \in Digests \cup {None}
        /\ alias' = [alias EXCEPT ![next[b]][AliasOf[b]] = suite[b][next[b]]]
    BY <1>2 DEF SetAlias, PromotionInv, BuildTypeOK
  <2>. QED
    BY <2>1, AliasUpdate DEF PromotionInv
<1>. QED
  BY <1>1, <1>2 DEF SetAlias

(* A step of an image run keeps the invariant and moves no revision tag. *)
LEMMA BuildStep ==
    ASSUME OneBranchPerCommit, ~Unreliable, PromotionInv, NEW b \in Builds, BuildRun(b)
    PROVE  PromotionInv' /\ RevisionsStay
<1>. USE DEF Promoting, At, BuildLabels
<1>. DEFINE Frame == /\ BuildTypeOK'
                     /\ group' \in [Groups -> Builds \cup Releases \cup {None}]
                     /\ HolderInv' /\ SuiteInv' /\ PassedInv'
<1>1. CASE BuildStart(b)
  <2>1. BuildTypeOK' /\ group' \in [Groups -> Builds \cup Releases \cup {None}]
    BY <1>1 DEF BuildStart, PromotionInv, BuildTypeOK
  <2>2. HolderInv'
    BY <1>1 DEF BuildStart, PromotionInv, BuildTypeOK, HolderInv
  <2>3. Built(b) <=> \E i \in Images : suite[b][i] # None
    BY DEF Built, PromotionInv, BuildTypeOK
  <2>4. SuiteInv' /\ PassedInv'
    <3>1. next[b] = 1
      BY <1>1 DEF BuildStart, PromotionInv, PassedInv
    <3>2. SuiteInv'
      <4>1. /\ \A a \in Builds : a # b => bpc'[a] = bpc[a]
            /\ bpc'[b] = IF Built(b) THEN "inspecting" ELSE "building"
            /\ UNCHANGED suite
        BY <1>1 DEF BuildStart, PromotionInv, BuildTypeOK
      <4>. HIDE DEF Images
      <4>. QED
        BY <2>3, <4>1 DEF PromotionInv, SuiteInv
    <3>3. PassedInv'
      BY <1>1, <3>1 DEF BuildStart, PromotionInv, BuildTypeOK, PassedInv, Matches
    <3>. QED
      BY <3>2, <3>3
  <2>. QED
    BY <1>1, <2>1, <2>2, <2>4, PieceStays DEF PromotionInv, BuildStart
<1>2. CASE BuildDropped(b)
  <2>1. Frame
    BY <1>2 DEF BuildDropped, PromotionInv, BuildTypeOK, HolderInv, SuiteInv, PassedInv, Matches
  <2>. QED
    BY <1>2, <2>1, PieceStays DEF PromotionInv, BuildDropped
<1>3. CASE BuildSuite(b)
  <2>1. PICK digests \in [Images -> Digests] : suite' = [suite EXCEPT ![b] = digests]
    BY <1>3 DEF BuildSuite
  <2>2. \A i \in Images : suite[b][i] = None /\ digests[i] # None
    BY <1>3 DEF BuildSuite, PromotionInv, SuiteInv
  <2>3. /\ UNCHANGED <<revision, next>> /\ suite'[b] = digests
        /\ \A a \in Builds : a # b => suite'[a] = suite[a]
    BY <1>3, <2>1 DEF BuildSuite, PromotionInv, BuildTypeOK
  <2>4. BuildTypeOK' /\ group' \in [Groups -> Builds \cup Releases \cup {None}] /\ HolderInv'
    BY <1>3, <2>1 DEF BuildSuite, PromotionInv, BuildTypeOK, HolderInv
  <2>5. SuiteInv' /\ PassedInv'
    <3>1. \A a \in Builds : bpc'[a] = IF a = b THEN "inspecting" ELSE bpc[a]
      BY <1>3 DEF BuildSuite, PromotionInv, BuildTypeOK
    <3>2. next[b] = 1
      BY <1>3 DEF BuildSuite, PromotionInv, PassedInv
    <3>3. SuiteInv'
      BY <2>2, <2>3, <3>1 DEF PromotionInv, SuiteInv
    <3>4. PassedInv'
      BY <2>3, <3>1, <3>2 DEF PromotionInv, PassedInv, Matches
    <3>. QED
      BY <3>3, <3>4
  <2>6. ASSUME NEW c \in Commits, NEW a \in Builds, PieceOf(c, a),
               NEW i \in Images, revision[i][c] # None
        PROVE  PieceOf(c, a)'
    <3>1. a # b
      BY <2>2, <2>6 DEF PieceOf
    <3>. QED
      BY <2>3, <2>6, <3>1 DEF PieceOf
  <2>7. PieceInv' /\ RevisionsStay
    BY <2>3, <2>6 DEF PromotionInv, PieceInv, RevisionsStay
  <2>. QED
    BY <2>4, <2>5, <2>7 DEF PromotionInv
<1>4. CASE InspectRevision(b)
  <2>1. Frame
    BY <1>4 DEF InspectRevision, PromotionInv, BuildTypeOK, HolderInv, SuiteInv, PassedInv, Matches
  <2>. QED
    BY <1>4, <2>1, PieceStays DEF PromotionInv, InspectRevision
<1>5. CASE InspectDiffers(b)
  <2>1. Frame
    BY <1>5 DEF InspectDiffers, End, PromotionInv, BuildTypeOK, HolderInv, SuiteInv, PassedInv, Matches
  <2>. QED
    BY <1>5, <2>1, PieceStays DEF PromotionInv, InspectDiffers, End
<1>6. CASE CreateTags(b)
  <2>1. /\ bpc[b] = "creating" /\ SetRevision(b) /\ SetAlias(b) /\ At(b, "verifying")
        /\ UNCHANGED <<group, suite, next>> /\ next[b] \in Images
    BY <1>6 DEF CreateTags, PromotionInv, PassedInv
  <2>2. /\ \A a \in Builds : a # b => bpc'[a] = bpc[a] /\ next'[a] = next[a]
        /\ next'[b] = next[b] /\ bpc'[b] = "verifying"
    BY <2>1 DEF PromotionInv, BuildTypeOK
  <2>3. RevisionsStay /\ PassedInv' /\ PieceInv'
    <3>1. UNCHANGED suite
      BY <2>1
    <3>2. bpc[b] = "creating" /\ SetRevision(b)
      BY <2>1
    <3>. HIDE DEF Images
    <3>. QED
      BY <2>2, <3>1, <3>2, TagIsSet DEF RevisionsStay
  <2>4. BuildTypeOK'
    <3>1. /\ CommitOf[b] \in Commits /\ suite[b][next[b]] \in Digests \cup {None}
          /\ BuildTypeOK /\ next[b] \in Images
          /\ revision' = [revision EXCEPT ![next[b]][CommitOf[b]] = suite[b][next[b]]]
      BY <2>1 DEF PromotionInv, BuildTypeOK, SetRevision
    <3>2. revision' \in [Images -> [Commits -> Digests \cup {None}]]
      BY <3>1, RevisionUpdate
    <3>. QED
      BY <2>1, <3>2, AliasIsSet DEF PromotionInv, BuildTypeOK
  <2>5. HolderInv' /\ SuiteInv' /\ group' \in [Groups -> Builds \cup Releases \cup {None}]
    BY <2>1 DEF PromotionInv, BuildTypeOK, HolderInv, SuiteInv
  <2>. QED
    BY <2>3, <2>4, <2>5 DEF PromotionInv
<1>7. CASE CreateFails(b)
  <2>1. /\ bpc[b] = "creating"
        /\ SetRevision(b) \/ UNCHANGED revision
        /\ SetAlias(b) \/ UNCHANGED alias
        /\ bpc' = [bpc EXCEPT ![b] = "failed"] /\ next' = [next EXCEPT ![b] = 1]
        /\ group' = [group EXCEPT ![GroupOf[b]] = None]
        /\ UNCHANGED suite /\ next[b] \in Images
    BY <1>7 DEF CreateFails, End, PromotionInv, PassedInv
  <2>2. /\ \A a \in Builds : a # b => bpc'[a] = bpc[a] /\ next'[a] = next[a]
        /\ bpc'[b] \notin Promoting /\ next'[b] = 1
    BY <2>1 DEF PromotionInv, BuildTypeOK
  <2>3. RevisionsStay /\ PassedInv' /\ PieceInv'
    <3>1. CASE SetRevision(b)
      BY <1>7, <2>1, <2>2, <3>1, TagIsSet DEF RevisionsStay, CreateFails
    <3>2. CASE UNCHANGED revision
      BY <2>1, <2>2, <3>2, PieceStays DEF PromotionInv, PassedInv, Matches
    <3>. QED
      BY <2>1, <3>1, <3>2
  <2>4. BuildTypeOK'
    <3>1. revision' \in [Images -> [Commits -> Digests \cup {None}]]
      <4>1. CASE UNCHANGED revision
        BY <4>1 DEF PromotionInv, BuildTypeOK
      <4>2. CASE SetRevision(b)
        <5>1. /\ CommitOf[b] \in Commits /\ suite[b][next[b]] \in Digests \cup {None}
              /\ BuildTypeOK /\ next[b] \in Images
              /\ revision' = [revision EXCEPT ![next[b]][CommitOf[b]] = suite[b][next[b]]]
          BY <2>1, <4>2 DEF PromotionInv, BuildTypeOK, SetRevision
        <5>. QED
          BY <5>1, RevisionUpdate
      <4>. QED
        BY <2>1, <4>1, <4>2
    <3>2. alias' \in [Images -> [Aliases -> Digests \cup {None}]]
      BY <2>1, AliasIsSet
    <3>. QED
      BY <2>1, <3>1, <3>2 DEF PromotionInv, BuildTypeOK
  <2>5. HolderInv' /\ SuiteInv' /\ group' \in [Groups -> Builds \cup Releases \cup {None}]
    BY <1>7, <2>1 DEF CreateFails, PromotionInv, BuildTypeOK, HolderInv, SuiteInv
  <2>. QED
    BY <2>3, <2>4, <2>5 DEF PromotionInv
<1>8. CASE VerifyTags(b)
  <2>1. /\ bpc[b] = "verifying" /\ next[b] \in Images
        /\ \A a \in Builds : a # b => bpc'[a] = bpc[a] /\ next'[a] = next[a]
        /\ bpc'[b] = "inspecting" /\ next'[b] = next[b] + 1
        /\ UNCHANGED <<group, revision, alias, suite>>
    BY <1>8 DEF VerifyTags, PromotionInv, BuildTypeOK, PassedInv
  <2>2. BuildTypeOK' /\ HolderInv' /\ group' \in [Groups -> Builds \cup Releases \cup {None}]
    BY <1>8, <2>1 DEF VerifyTags, PromotionInv, BuildTypeOK, HolderInv
  <2>3. SuiteInv'
    BY <2>1 DEF PromotionInv, SuiteInv
  <2>4. PassedInv'
    BY <2>1 DEF PromotionInv, PassedInv, Matches
  <2>. QED
    BY <2>1, <2>2, <2>3, <2>4, PieceStays DEF PromotionInv
<1>9. CASE BuildDone(b)
  <2>1. Frame
    BY <1>9 DEF BuildDone, End, PromotionInv, BuildTypeOK, HolderInv, SuiteInv, PassedInv, Matches
  <2>. QED
    BY <1>9, <2>1, PieceStays DEF PromotionInv, BuildDone, End
<1>10. CASE BuildFails(b)
  <2>1. Frame
    BY <1>10 DEF BuildFails, End, PromotionInv, BuildTypeOK, HolderInv, SuiteInv, PassedInv, Matches
  <2>. QED
    BY <1>10, <2>1, PieceStays DEF PromotionInv, BuildFails, End
<1>11. CASE BuildAgain(b)
  <2>1. Frame
    BY <1>11 DEF BuildAgain, PromotionInv, BuildTypeOK, HolderInv, SuiteInv, PassedInv, Matches
  <2>. QED
    BY <1>11, <2>1, PieceStays DEF PromotionInv, BuildAgain
<1>. QED
  BY <1>1, <1>2, <1>3, <1>4, <1>5, <1>6, <1>7, <1>8, <1>9, <1>10, <1>11 DEF BuildRun

(* Runs of other workflows take and give back groups only.                  *)
LEMMA GroupStep ==
    ASSUME PromotionInv, UNCHANGED <<revision, alias, bpc, suite, next>>,
           NEW r \in Releases,
           \/ UNCHANGED group
           \/ group[MainGroup] = None /\ group' = [group EXCEPT ![MainGroup] = r]
           \/ group[MainGroup] = r /\ group' = [group EXCEPT ![MainGroup] = None]
    PROVE  PromotionInv' /\ RevisionsStay
<1>1. BuildTypeOK' /\ group' \in [Groups -> Builds \cup Releases \cup {None}]
  <2>1. BuildTypeOK'
    BY DEF PromotionInv, BuildTypeOK
  <2>2. group \in [Groups -> Builds \cup Releases \cup {None}]
    BY DEF PromotionInv
  <2>. QED
    BY <2>1, <2>2
<1>2. HolderInv'
  BY DEF PromotionInv, HolderInv, Promoting
<1>3. SuiteInv' /\ PassedInv'
  BY DEF PromotionInv, SuiteInv, PassedInv, Matches
<1>. QED
  BY <1>1, <1>2, <1>3, PieceStays DEF PromotionInv

(* The initial states satisfy the invariant of promotion. *)
LEMMA PromotionStart == BuildInit => PromotionInv
  BY DEF BuildInit, PromotionInv, BuildTypeOK, BuildLabels, HolderInv, SuiteInv, PassedInv,
         PieceInv, Promoting

(* So does every step of publication on its own. *)
LEMMA BuildNextStep ==
    ASSUME OneBranchPerCommit, ~Unreliable, PromotionInv, [BuildNext]_bvars
    PROVE  PromotionInv' /\ RevisionsStay
<1>1. CASE BuildNext
  BY <1>1, BuildStep DEF BuildNext
<1>2. CASE UNCHANGED bvars
  <2>1. BuildTypeOK' /\ group' \in [Groups -> Builds \cup Releases \cup {None}] /\ HolderInv'
    BY <1>2 DEF bvars, PromotionInv, BuildTypeOK, HolderInv
  <2>2. SuiteInv' /\ PassedInv'
    BY <1>2 DEF bvars, PromotionInv, SuiteInv, PassedInv, Matches
  <2>. QED
    BY <1>2, <2>1, <2>2, PieceStays DEF PromotionInv, bvars
<1>. QED
  BY <1>1, <1>2

(* The invariant of promotion holds in every reachable state of it. *)
LEMMA BuildInvariance ==
    ASSUME OneBranchPerCommit, ~Unreliable
    PROVE  BuildSpec => []PromotionInv
<1>1. PromotionInv /\ [BuildNext]_bvars => PromotionInv'
  BY BuildNextStep
<1>. QED
  BY <1>1, PromotionStart, PTL DEF BuildSpec

(* Revision tags never move, for any number of images, runs and commits, if *)
(* the registry answers and the runs for a commit are of one branch.        *)
THEOREM RevisionImmutability ==
    ASSUME OneBranchPerCommit, ~Unreliable
    PROVE  BuildSpec => RevisionImmutable
<1>1. PromotionInv /\ [BuildNext]_bvars =>
          [\A i \in Images, c \in Commits :
               revision[i][c] # None => revision'[i][c] = revision[i][c]]_bvars
  BY BuildNextStep DEF RevisionsStay
<1>. QED
  BY <1>1, BuildInvariance, PTL DEF BuildSpec, RevisionImmutable

(* Under the same assumptions, a suite that is complete is of one run.      *)
THEOREM SuiteOfOneBuild ==
    ASSUME OneBranchPerCommit, ~Unreliable, NumImages # 0
    PROVE  BuildSpec => []SuiteIsOneBuild
<1>1. PromotionInv => SuiteIsOneBuild
  <2>. SUFFICES ASSUME PromotionInv, NEW c \in Commits, \A i \in Images : revision[i][c] # None
                PROVE  \E b \in Builds :
                           /\ CommitOf[b] = c
                           /\ \A i \in Images : revision[i][c] = suite[b][i]
    BY DEF SuiteIsOneBuild
  <2>1. 1 \in Images
    OBVIOUS
  <2>2. PICK b \in Builds : PieceOf(c, b)
    BY <2>1 DEF PromotionInv, PieceInv
  <2>. QED
    BY <2>2 DEF PieceOf
<1>. QED
  BY <1>1, BuildInvariance, PTL

(* A step of publication or release keeps records, tags and releases in  *)
(* agreement.                                                              *)
LEMMA MatchStep ==
    ASSUME OneBranchPerCommit, ~Unreliable, MatchInv, [Next]_vars
    PROVE  MatchInv' /\ RevisionsStay
<1>. USE DEF At, GoOn
<1>1. IInv' /\ TypeOK /\ TypeOK' /\ PromotionInv
  BY InvStep DEF MatchInv, IInv
<1>2. PromotionInv' /\ RevisionsStay
  <2>1. ASSUME NEW b \in Builds, BuildRun(b) PROVE PromotionInv' /\ RevisionsStay
    BY <1>1, <2>1, BuildStep
  <2>2. ASSUME NEW r \in Releases, ReleaseJob(r) \/ LatestJob(r)
        PROVE  /\ UNCHANGED <<revision, alias, bpc, suite, next>>
               /\ \/ UNCHANGED group
                  \/ group[MainGroup] = None /\ group' = [group EXCEPT ![MainGroup] = r]
                  \/ group[MainGroup] = r /\ group' = [group EXCEPT ![MainGroup] = None]
    BY <2>2 DEF MatchInv, IInv, GroupInv, bvars, ReleaseJob, LatestJob, Dispatch, Begin, Take,
       Prepare, Inspect, Inspected, Promote, PromoteFails, Publish, TagChecked, ReleaseFails,
       Fail, Leave, Dropped, ReleaseAgain, CheckCurrent, MoveLatest, MoveFails, LatestFails,
       LatestAgain, ReleaseDone
  <2>3. ASSUME NEW r \in Releases, ReleaseJob(r) \/ LatestJob(r)
        PROVE  PromotionInv' /\ RevisionsStay
    BY <1>1, <2>2, <2>3, GroupStep
  <2>4. CASE UNCHANGED bvars
    <3>1. [BuildNext]_bvars
      BY <2>4
    <3>. QED
      BY <1>1, <3>1, BuildNextStep
  <2>. QED
    BY <2>1, <2>3, <2>4 DEF Next, MainAdvances, vars
<1>3. ASSUME NEW i \in Images, NEW c \in Commits, revision[i][c] # None
      PROVE  revision'[i][c] = revision[i][c]
  BY <1>2, <1>3 DEF RevisionsStay
<1>4. ASSUME NEW i \in Images, NEW v \in Versions, stable[i][v] # None
      PROVE  stable'[i][v] = stable[i][v]
  BY <1>4, StableStep DEF MatchInv, StablesStay
<1>5. ASSUME NEW q \in Releases, rpc[q] \in {"inspecting", "promoting"}
      PROVE  /\ request[q].sha \in Commits
             /\ version[q] \in Versions /\ version[q] \notin Released
             /\ \A i \in Images :
                    i < place[q] \/ rpc[q] = "promoting" => record[q][i] # None
  BY <1>1, <1>5, LowerIrreflexive
     DEF TypeOK, Requests, MatchInv, IInv, VersionInv, LoopInv, LoopInvOf
<1>6. ASSUME NEW q \in Releases,
             /\ rpc'[q] = rpc[q] /\ request'[q] = request[q] /\ version'[q] = version[q]
             /\ record'[q] = record[q] /\ missing'[q] = missing[q] /\ place'[q] = place[q]
      PROVE  RecordInvOf(q)'
  <2>1. ASSUME rpc[q] \in {"inspecting", "promoting"}, NEW i \in Images,
               (i < place[q]) \/ (rpc[q] = "promoting")
        PROVE  /\ record[q][i] = revision'[i][request[q].sha]
               /\ stable[i][version[q]] = record[q][i] =>
                      stable'[i][version[q]] = record[q][i]
    <3>1. record[q][i] # None
      BY <1>5, <2>1
    <3>2. record[q][i] = revision[i][request[q].sha]
      BY <2>1 DEF MatchInv, RecordInv, RecordInvOf
    <3>3. revision'[i][request[q].sha] = revision[i][request[q].sha]
      BY <1>3, <1>5, <2>1, <3>1, <3>2
    <3>4. stable[i][version[q]] = record[q][i] => stable'[i][version[q]] = record[q][i]
      BY <1>4, <1>5, <2>1, <3>1
    <3>. QED
      BY <3>2, <3>3, <3>4
  <2>2. RecordInvOf(q)
    BY DEF MatchInv, RecordInv
  <2>3. CASE rpc[q] = "inspecting"
    BY <1>6, <2>1, <2>2, <2>3 DEF RecordInvOf
  <2>4. CASE rpc[q] = "promoting"
    BY <1>6, <2>1, <2>2, <2>4 DEF RecordInvOf
  <2>5. CASE rpc[q] \notin {"inspecting", "promoting"}
    BY <1>6, <2>5 DEF RecordInvOf
  <2>. QED
    BY <2>3, <2>4, <2>5
<1>7. ASSUME NEW q \in Releases, rpc'[q] \notin {"inspecting", "promoting"}
      PROVE  RecordInvOf(q)'
  BY <1>7 DEF RecordInvOf
<1>8. ASSUME NEW r \in Releases, Prepare(r) PROVE RecordInvOf(r)'
  <2>1. place'[r] = 1 /\ rpc'[r] = "inspecting"
    BY <1>1, <1>8 DEF Prepare, MatchInv, IInv, TypeOK, LoopInv, LoopInvOf
  <2>. QED
    BY <2>1 DEF RecordInvOf
<1>9. ASSUME NEW r \in Releases, Inspect(r) PROVE RecordInvOf(r)'
  <2>. DEFINE n == place[r]
              digest == revision[n][request[r].sha]
  <2>1. /\ rpc[r] = "inspecting" /\ rpc'[r] = "inspecting" /\ n \in Images
        /\ place'[r] = n + 1 /\ digest # None
        /\ stable[n][version[r]] \in {None, digest}
        /\ record'[r] = [record[r] EXCEPT ![n] = digest]
        /\ missing'[r] = IF stable[n][version[r]] = None THEN missing[r] \cup {n} ELSE missing[r]
        /\ UNCHANGED <<revision, stable, request, version>>
    BY <1>1, <1>9 DEF Inspect, TypeOK, bvars, published
  <2>2. record[r] \in [Images -> Digests \cup {None}]
    BY <1>1 DEF TypeOK
  <2>3. /\ record'[r][n] = digest
        /\ n \notin missing'[r] => stable[n][version[r]] = digest
    BY <2>1, <2>2
  <2>4. ASSUME NEW i \in Images, i < n
        PROVE  /\ record'[r][i] = revision[i][request[r].sha]
               /\ i \notin missing'[r] => stable[i][version[r]] = record'[r][i]
    BY <2>1, <2>2, <2>4 DEF MatchInv, RecordInv, RecordInvOf
  <2>5. \A i \in Images : i < n + 1 => i = n \/ i < n
    BY <2>1
  <2>. HIDE DEF n, digest
  <2>6. digest = revision[n][request[r].sha]
    BY DEF digest
  <2>. QED
    BY <2>1, <2>3, <2>4, <2>5, <2>6 DEF RecordInvOf
<1>10. ASSUME NEW r \in Releases, Inspected(r) PROVE RecordInvOf(r)'
  <2>1. /\ rpc[r] = "inspecting" /\ rpc'[r] = "promoting" /\ place[r] \in 1 .. NumImages + 1
        /\ place[r] \notin Images /\ place'[r] = 1
        /\ UNCHANGED <<revision, stable, request, version, record, missing>>
    BY <1>1, <1>10 DEF Inspected, TypeOK, bvars, published
  <2>2. \A i \in Images : i < place[r] /\ ~(i < place'[r])
    BY <2>1
  <2>. QED
    BY <2>1, <2>2 DEF MatchInv, RecordInv, RecordInvOf
<1>11. ASSUME NEW r \in Releases, Promote(r) PROVE RecordInvOf(r)'
  <2>. DEFINE n == place[r]
              v == version[r]
  <2>1. /\ rpc[r] = "promoting" /\ rpc'[r] = "promoting" /\ n \in Images
        /\ place'[r] = n + 1 /\ stable'[n][v] = record[r][n]
        /\ UNCHANGED <<revision, request, version, record, missing>>
    BY <1>1, <1>11 DEF Promote, TypeOK, bvars
  <2>2. ASSUME NEW i \in Images
        PROVE  /\ record[r][i] # None
               /\ record[r][i] = revision[i][request[r].sha]
               /\ i \notin missing[r] \/ i < n => stable'[i][v] = record[r][i]
    <3>1. i \notin missing[r] \/ i < n => stable[i][v] = record[r][i]
      BY <2>1 DEF MatchInv, RecordInv, RecordInvOf
    <3>2. record[r][i] # None /\ v \in Versions
      BY <1>5, <2>1
    <3>. QED
      BY <1>4, <2>1, <3>1, <3>2 DEF MatchInv, RecordInv, RecordInvOf
  <2>3. \A i \in Images : i < n + 1 => i = n \/ i < n
    BY <2>1
  <2>. HIDE DEF n
  <2>. QED
    BY <2>1, <2>2, <2>3 DEF RecordInvOf
<1>12. ASSUME NEW r \in Releases, ReleaseJob(r) \/ LatestJob(r), NEW q \in Releases
       PROVE  RecordInvOf(q)'
  <2>1. CASE q # r
    <3>1. /\ rpc'[q] = rpc[q] /\ request'[q] = request[q] /\ version'[q] = version[q]
          /\ record'[q] = record[q] /\ missing'[q] = missing[q] /\ place'[q] = place[q]
      BY <1>1, <1>12, <2>1 DEF TypeOK, rest, ReleaseJob, LatestJob, Dispatch, Begin, Take,
         Prepare, Inspect, Inspected, Promote, PromoteFails, Publish, TagChecked, ReleaseFails,
         Fail, Leave, Dropped, ReleaseAgain, CheckCurrent, MoveLatest, MoveFails, LatestFails,
         LatestAgain, ReleaseDone
    <3>. QED
      BY <1>6, <3>1
  <2>2. CASE q = r /\ ~(Prepare(r) \/ Inspect(r) \/ Inspected(r) \/ Promote(r))
    <3>1. rpc'[r] \notin {"inspecting", "promoting"}
      BY <1>1, <1>12, <2>2 DEF TypeOK, ReleaseJob, LatestJob, Dispatch, Begin, Take,
         PromoteFails, Publish, TagChecked, ReleaseFails, Fail, Leave, Dropped, ReleaseAgain,
         CheckCurrent, MoveLatest, MoveFails, LatestFails, LatestAgain, ReleaseDone
    <3>. QED
      BY <1>7, <2>2, <3>1
  <2>. QED
    BY <1>8, <1>9, <1>10, <1>11, <2>1, <2>2
<1>13. RecordInv'
  <2>1. CASE \E r \in Releases : ReleaseJob(r) \/ LatestJob(r)
    BY <1>12, <2>1 DEF RecordInv
  <2>2. CASE UNCHANGED rest
    BY <1>6, <2>2 DEF RecordInv, rest
  <2>. QED
    BY <2>1, <2>2 DEF Next, MainAdvances, vars, rvars, rest
<1>14. ReleaseMatchesRevision'
  <2>1. ASSUME NEW v \in Released, NEW i \in Images
        PROVE  stable'[i][v] = revision'[i][git[v]]
    <3>1. v \in Versions /\ git[v] \in Commits /\ stable[i][v] # None
      BY <1>1 DEF Released, TypeOK, MatchInv, IInv, ReleaseComplete
    <3>2. stable[i][v] = revision[i][git[v]]
      BY DEF MatchInv, ReleaseMatchesRevision
    <3>. QED
      BY <1>3, <1>4, <3>1, <3>2
  <2>2. ASSUME NEW r \in Releases, Publish(r) PROVE ReleaseMatchesRevision'
    <3>1. /\ rpc[r] = "promoting" /\ place[r] \in 1 .. NumImages + 1 /\ place[r] \notin Images
          /\ version[r] \in Versions
          /\ git' = [git EXCEPT ![version[r]] = request[r].sha]
          /\ UNCHANGED <<revision, stable>>
      BY <1>1, <1>5, <2>2 DEF Publish, TypeOK, bvars
    <3>2. \A i \in Images : stable[i][version[r]] = revision[i][request[r].sha]
      BY <3>1 DEF MatchInv, RecordInv, RecordInvOf
    <3>3. \A v \in Versions : v # version[r] => git'[v] = git[v]
      BY <1>1, <3>1 DEF TypeOK
    <3>4. git'[version[r]] = request[r].sha
      BY <1>1, <3>1 DEF TypeOK
    <3>. QED
      BY <2>1, <3>1, <3>2, <3>3, <3>4 DEF ReleaseMatchesRevision, Released
  <2>3. CASE git' = git
    BY <2>1, <2>3 DEF ReleaseMatchesRevision, Released
  <2>4. CASE ~\E r \in Releases : Publish(r)
    <3>1. git' = git
      BY <2>4 DEF Fail, Leave, Take, rvars, vars, published, MainAdvances,
         ReleaseJob, LatestJob, Next, Dispatch, Begin, Prepare, Inspect,
         Inspected, Promote, PromoteFails, TagChecked, ReleaseFails,
         Dropped, ReleaseAgain, CheckCurrent, MoveLatest, MoveFails,
         LatestFails, LatestAgain, ReleaseDone
    <3>. QED
      BY <2>3, <3>1
  <2>. QED
    BY <2>2, <2>4
<1>. QED
  BY <1>1, <1>2, <1>13, <1>14 DEF MatchInv

(* Every released version has the digests of its commit's revision tags,    *)
(* for any number of images, runs, commits and versions, if the registry    *)
(* answers and the runs for a commit are of one branch.                     *)
THEOREM ReleaseMatches ==
    ASSUME OneBranchPerCommit, ~Unreliable
    PROVE  Spec => []ReleaseMatchesRevision
<1>1. MatchInv /\ [Next]_vars => MatchInv'
  BY MatchStep
<1>2. Init => MatchInv
  <2>. SUFFICES ASSUME Init PROVE MatchInv
    OBVIOUS
  <2>1. BuildInit /\ PromotionInv
    BY PromotionStart DEF Init
  <2>2. IInv
    BY StartInv
  <2>3. RecordInv /\ ReleaseMatchesRevision
    BY DEF Init, RecordInv, RecordInvOf, ReleaseMatchesRevision, Released
  <2>. QED
    BY <2>1, <2>2, <2>3 DEF MatchInv
<1>3. MatchInv => ReleaseMatchesRevision
  BY DEF MatchInv
<1>. QED
  BY <1>1, <1>2, <1>3, PTL DEF Spec
===============================================================================

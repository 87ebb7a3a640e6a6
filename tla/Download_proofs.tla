--------------------------- MODULE Download_proofs ---------------------------
(***************************************************************************)
(* Theorems about Download, for any packages, files, pages, options and     *)
(* numbers of runs and of changes to the repository.                        *)
(***************************************************************************)
EXTENDS Download, FiniteSetTheorems, SequenceTheorems, WellFoundedInduction, TLAPS

-----------------------------------------------------------------------------
(* Sets of numbers in order                                                 *)

UpTo(S, x) == {y \in S : y <= x}
Rank(S, x) == Cardinality(UpTo(S, x))

LEMMA UpToFinite ==
    ASSUME NEW S, IsFiniteSet(S), S \subseteq Nat, NEW x \in S
    PROVE  /\ IsFiniteSet(UpTo(S, x)) /\ UpTo(S, x) \in SUBSET S /\ x \in UpTo(S, x)
           /\ Rank(S, x) \in 1 .. Cardinality(S)
<1>1. UpTo(S, x) \in SUBSET S /\ x \in UpTo(S, x)
  BY DEF UpTo
<1>2. /\ IsFiniteSet(UpTo(S, x)) /\ Cardinality(UpTo(S, x)) <= Cardinality(S)
      /\ Cardinality(UpTo(S, x)) \in Nat /\ Cardinality(S) \in Nat
  BY <1>1, FS_Subset, FS_CardinalityType
<1>3. Cardinality(UpTo(S, x)) # 0
  BY <1>1, <1>2, FS_EmptySet
<1> QED BY <1>1, <1>2, <1>3 DEF Rank

\* Different numbers have different ranks ...
LEMMA RankIncreases ==
    ASSUME NEW S, IsFiniteSet(S), S \subseteq Nat, NEW x \in S, NEW y \in S, x # y
    PROVE  Rank(S, x) # Rank(S, y)
<1>1. ASSUME NEW a \in S, NEW b \in S, a < b PROVE Rank(S, a) # Rank(S, b)
  <2>0. a \in Nat /\ b \in Nat /\ \A z \in S : z \in Nat
    OBVIOUS
  <2>1. UpTo(S, a) \in SUBSET UpTo(S, b)
    <3> SUFFICES ASSUME NEW z \in UpTo(S, a) PROVE z \in UpTo(S, b)
      OBVIOUS
    <3>1. z \in S /\ z <= a
      BY DEF UpTo
    <3> QED BY <1>1, <2>0, <3>1 DEF UpTo
  <2>2. b \in UpTo(S, b) /\ b \notin UpTo(S, a)
    BY <1>1, <2>0 DEF UpTo
  <2> QED BY <2>1, <2>2, UpToFinite, FS_Subset DEF Rank
<1>2. CASE x < y
  BY <1>1, <1>2
<1>3. CASE y < x
  BY <1>1, <1>3
<1>4. x \in Nat /\ y \in Nat
  OBVIOUS
<1> QED BY <1>2, <1>3, <1>4

\* ... and every rank is that of a number.
LEMMA RankReached ==
    ASSUME NEW S, IsFiniteSet(S), S \subseteq Nat, NEW i \in 1 .. Cardinality(S)
    PROVE  \E x \in S : Rank(S, x) = i
<1> DEFINE n == Cardinality(S)
           rank == [x \in S |-> Rank(S, x)]
<1>1. n \in Nat
  BY FS_CardinalityType
<1>2. rank \in [S -> 1 .. n]
  BY UpToFinite
<1>3. rank \in Injection(S, 1 .. n)
  BY <1>2, RankIncreases DEF Injection, IsInjective
<1>4. IsFiniteSet(1 .. n) /\ Cardinality(1 .. n) = n
  BY <1>1, FS_Interval
<1>5. rank \in Surjection(S, 1 .. n)
  BY <1>3, <1>4, FS_Injection
<1> QED BY <1>5 DEF Surjection

\* InOrder lists a finite set of numbers, each at its rank.
LEMMA InOrderLists ==
    ASSUME NEW S, IsFiniteSet(S), S \subseteq Nat
    PROVE  /\ InOrder(S) \in Seq(S) /\ Len(InOrder(S)) = Cardinality(S)
           /\ \A x \in S : InOrder(S)[Rank(S, x)] = x
<1>1. Cardinality(S) \in Nat
  BY FS_CardinalityType
<1>2. InOrder(S) = [i \in 1 .. Cardinality(S) |-> CHOOSE x \in S : Rank(S, x) = i]
  BY DEF InOrder, Rank, UpTo
<1>3. \A i \in 1 .. Cardinality(S) : InOrder(S)[i] \in S /\ Rank(S, InOrder(S)[i]) = i
  BY <1>2, RankReached
<1>4. InOrder(S) \in [1 .. Cardinality(S) -> S]
  BY <1>2, <1>3
<1>5. InOrder(S) \in Seq(S) /\ Len(InOrder(S)) = Cardinality(S)
  BY <1>1, <1>4
<1>6. ASSUME NEW x \in S PROVE InOrder(S)[Rank(S, x)] = x
  BY <1>3, UpToFinite, RankIncreases
<1> QED BY <1>5, <1>6

\* A number that joins the set lowers no rank.
LEMMA RankGrows ==
    ASSUME NEW S, IsFiniteSet(S), S \subseteq Nat, NEW x \in S, NEW new \in Nat
    PROVE  Rank(S, x) <= Rank(S \cup {new}, x)
<1>1. IsFiniteSet(S \cup {new}) /\ S \cup {new} \subseteq Nat /\ x \in S \cup {new}
  BY FS_AddElement
<1>2. UpTo(S, x) \in SUBSET UpTo(S \cup {new}, x)
  BY DEF UpTo
<1> QED BY <1>1, <1>2, UpToFinite, FS_Subset DEF Rank

\* A finite set has a newest package.
LEMMA NewestExists ==
    ASSUME NEW S, IsFiniteSet(S), S # {}, S \subseteq Packages
    PROVE  \E p \in S : \A q \in S : Newness[q] <= Newness[p]
<1> DEFINE newer(p) == {q \in S : Newness[q] > Newness[p]}
           sets == {newer(p) : p \in S}
<1>0. FiniteSubsetsOf(S) = SUBSET S
  BY FS_FiniteSubsetsOfFinite
<1>1. sets \subseteq SUBSET S /\ sets # {}
  OBVIOUS
<1>2. PICK least \in sets : \A t \in sets : <<t, least>> \notin StrictSubsetOrdering(S)
  <2>1. IsWellFoundedOn(StrictSubsetOrdering(S), FiniteSubsetsOf(S))
    BY FS_StrictSubsetOrderingWellFounded
  <2> HIDE DEF sets
  <2> QED BY <1>0, <1>1, <2>1, WFMin
<1>3. PICK p \in S : least = newer(p)
  OBVIOUS
<1>4. ASSUME NEW q \in S, ~(Newness[q] <= Newness[p]) PROVE FALSE
  <2>1. Newness[q] \in Nat /\ Newness[p] \in Nat /\ \A r \in S : Newness[r] \in Nat
    BY DownloadAssumption
  <2>2. newer(q) \subseteq newer(p) /\ q \in newer(p) /\ q \notin newer(q)
    BY <1>4, <2>1
  <2>3. <<newer(q), least>> \in StrictSubsetOrdering(S)
    BY <1>3, <2>2 DEF StrictSubsetOrdering
  <2> QED BY <1>2, <2>3
<1> QED BY <1>4

-----------------------------------------------------------------------------
(* The sequences of the search                                              *)

LEMMA PackagesFinite == IsFiniteSet(Packages) /\ Packages \subseteq Nat
BY DownloadAssumption

LEMMA PublishedFinite ==
    ASSUME published \subseteq Packages
    PROVE  IsFiniteSet(published) /\ published \subseteq Nat /\ Cardinality(published) \in Nat
BY PackagesFinite, FS_Subset, FS_CardinalityType

\* The members of a concatenation, and of a tail.
LEMMA ToSetConcat ==
    ASSUME NEW S, NEW s \in Seq(S), NEW t \in Seq(S)
    PROVE  ToSet(s \o t) = ToSet(s) \cup ToSet(t)
<1>1. /\ s \o t \in Seq(S) /\ Len(s \o t) = Len(s) + Len(t)
      /\ \A i \in 1 .. Len(s) + Len(t) :
            (s \o t)[i] = IF i <= Len(s) THEN s[i] ELSE t[i - Len(s)]
  BY ConcatProperties
<1>2. /\ Len(s) \in Nat /\ Len(t) \in Nat /\ DOMAIN s = 1 .. Len(s) /\ DOMAIN t = 1 .. Len(t)
      /\ DOMAIN (s \o t) = 1 .. Len(s) + Len(t)
  BY <1>1, LenProperties
<1>3. ASSUME NEW x \in ToSet(s \o t) PROVE x \in ToSet(s) \cup ToSet(t)
  <2>1. PICK i \in 1 .. Len(s) + Len(t) : x = (s \o t)[i]
    BY <1>2 DEF ToSet
  <2>2. CASE i <= Len(s)
    BY <1>1, <1>2, <2>1, <2>2 DEF ToSet
  <2>3. CASE ~(i <= Len(s))
    <3>1. i - Len(s) \in 1 .. Len(t) /\ x = t[i - Len(s)]
      BY <1>1, <1>2, <2>1, <2>3
    <3> QED BY <1>2, <3>1 DEF ToSet
  <2> QED BY <2>2, <2>3
<1>4. ASSUME NEW x \in ToSet(s) PROVE x \in ToSet(s \o t)
  <2>1. PICK i \in 1 .. Len(s) : x = s[i]
    BY <1>2 DEF ToSet
  <2>2. i \in 1 .. Len(s) + Len(t) /\ (s \o t)[i] = x
    BY <1>1, <1>2, <2>1
  <2> QED BY <1>2, <2>2 DEF ToSet
<1>5. ASSUME NEW x \in ToSet(t) PROVE x \in ToSet(s \o t)
  <2>1. PICK i \in 1 .. Len(t) : x = t[i]
    BY <1>2 DEF ToSet
  <2>2. i + Len(s) \in 1 .. Len(s) + Len(t) /\ (s \o t)[i + Len(s)] = x
    BY <1>1, <1>2, <2>1
  <2> QED BY <1>2, <2>2 DEF ToSet
<1> QED BY <1>3, <1>4, <1>5

LEMMA ToSetTail ==
    ASSUME NEW S, NEW s \in Seq(S), s # <<>>
    PROVE  /\ Tail(s) \in Seq(S) /\ s[1] \in S
           /\ ToSet(s) = {s[1]} \cup ToSet(Tail(s))
           /\ Tail(s) = <<>> <=> Len(s) = 1
<1>1. /\ Tail(s) \in Seq(S) /\ Len(Tail(s)) = Len(s) - 1 /\ Len(s) \in Nat \ {0}
      /\ \A i \in 1 .. Len(Tail(s)) : Tail(s)[i] = s[i + 1]
  BY HeadTailProperties, EmptySeq
<1>2. DOMAIN s = 1 .. Len(s) /\ DOMAIN Tail(s) = 1 .. Len(s) - 1
  BY <1>1, LenProperties
<1>3. s[1] \in S
  BY <1>1, ElementOfSeq
<1>4. Tail(s) = <<>> <=> Len(s) = 1
  BY <1>1, EmptySeq
<1>5. ASSUME NEW x \in ToSet(s) PROVE x \in {s[1]} \cup ToSet(Tail(s))
  <2>1. PICK i \in 1 .. Len(s) : x = s[i]
    BY <1>2 DEF ToSet
  <2>2. i = 1 \/ (i - 1 \in 1 .. Len(s) - 1 /\ Tail(s)[i - 1] = x)
    BY <1>1, <2>1
  <2> QED BY <1>2, <2>1, <2>2 DEF ToSet
<1>6. ASSUME NEW x \in {s[1]} \cup ToSet(Tail(s)) PROVE x \in ToSet(s)
  <2>1. CASE x = s[1]
    BY <1>1, <1>2, <2>1 DEF ToSet
  <2>2. CASE x \in ToSet(Tail(s))
    <3>1. PICK i \in 1 .. Len(s) - 1 : x = Tail(s)[i]
      BY <1>2, <2>2 DEF ToSet
    <3>2. i + 1 \in 1 .. Len(s) /\ s[i + 1] = x
      BY <1>1, <3>1
    <3> QED BY <1>2, <3>2 DEF ToSet
  <2> QED BY <2>1, <2>2
<1> QED BY <1>1, <1>3, <1>4, <1>5, <1>6

\* The filters of the command keep what passes them, and nothing else.
LEMMA MatchingLists ==
    ASSUME found \in Seq(Packages)
    PROVE  Matching \in Seq(Packages) /\ ToSet(Matching) = ToSet(found) \cap passes
<1> DEFINE at == {i \in DOMAIN found : found[i] \in passes}
           kept == InOrder(at)
<1>1. Len(found) \in Nat /\ DOMAIN found = 1 .. Len(found) /\ \A i \in 1 .. Len(found) : found[i] \in Packages
  BY LenProperties, ElementOfSeq
<1>2. at \in SUBSET (1 .. Len(found)) /\ IsFiniteSet(at) /\ at \subseteq Nat
  <2>1. at \in SUBSET (1 .. Len(found)) /\ at \subseteq Nat
    BY <1>1
  <2>2. IsFiniteSet(1 .. Len(found))
    BY <1>1, FS_Interval
  <2> HIDE DEF at
  <2> QED BY <2>1, <2>2, FS_Subset
<1>3. Cardinality(at) \in Nat
  BY <1>2, FS_CardinalityType
<1>4. /\ kept \in Seq(at) /\ Len(kept) = Cardinality(at)
      /\ \A i \in at : kept[Rank(at, i)] = i
  BY <1>2, InOrderLists
<1>5. DOMAIN kept = 1 .. Cardinality(at) /\ \A j \in 1 .. Cardinality(at) : kept[j] \in at
  BY <1>4, LenProperties, ElementOfSeq
<1>6. Matching = [j \in 1 .. Cardinality(at) |-> found[kept[j]]]
  BY <1>5 DEF Matching
<1> HIDE DEF kept
<1>7. \A j \in 1 .. Cardinality(at) : found[kept[j]] \in Packages /\ found[kept[j]] \in passes
  BY <1>1, <1>5
<1> DEFINE size == Cardinality(at)
<1>8. Matching \in [1 .. size -> Packages] /\ DOMAIN Matching = 1 .. size /\ size \in Nat
  BY <1>3, <1>6, <1>7
<1> HIDE DEF size
<1>9. Matching \in Seq(Packages)
  BY <1>8
<1>10. ASSUME NEW p \in ToSet(Matching) PROVE p \in ToSet(found) \cap passes
  <2>1. PICK j \in 1 .. Cardinality(at) : p = found[kept[j]]
    BY <1>6 DEF ToSet
  <2>2. kept[j] \in DOMAIN found /\ p \in passes
    BY <1>5, <2>1
  <2> QED BY <2>1, <2>2 DEF ToSet
<1>11. ASSUME NEW p \in ToSet(found) \cap passes PROVE p \in ToSet(Matching)
  <2>1. PICK i \in at : p = found[i]
    BY <1>11 DEF ToSet
  <2>2. Rank(at, i) \in 1 .. Cardinality(at) /\ kept[Rank(at, i)] = i
    BY <1>2, <1>4, <2>1, UpToFinite
  <2>3. Matching[Rank(at, i)] = p /\ Rank(at, i) \in DOMAIN Matching
    BY <1>6, <2>1, <2>2
  <2> QED BY <2>3 DEF ToSet
<1> QED BY <1>9, <1>10, <1>11

\* A page holds the packages of its ranks.
LEMMA PageLists ==
    ASSUME published \subseteq Packages, NEW k \in Nat \ {0}
    PROVE  /\ PageOf(k) \in Seq(Packages)
           /\ \A p \in published :
                 (k - 1) * PageSize < Rank(published, p) /\ Rank(published, p) <= k * PageSize
                 => p \in ToSet(PageOf(k))
<1> DEFINE n == Cardinality(published)
           from == (k - 1) * PageSize
           upTo == IF k * PageSize < n THEN k * PageSize ELSE n
           listing == InOrder(published)
<1>1. n \in Nat /\ from \in Nat /\ k * PageSize \in Nat /\ upTo \in Nat /\ upTo <= n
  BY PublishedFinite, DownloadAssumption
<1>2. /\ listing \in Seq(published) /\ Len(listing) = n
      /\ \A p \in published : listing[Rank(published, p)] = p
  BY PublishedFinite, InOrderLists
<1>3. \A i \in 1 .. n : listing[i] \in Packages
  BY <1>2, ElementOfSeq
<1>4. PageOf(k) = SubSeq(listing, from + 1, upTo)
  BY DEF PageOf
<1>0. \A p \in published : Rank(published, p) \in 1 .. n
  BY PublishedFinite, UpToFinite
<1> HIDE DEF n, from, upTo, listing
<1>5. \A i \in from + 1 .. upTo : listing[i] \in Packages
  BY <1>1, <1>3
<1>6. from + 1 \in Int /\ upTo \in Int
  BY <1>1
<1>7. /\ PageOf(k) \in Seq(Packages)
      /\ Len(PageOf(k)) = IF from + 1 <= upTo THEN upTo - (from + 1) + 1 ELSE 0
      /\ \A i \in 1 .. upTo - (from + 1) + 1 : PageOf(k)[i] = listing[from + 1 + i - 1]
  BY <1>4, <1>5, <1>6, SubSeqProperties
<1>8. ASSUME NEW p \in published, from < Rank(published, p), Rank(published, p) <= k * PageSize
      PROVE  p \in ToSet(PageOf(k))
  <2> DEFINE r == Rank(published, p)
  <2>1. r \in 1 .. n /\ listing[r] = p /\ r <= upTo
    BY <1>0, <1>1, <1>2, <1>8 DEF upTo
  <2> HIDE DEF r
  <2>2. from < r
    BY <1>8 DEF r
  <2>3. r - from \in 1 .. Len(PageOf(k)) /\ PageOf(k)[r - from] = p
    BY <1>1, <1>7, <2>1, <2>2
  <2> QED BY <1>7, <2>3, LenProperties DEF ToSet
<1> QED BY <1>7, <1>8 DEF from

\* The files of a package in some order.
LEMMA FilesList ==
    ASSUME NEW p \in Packages
    PROVE  FilesOf(p) \in Seq(Parts[p])
<1>1. IsFiniteSet(Parts[p])
  BY DownloadAssumption
<1>2. Cardinality(Parts[p]) \in Nat /\ ExistsBijection(1 .. Cardinality(Parts[p]), Parts[p])
  BY <1>1, FS_CardinalityType
<1>3. \E g \in [1 .. Cardinality(Parts[p]) -> Parts[p]] : IsInjective(g)
  BY <1>2 DEF ExistsBijection, Bijection, Injection
<1>4. FilesOf(p) \in [1 .. Cardinality(Parts[p]) -> Parts[p]]
  BY <1>3 DEF FilesOf, SetToSeq
<1> QED BY <1>2, <1>4

-----------------------------------------------------------------------------
(* Types, and where the command holds what                                  *)

Locations == {"idle", "search", "pick", "resolve", "detail", "fetch", "stream"}
Entries   == [package : Packages, name : Names, path : Paths]
Statuses  == {"OK", "FAILED"}

RemoteType == published \subseteq Packages /\ offered \subseteq published

CommandType ==
    /\ pc \in Locations /\ opts \in Options
    /\ page \in Nat \ {0} /\ found \in Seq(Packages) /\ picked \in Seq(Packages)
    /\ pc \in {"resolve", "detail"} => picked # <<>>

FetchType ==
    /\ items \in Seq(Entries) /\ results \in Seq(Statuses)
    /\ Len(results) <= Len(items)
    /\ pc = "stream" => Len(results) < Len(items)
    /\ pc \in {"search", "pick", "resolve"} => items = <<>>
    /\ pc \in {"search", "pick", "resolve", "detail"} => results = <<>>

DiskType == disk = [x \in Paths |-> disk[x]]

TypeInv == RemoteType /\ CommandType /\ FetchType /\ DiskType

\* A file of a package goes to a path that Paths knows.
LEMMA PathsKnown ==
    ASSUME NEW p \in Packages, NEW n,
           n = FileName[p] \/ n \in Parts[p], NEW folder \in {"here", "outfile", Folder[p]}
    PROVE  n \in Names /\ <<folder, n>> \in Paths
BY DEF Names, Paths, Folders

\* What _resolve_all_files_items adds for a package.
FilesItems(p) == [i \in DOMAIN FilesOf(p) |->
    LET n == FilesOf(p)[i]
    IN Item(p, n, <<IF opts.outfile THEN "outfile" ELSE Folder[p], n>>)]

LEMMA FilesItemsType ==
    ASSUME NEW p \in Packages
    PROVE  /\ FilesItems(p) \in Seq(Entries)
           /\ DOMAIN FilesItems(p) = DOMAIN FilesOf(p)
           /\ \A i \in DOMAIN FilesItems(p) : FilesItems(p)[i].package = p
<1> DEFINE size == Len(FilesOf(p))
<1>1. /\ size \in Nat /\ DOMAIN FilesOf(p) = 1 .. size
      /\ \A i \in 1 .. size : FilesOf(p)[i] \in Parts[p]
  BY FilesList, LenProperties, ElementOfSeq
<1> HIDE DEF size
<1>2. DOMAIN FilesItems(p) = 1 .. size
  BY <1>1 DEF FilesItems
<1>3. ASSUME NEW i \in 1 .. size
      PROVE  FilesItems(p)[i] \in Entries /\ FilesItems(p)[i].package = p
  <2> DEFINE n == FilesOf(p)[i]
             folder == IF opts.outfile THEN "outfile" ELSE Folder[p]
  <2>1. FilesItems(p)[i] = Item(p, n, <<folder, n>>)
    BY <1>1 DEF FilesItems
  <2>2. n \in Names /\ <<folder, n>> \in Paths
    BY <1>1, PathsKnown
  <2> QED BY <2>1, <2>2 DEF Item, Entries
<1>4. FilesItems(p) \in [1 .. size -> Entries]
  BY <1>2, <1>3 DEF FilesItems
<1> QED BY <1>1, <1>2, <1>3, <1>4

\* What _resolve_single_file_item returns for the packages.
SinglePath(p) ==
    IF ~opts.outfile THEN <<"here", FileName[p]>>
    ELSE IF Len(picked) > 1 THEN <<"outfile", FileName[p]>>
    ELSE OutFile

SingleItems == [i \in DOMAIN picked |->
    Item(picked[i], FileName[picked[i]], SinglePath(picked[i]))]

LEMMA SingleItemsType ==
    ASSUME picked \in Seq(Packages)
    PROVE  /\ SingleItems \in Seq(Entries)
           /\ DOMAIN SingleItems = DOMAIN picked
           /\ \A i \in DOMAIN picked : SingleItems[i].package = picked[i]
<1> DEFINE size == Len(picked)
<1>1. /\ size \in Nat /\ DOMAIN picked = 1 .. size
      /\ \A i \in 1 .. size : picked[i] \in Packages
  BY LenProperties, ElementOfSeq
<1> HIDE DEF size
<1>2. ASSUME NEW i \in 1 .. size
      PROVE  SingleItems[i] \in Entries /\ SingleItems[i].package = picked[i]
  <2>1. SingleItems[i] = Item(picked[i], FileName[picked[i]], SinglePath(picked[i]))
    BY <1>1 DEF SingleItems
  <2>2. FileName[picked[i]] \in Names
    BY <1>1 DEF Names
  <2>3. SinglePath(picked[i]) \in Paths
    BY <1>1, PathsKnown DEF SinglePath, Paths
  <2> QED BY <1>1, <2>1, <2>2, <2>3 DEF Item, Entries
<1>3. SingleItems \in [1 .. size -> Entries]
  BY <1>1, <1>2 DEF SingleItems
<1> QED BY <1>1, <1>2, <1>3 DEF SingleItems

\* _resolve_single_file_item for every package fails, or lists its item.
LEMMA SingleStep ==
    ResolveSingle =>
        /\ pc = "resolve" /\ ~opts.allFiles
        /\ UNCHANGED <<published, changesLeft, disk, runsLeft, opts, passes, page, found,
                       picked, results, before, offered, removed>>
        /\ \/ pc' = "idle" /\ exit' = "failed" /\ items' = items
           \/ pc' = "fetch" /\ exit' = exit /\ items' = SingleItems
<1> SUFFICES ASSUME ResolveSingle
             PROVE  /\ pc = "resolve" /\ ~opts.allFiles
                    /\ UNCHANGED <<published, changesLeft, disk, runsLeft, opts, passes, page,
                                   found, picked, results, before, offered, removed>>
                    /\ \/ pc' = "idle" /\ exit' = "failed" /\ items' = items
                       \/ pc' = "fetch" /\ exit' = exit /\ items' = SingleItems
  OBVIOUS
<1>1. CASE \E i \in DOMAIN picked : ~HasUrl(picked[i])
  BY Zenon, <1>1 DEF ResolveSingle, remote, search, seen, Goto, End
<1>2. CASE ~ \E i \in DOMAIN picked : ~HasUrl(picked[i])
  BY Zenon, <1>2 DEF ResolveSingle, remote, search, seen, Goto, End, SingleItems, SinglePath
<1> QED BY <1>1, <1>2

\* _select_best_package chooses among what matches.
LEMMA BestMatches ==
    ASSUME found \in Seq(Packages), Matching # <<>>
    PROVE  /\ Best(Matching) \in ToSet(Matching) /\ Best(Matching) \in Packages
           /\ \A q \in ToSet(Matching) : Newness[q] <= Newness[Best(Matching)]
<1>1. Matching \in Seq(Packages)
  BY MatchingLists
<1>2. ToSet(Matching) \subseteq Packages /\ ToSet(Matching) # {}
  <2>1. ToSet(Matching) = {Matching[1]} \cup ToSet(Tail(Matching))
    BY <1>1, ToSetTail
  <2>2. ToSet(Matching) \subseteq Packages
    BY <1>1, LenProperties, ElementOfSeq DEF ToSet
  <2> QED BY <2>1, <2>2
<1>3. IsFiniteSet(ToSet(Matching))
  BY <1>2, PackagesFinite, FS_Subset
<1> QED BY <1>2, <1>3, NewestExists DEF Best

\* The choice among what matches.
LEMMA PickStep ==
    ASSUME found \in Seq(Packages), Pick
    PROVE  /\ pc = "pick"
           /\ UNCHANGED <<published, changesLeft, disk, runsLeft, opts, passes, page, found,
                          items, results, before, offered, removed>>
           /\ \/ pc' = "idle" /\ picked' = picked /\ exit' # "ok"
              \/ /\ pc' = "resolve" /\ exit' = exit
                 /\ picked' \in Seq(Packages) /\ picked' # <<>>
                 /\ \/ picked' = Matching /\ (opts.all \/ Len(Matching) = 1)
                    \/ picked' = <<Best(Matching)>> /\ Matching # <<>> /\ ~opts.all /\ opts.yes
<1> DEFINE matches == Matching
           all     == matches # <<>> /\ (opts.all \/ Len(matches) = 1)
           best    == Len(matches) > 1 /\ ~opts.all /\ opts.yes
<1>1. /\ pc = "pick"
      /\ UNCHANGED <<published, changesLeft, disk, runsLeft, opts, passes, page, found,
                     items, results, before, offered, removed>>
  BY Zenon DEF Pick, remote, fetches, seen, Goto, End
<1>2. \/ pc' = "idle" /\ exit' = "none found" /\ picked' = picked
      \/ pc' = "idle" /\ exit' = "several found" /\ picked' = picked
      \/ all /\ pc' = "resolve" /\ exit' = exit /\ picked' = matches
      \/ best /\ pc' = "resolve" /\ exit' = exit /\ picked' = <<Best(matches)>>
  BY Zenon DEF Pick, Goto, End
<1>3. CASE pc' = "idle" /\ exit' \in {"none found", "several found"} /\ picked' = picked
  BY <1>1, <1>3
<1>4. CASE all /\ pc' = "resolve" /\ exit' = exit /\ picked' = matches
  <2>1. matches \in Seq(Packages)
    BY MatchingLists
  <2> QED BY Zenon, <1>1, <1>4, <2>1
<1>5. CASE best /\ pc' = "resolve" /\ exit' = exit /\ picked' = <<Best(matches)>>
  <2>1. matches # <<>>
    <3> HIDE DEF matches
    <3>1. Len(<<>>) = 0
      OBVIOUS
    <3> QED BY <1>5, <3>1
  <2>2. Best(matches) \in Packages
    BY <2>1, BestMatches
  <2>3. <<Best(matches)>> \in Seq(Packages) /\ <<Best(matches)>> # <<>>
    <3> HIDE DEF matches
    <3> QED BY <2>2
  <2> QED BY Zenon, <1>1, <1>5, <2>1, <2>3
<1> QED BY <1>2, <1>3, <1>4, <1>5

\* The files of the next package are listed, unless it is gone or has none.
LEMMA DetailStep ==
    Detail =>
        /\ pc = "detail"
        /\ UNCHANGED <<published, changesLeft, disk, runsLeft, opts, passes, page, found,
                       results, before, offered, removed>>
        /\ \/ pc' = "idle" /\ exit' = "failed" /\ items' = items /\ picked' = picked
           \/ /\ FilesOf(picked[1]) # <<>> /\ exit' = exit
              /\ items' = items \o FilesItems(picked[1]) /\ picked' = Tail(picked)
              /\ \/ Len(picked) = 1 /\ pc' = "fetch"
                 \/ Len(picked) # 1 /\ pc' = "detail"
<1> SUFFICES ASSUME Detail
             PROVE  /\ pc = "detail"
                    /\ UNCHANGED <<published, changesLeft, disk, runsLeft, opts, passes, page,
                                   found, results, before, offered, removed>>
                    /\ \/ pc' = "idle" /\ exit' = "failed" /\ items' = items /\ picked' = picked
                       \/ /\ FilesOf(picked[1]) # <<>> /\ exit' = exit
                          /\ items' = items \o FilesItems(picked[1]) /\ picked' = Tail(picked)
                          /\ \/ Len(picked) = 1 /\ pc' = "fetch"
                             \/ Len(picked) # 1 /\ pc' = "detail"
  OBVIOUS
<1>1. CASE picked[1] \notin published \/ FilesOf(picked[1]) = <<>>
  BY Zenon, <1>1 DEF Detail, remote, seen, Goto, End
<1>2. CASE ~(picked[1] \notin published \/ FilesOf(picked[1]) = <<>>)
  BY Zenon, <1>2 DEF Detail, remote, seen, Goto, command, FilesItems
<1> QED BY <1>1, <1>2

LEMMA InitTypeInv == Init => TypeInv
<1> SUFFICES ASSUME Init PROVE TypeInv
  OBVIOUS
<1>1. \A S : <<>> \in Seq(S) /\ Len(<<>>) = 0
  BY EmptySeq
<1>2. disk = [x \in Paths |-> disk[x]]
  <2>1. disk = [x \in Paths |-> Absent]
        \/ \E y \in Paths : disk = [x \in Paths |-> IF x = y THEN Other ELSE Absent]
    BY DEF Init
  <2> QED BY <2>1
<1>3. RemoteType /\ CommandType
  BY <1>1 DEF Init, RemoteType, CommandType, Locations, Options, NoOptions
<1>4. FetchType
  BY <1>1 DEF Init, FetchType
<1> QED BY <1>2, <1>3, <1>4 DEF TypeInv, DiskType

\* The file in hand.
LEMMA CurrentType ==
    ASSUME TypeInv, Len(results) < Len(items)
    PROVE  /\ Len(results) + 1 \in 1 .. Len(items) /\ DOMAIN items = 1 .. Len(items)
           /\ Len(results) \in Nat /\ DOMAIN results = 1 .. Len(results)
           /\ Current \in Entries /\ Current.path \in Paths
<1>1. /\ Len(results) \in Nat /\ Len(items) \in Nat
      /\ DOMAIN items = 1 .. Len(items) /\ DOMAIN results = 1 .. Len(results)
  BY LenProperties DEF TypeInv, FetchType
<1>2. Len(results) + 1 \in 1 .. Len(items)
  BY <1>1
<1>3. Current \in Entries
  BY <1>2, ElementOfSeq DEF TypeInv, FetchType, Current
<1> QED BY <1>1, <1>2, <1>3 DEF Entries

LEMMA PutStep ==
    ASSUME DiskType, NEW bytes, Put(bytes)
    PROVE  /\ DiskType'
           /\ \A x \in Paths : disk'[x] = IF x = Current.path THEN bytes ELSE disk[x]
<1>1. disk' = [x \in Paths |-> IF x = Current.path THEN bytes ELSE disk[x]]
  BY DEF DiskType, Put
<1> QED BY <1>1 DEF DiskType

LEMMA RecordStep ==
    ASSUME TypeInv, NEW status \in Statuses, Record(status), Len(results) < Len(items)
    PROVE  /\ items' = items /\ results' \in Seq(Statuses)
           /\ Len(results') = Len(results) + 1 /\ DOMAIN results' = 1 .. Len(results) + 1
           /\ Len(results') <= Len(items')
           /\ results'[Len(results) + 1] = status
           /\ \A i \in 1 .. Len(results) : results'[i] = results[i]
<1>1. results' = Append(results, status) /\ items' = items /\ results \in Seq(Statuses)
  BY DEF Record, TypeInv, FetchType
<1>2. /\ results' \in Seq(Statuses) /\ Len(results') = Len(results) + 1
      /\ results'[Len(results) + 1] = status
      /\ \A i \in 1 .. Len(results) : results'[i] = results[i]
  BY <1>1, AppendProperties
<1>3. DOMAIN results' = 1 .. Len(results')
  BY <1>2, LenProperties
<1>4. Len(results) \in Nat /\ Len(items) \in Nat
  BY <1>1, LenProperties DEF TypeInv, FetchType
<1> QED BY <1>1, <1>2, <1>3, <1>4

LEMMA NextTypeInv == TypeInv /\ [Next]_vars => TypeInv'
<1> SUFFICES ASSUME TypeInv, [Next]_vars PROVE TypeInv'
  OBVIOUS
<1> USE DEF TypeInv, remote, command, search, fetches, seen, Locations
<1>0. /\ \A S : <<>> \in Seq(S) /\ Len(<<>>) = 0
      /\ Len(results) \in Nat /\ Len(items) \in Nat
  BY EmptySeq, LenProperties DEF FetchType
<1>1. CASE Start
  <2>1. RemoteType' /\ DiskType'
    BY <1>1 DEF Start, RemoteType, DiskType
  <2>2. CommandType'
    BY <1>0, <1>1, DownloadAssumption DEF Start, CommandType
  <2>3. FetchType'
    BY <1>0, <1>1 DEF Start, FetchType
  <2> QED BY <2>1, <2>2, <2>3
<1>2. CASE SearchPage
  <2>1. RemoteType' /\ DiskType' /\ FetchType'
    BY <1>2 DEF SearchPage, Goto, RemoteType, DiskType, FetchType
  <2>2. found' \in Seq(Packages)
    BY <1>2, PageLists, ConcatProperties DEF SearchPage, RemoteType, CommandType
  <2>3. CommandType'
    BY <1>2, <2>2 DEF SearchPage, Goto, CommandType
  <2> QED BY <2>1, <2>3
<1>3. CASE RequestFails \/ Killed
  BY <1>3 DEF RequestFails, Killed, End, Goto, RemoteType, DiskType, FetchType, CommandType
<1>4. CASE Pick
  <2>1. /\ pc = "pick"
        /\ UNCHANGED <<published, changesLeft, disk, runsLeft, opts, passes, page, found,
                       items, results, before, offered, removed>>
        /\ \/ pc' = "idle" /\ picked' = picked
           \/ pc' = "resolve" /\ picked' \in Seq(Packages) /\ picked' # <<>>
    <3>1. found \in Seq(Packages)
      BY DEF CommandType
    <3> QED BY Zenon, <1>4, <3>1, PickStep
  <2> QED BY <2>1 DEF RemoteType, DiskType, FetchType, CommandType
<1>5. CASE ResolveSingle
  <2>1. /\ pc = "resolve"
        /\ UNCHANGED <<published, changesLeft, disk, runsLeft, opts, passes, page, found,
                       picked, results, before, offered, removed>>
        /\ \/ pc' = "idle" /\ items' = items
           \/ pc' = "fetch" /\ items' \in Seq(Entries)
    <3>1. SingleItems \in Seq(Entries)
      BY SingleItemsType DEF CommandType
    <3> QED BY Zenon, <1>5, <3>1, SingleStep
  <2>2. results' = <<>> /\ Len(results') = 0
    BY <1>0, <2>1 DEF FetchType
  <2>3. CASE pc' = "idle" /\ items' = items
    BY <2>1, <2>3 DEF RemoteType, DiskType, FetchType, CommandType
  <2>4. CASE pc' = "fetch" /\ items' \in Seq(Entries)
    <3>1. Len(items') \in Nat
      BY <2>4, LenProperties
    <3>2. FetchType'
      BY <1>0, <2>2, <2>4, <3>1 DEF FetchType
    <3> QED BY <2>1, <2>4, <3>2 DEF RemoteType, DiskType, CommandType
  <2> QED BY <2>1, <2>3, <2>4
<1>6. CASE ResolveAllFiles
  BY <1>6 DEF ResolveAllFiles, Goto, RemoteType, DiskType, FetchType, CommandType
<1>7. CASE Detail
  <2>1. /\ pc = "detail"
        /\ UNCHANGED <<published, changesLeft, disk, runsLeft, opts, passes, page, found,
                       results, before, offered, removed>>
        /\ \/ pc' = "idle" /\ items' = items /\ picked' = picked
           \/ /\ items' = items \o FilesItems(picked[1]) /\ picked' = Tail(picked)
              /\ \/ Len(picked) = 1 /\ pc' = "fetch"
                 \/ Len(picked) # 1 /\ pc' = "detail"
    BY Zenon, <1>7, DetailStep
  <2>2. /\ picked[1] \in Packages /\ Tail(picked) \in Seq(Packages)
        /\ Tail(picked) = <<>> <=> Len(picked) = 1
    BY <2>1, ToSetTail DEF CommandType
  <2>3. items \o FilesItems(picked[1]) \in Seq(Entries)
    BY <2>2, FilesItemsType, ConcatProperties DEF FetchType
  <2>4. RemoteType' /\ DiskType'
    BY <2>1 DEF RemoteType, DiskType
  <2>5. CommandType'
    BY <2>1, <2>2 DEF CommandType
  <2>6. FetchType'
    <3>1. items' \in Seq(Entries) /\ results' = <<>>
      BY <2>1, <2>3 DEF FetchType
    <3>2. Len(items') \in Nat /\ pc' \in {"idle", "fetch", "detail"}
      BY <2>1, <3>1, LenProperties
    <3> QED BY <1>0, <3>1, <3>2 DEF FetchType
  <2> QED BY <2>4, <2>5, <2>6
<1>8. CASE DryRun \/ Report
  BY <1>8 DEF DryRun, Report, End, Goto, RemoteType, DiskType, FetchType, CommandType
<1>9. CASE Exists \/ NotServed \/ Broken
  <2>1. Len(results) < Len(items)
    BY <1>9 DEF Exists, NotServed, Broken, Fetching, FetchType
  <2>2. Record("FAILED") /\ "FAILED" \in Statuses /\ pc' = "fetch"
    BY <1>9 DEF Exists, NotServed, Broken, Fetching, Goto, Statuses
  <2>3. FetchType'
    BY <2>1, <2>2, RecordStep DEF FetchType
  <2> QED BY <1>9, <2>2, <2>3 DEF Exists, NotServed, Broken, Goto, RemoteType, DiskType, CommandType
<1>10. CASE Open
  <2>1. DiskType'
    BY <1>10, PutStep DEF Open
  <2> QED BY <1>10, <2>1 DEF Open, Fetching, Goto, RemoteType, FetchType, CommandType
<1>11. CASE Finished
  <2>1. DiskType'
    BY <1>11, PutStep DEF Finished
  <2>2. Record("OK") /\ "OK" \in Statuses /\ pc' = "fetch" /\ Len(results) < Len(items)
    BY <1>11 DEF Finished, Goto, Statuses, FetchType
  <2>3. FetchType'
    BY <2>2, RecordStep DEF FetchType
  <2> QED BY <1>11, <2>1, <2>2, <2>3 DEF Finished, Goto, RemoteType, CommandType
<1>12. CASE Change
  BY <1>12 DEF Change, RemoteType, DiskType, FetchType, CommandType
<1>13. CASE UNCHANGED vars
  BY <1>13 DEF vars, RemoteType, DiskType, FetchType, CommandType
<1> QED BY <1>1, <1>2, <1>3, <1>4, <1>5, <1>6, <1>7, <1>8, <1>9, <1>10, <1>11, <1>12, <1>13
       DEF Next, Work

\* Every variable keeps to its type, and the command never fetches past its list,
\* for any packages, options and changes to the repository.
THEOREM TypeCorrect == Spec => []TypeInv
BY InitTypeInv, NextTypeInv, PTL DEF Spec

-----------------------------------------------------------------------------
(* The files that were there                                                *)

\* Until there is a list of files to fetch, nothing is written; the file in hand
\* may be overwritten, or was not there.
DiskAsBefore == pc \in {"search", "pick", "resolve", "detail"} => disk = before
MayWrite ==
    pc = "stream" => ~opts.dryRun /\ (opts.overwrite \/ before[Current.path] = Absent)
KeepInv == TypeInv /\ DiskAsBefore /\ MayWrite /\ OldFilesStay

\* A write to the path of the file in hand, where it may be.
LEMMA WriteKeeps ==
    ASSUME KeepInv, NEW bytes, Put(bytes), items' = items, opts' = opts, before' = before,
           Len(results) < Len(items), ~opts.dryRun,
           opts.overwrite \/ before[Current.path] = Absent
    PROVE  OldFilesStay'
<1> SUFFICES ASSUME NEW x \in Paths, before[x] # Absent, disk'[x] # before[x]
             PROVE  /\ opts.overwrite /\ ~opts.dryRun
                    /\ \E i \in DOMAIN items : items[i].path = x
  BY DEF OldFilesStay
<1>1. /\ Len(results) + 1 \in DOMAIN items /\ Current = items[Len(results) + 1]
      /\ disk'[x] = IF x = Current.path THEN bytes ELSE disk[x]
  BY CurrentType, PutStep DEF KeepInv, TypeInv, Current
<1>2. CASE x = Current.path
  BY <1>1, <1>2
<1>3. CASE x # Current.path
  BY <1>1, <1>3 DEF KeepInv, OldFilesStay
<1> QED BY <1>2, <1>3

LEMMA InitKeepInv == Init => KeepInv
<1>1. Init => TypeInv
  BY InitTypeInv
<1>2. Init => DiskAsBefore /\ MayWrite /\ OldFilesStay
  BY DEF Init, DiskAsBefore, MayWrite, OldFilesStay
<1> QED BY <1>1, <1>2 DEF KeepInv

LEMMA NextKeepInv == KeepInv /\ [Next]_vars => KeepInv'
<1> SUFFICES ASSUME KeepInv, [Next]_vars PROVE KeepInv'
  OBVIOUS
<1>0. TypeInv /\ TypeInv'
  BY NextTypeInv DEF KeepInv
<1>1. CASE Start
  <2>1. disk' = disk /\ before' = disk /\ pc' = "search"
    BY <1>1 DEF Start
  <2> QED BY <1>0, <2>1 DEF KeepInv, DiskAsBefore, MayWrite, OldFilesStay
\* Before there is a list: what is written and what was there are the same.
<1>2. CASE SearchPage \/ Pick \/ ResolveSingle \/ ResolveAllFiles \/ Detail
  <2>1. pc \in {"search", "pick", "resolve", "detail"} /\ disk' = disk /\ before' = before
    BY Zenon, <1>2 DEF SearchPage, Pick, ResolveSingle, ResolveAllFiles, Detail
  <2>2. pc' # "stream"
    <3>1. SearchPage \/ ResolveAllFiles => pc' # "stream"
      BY <2>1 DEF SearchPage, ResolveAllFiles, Goto, command
    <3>2. Detail => pc' # "stream"
      BY <2>1 DEF Detail, Goto, End, command
    <3>3. ResolveSingle => pc' # "stream"
      BY SingleStep
    <3>4. Pick => pc' # "stream"
      BY Zenon, PickStep, <1>0 DEF TypeInv, CommandType
    <3> QED BY <1>2, <3>1, <3>2, <3>3, <3>4
  <2>3. disk' = before'
    BY <2>1 DEF KeepInv, DiskAsBefore
  <2> QED BY <1>0, <2>2, <2>3 DEF KeepInv, DiskAsBefore, MayWrite, OldFilesStay
<1>3. CASE RequestFails \/ DryRun \/ Report \/ Killed
  <2>1. pc' = "idle" /\ UNCHANGED <<disk, before, opts, items>>
    BY <1>3 DEF RequestFails, DryRun, Report, Killed, End, Goto, fetches
  <2> QED BY <1>0, <2>1 DEF KeepInv, DiskAsBefore, MayWrite, OldFilesStay
<1>4. CASE Exists \/ NotServed \/ Broken
  <2>1. pc' = "fetch" /\ UNCHANGED <<disk, before, opts, items>>
    BY <1>4 DEF Exists, NotServed, Broken, Fetching, Record, Goto, command
  <2> QED BY <1>0, <2>1 DEF KeepInv, DiskAsBefore, MayWrite, OldFilesStay
<1>5. CASE Open
  <2>1. /\ Fetching /\ (disk[Current.path] = Absent \/ opts.overwrite)
        /\ UNCHANGED <<before, opts, items, results>> /\ pc' = "stream"
        /\ Put(Bytes(Current.package, Current.name, FALSE))
    BY <1>5 DEF Open, Goto, fetches
  <2>2. opts.overwrite \/ before[Current.path] = Absent
    <3>1. Current.path \in Paths
      BY <1>0, <2>1, CurrentType DEF Fetching
    <3> QED BY <2>1, <3>1 DEF KeepInv, OldFilesStay
  <2>3. OldFilesStay'
    BY <2>1, <2>2, WriteKeeps DEF Fetching
  <2>4. MayWrite' /\ DiskAsBefore'
    BY <2>1, <2>2 DEF MayWrite, DiskAsBefore, Fetching, Current
  <2> QED BY <1>0, <2>3, <2>4 DEF KeepInv
<1>6. CASE Finished
  <2>1. /\ pc = "stream" /\ pc' = "fetch" /\ UNCHANGED <<before, opts, items>>
        /\ Put(Bytes(Current.package, Current.name, TRUE))
    BY <1>6 DEF Finished, Goto, Record
  <2>2. OldFilesStay'
    BY <1>0, <2>1, WriteKeeps DEF KeepInv, MayWrite, TypeInv, FetchType
  <2> QED BY <1>0, <2>1, <2>2 DEF KeepInv, MayWrite, DiskAsBefore
<1>7. CASE Change \/ UNCHANGED vars
  <2>1. UNCHANGED <<disk, before, opts, items, results, pc>>
    BY <1>7 DEF Change, vars, command, fetches
  <2> QED BY <1>0, <2>1 DEF KeepInv, DiskAsBefore, MayWrite, OldFilesStay, Current
<1> QED BY <1>1, <1>2, <1>3, <1>4, <1>5, <1>6, <1>7 DEF Next, Work

\* A file that was there stays as it is, unless overwriting was allowed and a file
\* was fetched to its path; a dry run changes none.
THEOREM OldFilesAreKept == Spec => []OldFilesStay
<1>1. KeepInv => OldFilesStay
  BY DEF KeepInv
<1> QED BY <1>1, InitKeepInv, NextKeepInv, PTL DEF Spec

-----------------------------------------------------------------------------
(* The files that a command which succeeds has fetched                      *)

AllOk == \A i \in 1 .. Len(results) : results[i] = "OK"

\* The i-th file is whole at its path, or one that the user let replace it.
ThereFor(i) ==
    \E j \in 1 .. Len(results) :
        /\ items[j].path = items[i].path /\ (opts.overwrite \/ j = i)
        /\ disk[items[i].path] = Bytes(items[j].package, items[j].name, TRUE)

NoExitYet  == pc # "idle" => exit = "none"
WholeSoFar == pc = "fetch" /\ AllOk => \A i \in 1 .. Len(results) : ThereFor(i)

\* While a file arrives, the ones before it are whole but for one at its path.
PartInHand ==
    pc = "stream" =>
        /\ disk[Current.path] = Bytes(Current.package, Current.name, FALSE)
        /\ AllOk => \A i \in 1 .. Len(results) :
                        ThereFor(i) \/ (opts.overwrite /\ items[i].path = Current.path)

WholeInv == TypeInv /\ NoExitYet /\ WholeSoFar /\ PartInHand /\ SuccessIsWhole

LEMMA BytesDiffer ==
    \A p, n, q, m : Bytes(p, n, TRUE) # Bytes(q, m, FALSE) /\ \A w : Bytes(p, n, w) # Absent
BY DEF Bytes, Absent

\* What stays there when only the path of the file in hand is written.
LEMMA ThereStays ==
    ASSUME TypeInv, Len(results) < Len(items), NEW bytes, Put(bytes), items' = items,
           opts' = opts, Len(results') \in {Len(results), Len(results) + 1},
           NEW i \in 1 .. Len(results), ThereFor(i), items[i].path # Current.path
    PROVE  ThereFor(i)'
<1>1. PICK j \in 1 .. Len(results) :
          /\ items[j].path = items[i].path /\ (opts.overwrite \/ j = i)
          /\ disk[items[i].path] = Bytes(items[j].package, items[j].name, TRUE)
  BY DEF ThereFor
<1>2. items[i].path \in Paths
  <2>1. i \in 1 .. Len(items)
    BY LenProperties DEF TypeInv, FetchType
  <2>2. items[i] \in Entries
    BY <2>1, ElementOfSeq DEF TypeInv, FetchType
  <2> QED BY <2>2 DEF Entries
<1>3. disk'[items[i].path] = disk[items[i].path]
  BY <1>2, PutStep DEF TypeInv
<1>4. j \in 1 .. Len(results')
  BY <1>1, LenProperties DEF TypeInv, FetchType
<1>5. \E k \in 1 .. Len(results') :
          /\ items'[k].path = items'[i].path /\ (opts'.overwrite \/ k = i)
          /\ disk'[items'[i].path] = Bytes(items'[k].package, items'[k].name, TRUE)
  BY <1>1, <1>3, <1>4
<1> QED BY <1>5 DEF ThereFor

LEMMA InitWholeInv == Init => WholeInv
<1>1. Init => TypeInv
  BY InitTypeInv
<1>2. Init => NoExitYet /\ WholeSoFar /\ PartInHand /\ SuccessIsWhole
  BY DEF Init, NoExitYet, WholeSoFar, PartInHand, SuccessIsWhole
<1> QED BY <1>1, <1>2 DEF WholeInv

\* A file that failed rules success out.
LEMMA FailedStep ==
    ASSUME TypeInv, Record("FAILED"), Len(results) < Len(items) PROVE ~AllOk'
<1>1. Len(results) + 1 \in 1 .. Len(results') /\ results'[Len(results) + 1] = "FAILED"
  BY RecordStep, LenProperties DEF Statuses, TypeInv, FetchType
<1> QED BY <1>1 DEF AllOk

LEMMA OpenWhole ==
    ASSUME WholeInv, Open
    PROVE  PartInHand'
<1>1. /\ Fetching /\ (disk[Current.path] = Absent \/ opts.overwrite)
      /\ UNCHANGED <<opts, items, results>> /\ Current' = Current
      /\ Put(Bytes(Current.package, Current.name, FALSE))
  BY DEF Open, Goto, fetches, Current
<1>2. TypeInv /\ WholeSoFar /\ pc = "fetch" /\ Len(results) < Len(items)
  BY <1>1 DEF WholeInv, Fetching
<1>3. Current.path \in Paths
  BY <1>2, CurrentType
<1>4. disk'[Current.path] = Bytes(Current.package, Current.name, FALSE)
  BY <1>1, <1>2, <1>3, PutStep DEF TypeInv
<1>5. ASSUME AllOk, NEW i \in 1 .. Len(results)
      PROVE  ThereFor(i)' \/ (opts.overwrite /\ items[i].path = Current.path)
  <2>1. ThereFor(i)
    BY <1>2, <1>5 DEF WholeSoFar
  <2>2. CASE items[i].path # Current.path
    BY <1>1, <1>2, <2>1, <2>2, ThereStays
  <2>3. CASE items[i].path = Current.path
    <3>1. disk[Current.path] # Absent
      BY <2>1, <2>3, BytesDiffer DEF ThereFor
    <3> QED BY <1>1, <2>3, <3>1
  <2> QED BY <2>2, <2>3
<1>6. AllOk' = AllOk
  BY <1>1 DEF AllOk
<1>7. AllOk => \A i \in 1 .. Len(results) :
                  ThereFor(i)' \/ (opts.overwrite /\ items[i].path = Current.path)
  BY <1>5
<1> QED BY <1>1, <1>4, <1>6, <1>7 DEF PartInHand

LEMMA FinishedWhole ==
    ASSUME WholeInv, Finished
    PROVE  WholeSoFar'
<1> DEFINE n == Len(results)
<1>1. /\ pc = "stream" /\ UNCHANGED <<opts, items>> /\ Record("OK")
      /\ Put(Bytes(Current.package, Current.name, TRUE))
  BY DEF Finished, Goto, Record
<1>2. TypeInv /\ PartInHand /\ n < Len(items) /\ n \in Nat
  BY <1>1, LenProperties DEF WholeInv, TypeInv, FetchType
<1>3. Current.path \in Paths /\ Current = items[n + 1]
  BY <1>2, CurrentType DEF Current
<1>4. disk'[Current.path] = Bytes(Current.package, Current.name, TRUE)
  BY <1>1, <1>2, <1>3, PutStep DEF TypeInv
<1>5. Len(results') = n + 1 /\ \A i \in 1 .. n : results'[i] = results[i]
  BY <1>1, <1>2, RecordStep DEF Statuses
<1>6. AllOk' => AllOk
  BY <1>2, <1>5 DEF AllOk
<1>7. ASSUME NEW i \in 1 .. n + 1, i = n + 1 \/ (opts.overwrite /\ items[i].path = Current.path)
      PROVE  ThereFor(i)'
  <2>0. items[n + 1].path = items[i].path /\ (opts.overwrite \/ n + 1 = i)
    BY <1>3, <1>7
  <2>1. /\ n + 1 \in 1 .. Len(results')
        /\ disk'[items[i].path] = Bytes(items[n + 1].package, items[n + 1].name, TRUE)
    <3>1. n + 1 \in 1 .. Len(results')
      BY <1>2, <1>5
    <3> QED BY Zenon, <1>3, <1>4, <2>0, <3>1
  <2>2. \E k \in 1 .. Len(results') :
            /\ items'[k].path = items'[i].path /\ (opts'.overwrite \/ k = i)
            /\ disk'[items'[i].path] = Bytes(items'[k].package, items'[k].name, TRUE)
    BY <1>1, <2>0, <2>1
  <2> QED BY <2>2 DEF ThereFor
<1>8. ASSUME AllOk, NEW i \in 1 .. n PROVE ThereFor(i)'
  <2>1. CASE opts.overwrite /\ items[i].path = Current.path
    <3>1. i \in 1 .. n + 1
      BY <1>2
    <3> QED BY <1>7, <2>1, <3>1
  <2>2. CASE ThereFor(i) /\ ~(opts.overwrite /\ items[i].path = Current.path)
    <3>1. items[i].path # Current.path
      <4>1. disk[Current.path] = Bytes(Current.package, Current.name, FALSE)
        BY <1>1, <1>2 DEF PartInHand
      <4> QED BY <2>2, <4>1, BytesDiffer DEF ThereFor
    <3> QED BY <1>1, <1>2, <1>5, <2>2, <3>1, ThereStays
  <2> QED BY <1>1, <1>2, <1>8, <2>1, <2>2 DEF PartInHand
<1>9. AllOk' => \A i \in 1 .. Len(results') : ThereFor(i)'
  <2> SUFFICES ASSUME AllOk', NEW i \in 1 .. Len(results') PROVE ThereFor(i)'
    OBVIOUS
  <2>1. i \in 1 .. n \/ i = n + 1
    BY <1>2, <1>5
  <2> QED BY <1>2, <1>5, <1>6, <1>7, <1>8, <2>1
<1> QED BY <1>9 DEF WholeSoFar

LEMMA NextWholeInv == WholeInv /\ [Next]_vars => WholeInv'
<1> SUFFICES ASSUME WholeInv, [Next]_vars PROVE WholeInv'
  OBVIOUS
<1>0. TypeInv /\ TypeInv'
  BY NextTypeInv DEF WholeInv
<1>1. CASE Start
  <2>1. pc' = "search" /\ exit' = "none"
    BY <1>1 DEF Start
  <2> QED BY <1>0, <2>1 DEF WholeInv, NoExitYet, WholeSoFar, PartInHand, SuccessIsWhole
\* Before anything is fetched there is no status.
<1>2. CASE SearchPage \/ Pick \/ ResolveSingle \/ ResolveAllFiles \/ Detail
  <2>1. \/ pc' = "idle" /\ exit' \in {"failed", "none found", "several found"}
        \/ pc' # "idle" /\ exit' = exit
    <3>1. SearchPage \/ ResolveAllFiles => pc' # "idle" /\ exit' = exit
      BY DEF SearchPage, ResolveAllFiles, Goto, command
    <3>2. Detail => \/ pc' = "idle" /\ exit' = "failed"
                    \/ (pc' = "fetch" \/ pc' = "detail") /\ exit' = exit
      BY Zenon, DetailStep
    <3>3. ResolveSingle => \/ pc' = "idle" /\ exit' = "failed"
                           \/ pc' = "fetch" /\ exit' = exit
      BY Zenon, SingleStep
    <3>4. Pick => \/ pc' = "idle" /\ exit' \in {"none found", "several found"}
                  \/ pc' # "idle" /\ exit' = exit
      BY Zenon DEF Pick, Goto, End
    <3> QED BY <1>2, <3>1, <3>2, <3>3, <3>4
  <2>2. pc # "idle" /\ pc \in {"search", "pick", "resolve", "detail"}
    BY Zenon, <1>2 DEF SearchPage, Pick, ResolveSingle, ResolveAllFiles, Detail
  <2>3. results' = <<>> /\ pc' # "stream"
    <3>1. SearchPage \/ ResolveAllFiles => results' = results /\ pc' # "stream"
      BY <2>2 DEF SearchPage, ResolveAllFiles, Goto, command, fetches
    <3>2. Detail => results' = results /\ pc' # "stream"
      BY <2>2 DEF Detail, Goto, End, command
    <3>3. ResolveSingle => results' = results /\ pc' # "stream"
      BY SingleStep
    <3>4. Pick => results' = results /\ pc' # "stream"
      BY Zenon, PickStep, <1>0 DEF TypeInv, CommandType
    <3>5. results = <<>>
      BY <1>0, <2>2 DEF TypeInv, FetchType
    <3> QED BY <1>2, <3>1, <3>2, <3>3, <3>4, <3>5
  <2>4. Len(results') = 0
    BY <2>3
  <2>5. exit' # "ok" /\ NoExitYet'
    BY <2>1, <2>2 DEF WholeInv, NoExitYet
  <2>6. WholeSoFar'
    BY <2>4 DEF WholeSoFar
  <2>7. PartInHand' /\ SuccessIsWhole'
    BY <2>3, <2>5 DEF PartInHand, SuccessIsWhole
  <2> QED BY <1>0, <2>5, <2>6, <2>7 DEF WholeInv
<1>3. CASE RequestFails \/ Killed
  <2>1. pc' = "idle" /\ exit' # "ok"
    BY <1>3 DEF RequestFails, Killed, End, Goto
  <2> QED BY <1>0, <2>1 DEF WholeInv, NoExitYet, WholeSoFar, PartInHand, SuccessIsWhole
<1>4. CASE DryRun
  <2>1. pc' = "idle" /\ opts'.dryRun
    BY <1>4 DEF DryRun, End, Goto
  <2> QED BY <1>0, <2>1 DEF WholeInv, NoExitYet, WholeSoFar, PartInHand, SuccessIsWhole
<1>5. CASE Exists \/ NotServed \/ Broken
  <2>1. pc # "idle" /\ pc' = "fetch" /\ exit' = exit /\ Record("FAILED")
    BY <1>5 DEF Exists, NotServed, Broken, Fetching, Goto, command
  <2>2. Len(results) < Len(items)
    BY <1>0, <1>5 DEF Exists, NotServed, Broken, Fetching, TypeInv, FetchType
  <2>3. ~AllOk'
    BY <1>0, <2>1, <2>2, FailedStep
  <2> QED BY <1>0, <2>1, <2>3 DEF WholeInv, NoExitYet, WholeSoFar, PartInHand, SuccessIsWhole
<1>6. CASE Open
  <2>1. pc # "idle" /\ pc' = "stream" /\ exit' = exit
    BY <1>6 DEF Open, Fetching, Goto
  <2> QED BY <1>0, <1>6, <2>1, OpenWhole DEF WholeInv, NoExitYet, WholeSoFar, SuccessIsWhole
<1>7. CASE Finished
  <2>1. pc # "idle" /\ pc' = "fetch" /\ exit' = exit
    BY <1>7 DEF Finished, Goto
  <2> QED BY <1>0, <1>7, <2>1, FinishedWhole DEF WholeInv, NoExitYet, PartInHand, SuccessIsWhole
<1>8. CASE Report
  <2>1. /\ pc = "fetch" /\ pc' = "idle" /\ exit' = Status /\ Len(results) = Len(items)
        /\ UNCHANGED <<disk, items, opts>>
    BY <1>8 DEF Report, End, Goto, fetches
  <2>2. DOMAIN items = 1 .. Len(results) /\ DOMAIN results = 1 .. Len(results)
    BY <1>0, <2>1, LenProperties DEF TypeInv, FetchType
  <2>3. ASSUME exit' = "ok" PROVE \A i \in DOMAIN items : ThereFor(i)
    <3>1. \A i \in 1 .. Len(results) : results[i] # "FAILED"
      BY <2>1, <2>2, <2>3 DEF Status
    <3>2. \A i \in 1 .. Len(results) : results[i] \in {"OK", "FAILED"}
      BY <1>0, ElementOfSeq DEF TypeInv, FetchType, Statuses
    <3>3. AllOk
      BY <3>1, <3>2 DEF AllOk
    <3> QED BY <2>1, <2>2, <3>3 DEF WholeInv, WholeSoFar
  <2>4. SuccessIsWhole'
    BY <2>1, <2>2, <2>3 DEF SuccessIsWhole, ThereFor
  <2> QED BY <1>0, <2>1, <2>4 DEF WholeInv, NoExitYet, WholeSoFar, PartInHand
<1>9. CASE Change \/ UNCHANGED vars
  <2>1. UNCHANGED <<disk, opts, items, results, pc, exit>>
    BY <1>9 DEF Change, vars, command, fetches
  <2>2. AllOk' = AllOk /\ Current' = Current /\ \A i : ThereFor(i)' = ThereFor(i)
    BY <2>1 DEF AllOk, Current, ThereFor
  <2>3. NoExitYet' /\ WholeSoFar' /\ PartInHand' /\ SuccessIsWhole'
    BY <2>1, <2>2 DEF WholeInv, NoExitYet, WholeSoFar, PartInHand, SuccessIsWhole
  <2> QED BY <1>0, <2>3 DEF WholeInv
<1> QED BY <1>1, <1>2, <1>3, <1>4, <1>5, <1>6, <1>7, <1>8, <1>9 DEF Next, Work

\* A command that succeeds leaves at each of its paths all the bytes of a file
\* that it fetched to it, of that very file when it may not overwrite.
THEOREM SuccessLeavesWhole == Spec => []SuccessIsWhole
<1>1. WholeInv => SuccessIsWhole
  BY DEF WholeInv
<1> QED BY <1>1, InitWholeInv, NextWholeInv, PTL DEF Spec

-----------------------------------------------------------------------------
(* What is fetched is what was asked for                                    *)

\* A set of packages that answers the options, of those known to match.
Answers(chosen, known, options) ==
    /\ options.all => known \subseteq chosen
    /\ ~options.all => /\ Cardinality(chosen) = 1
                       /\ \A p \in chosen, q \in known : Newness[q] <= Newness[p]
                       /\ ~options.yes => known \subseteq chosen

Right(chosen) ==
    chosen \subseteq passes /\ (~removed => Answers(chosen, offered \cap passes, opts))

Chosen == {items[i].package : i \in DOMAIN items}

\* The pages so far hold every package of their ranks that was there all along ...
PagesInv ==
    pc = "search" /\ ~removed =>
        \A p \in offered : Rank(published, p) <= (page - 1) * PageSize => p \in ToSet(found)
\* ... and the last one completes them.
FoundInv == pc = "pick" /\ ~removed => offered \subseteq ToSet(found)

\* The choice, and what became of it.
ChoiceInv ==
    /\ pc = "resolve" => Right(ToSet(picked))
    /\ pc = "detail" => Right(Chosen \cup ToSet(picked))
    /\ pc \in {"fetch", "stream"} => Right(Chosen)

RightInv == TypeInv /\ PagesInv /\ FoundInv /\ ChoiceInv

LEMMA InitRightInv == Init => RightInv
<1>1. Init => TypeInv
  BY InitTypeInv
<1>2. Init => PagesInv /\ FoundInv /\ ChoiceInv
  BY DEF Init, PagesInv, FoundInv, ChoiceInv
<1> QED BY <1>1, <1>2 DEF RightInv

LEMMA PageFound ==
    ASSUME RightInv, SearchPage
    PROVE  /\ pc' = "search" => PagesInv'
           /\ pc' = "pick" => FoundInv'
<1> DEFINE n == Cardinality(published)
<1>1. /\ pc = "search" /\ found' = found \o PageOf(page)
      /\ UNCHANGED <<published, offered, removed>>
      /\ \/ page * PageSize < n /\ page' = page + 1 /\ pc' = pc
         \/ ~(page * PageSize < n) /\ pc' = "pick"
  BY DEF SearchPage, MorePages, Goto, command, remote, seen
<1>2. /\ published \subseteq Packages /\ offered \subseteq published
      /\ found \in Seq(Packages) /\ page \in Nat \ {0} /\ PageSize \in Nat \ {0}
  BY DownloadAssumption DEF RightInv, TypeInv, RemoteType, CommandType
<1>3. /\ PageOf(page) \in Seq(Packages)
      /\ \A p \in published :
            (page - 1) * PageSize < Rank(published, p) /\ Rank(published, p) <= page * PageSize
            => p \in ToSet(PageOf(page))
  BY <1>2, PageLists
<1>4. ToSet(found') = ToSet(found) \cup ToSet(PageOf(page))
  BY <1>1, <1>2, <1>3, ToSetConcat
<1>5. \A p \in published : Rank(published, p) \in 1 .. n
  BY <1>2, PublishedFinite, UpToFinite
<1>6. ASSUME ~removed, NEW p \in offered, Rank(published, p) <= page * PageSize
      PROVE  p \in ToSet(found')
  <2>1. CASE Rank(published, p) <= (page - 1) * PageSize
    BY <1>1, <1>4, <1>6, <2>1 DEF RightInv, PagesInv
  <2>2. CASE (page - 1) * PageSize < Rank(published, p)
    BY <1>2, <1>3, <1>4, <1>6, <2>2
  <2>3. Rank(published, p) \in Int /\ (page - 1) * PageSize \in Int
    BY <1>2, <1>5
  <2> QED BY <2>1, <2>2, <2>3
<1>7. ASSUME page' = page + 1 PROVE PagesInv'
  <2>1. page' - 1 = page
    BY <1>2, <1>7
  <2>2. \A p \in offered : ~removed /\ Rank(published, p) <= page * PageSize => p \in ToSet(found')
    BY <1>6
  <2> QED BY <1>1, <2>1, <2>2 DEF PagesInv, Rank, UpTo
<1>8. ASSUME ~(page * PageSize < n) PROVE FoundInv'
  <2>1. n \in Nat /\ page * PageSize \in Nat
    BY <1>2, PublishedFinite
  <2>2. \A p \in offered : Rank(published, p) <= page * PageSize
    BY <1>2, <1>5, <1>8, <2>1
  <2>3. ~removed => offered \subseteq ToSet(found')
    BY <1>6, <2>2
  <2> QED BY <1>1, <2>3 DEF FoundInv
<1> QED BY <1>1, <1>7, <1>8

\* A package that others publish meanwhile lowers the rank of no other.
LEMMA ChangeKeepsPages ==
    ASSUME RightInv, Change
    PROVE  PagesInv'
<1>1. UNCHANGED <<pc, page, found>>
  BY DEF Change, command, search
<1>2. PICK p \in Packages :
          \/ removed' = TRUE
          \/ published' = published \cup {p} /\ UNCHANGED <<offered, removed>>
  <2>1. PICK p \in Packages :
            IF p \in published
            THEN /\ published' = published \ {p}
                 /\ offered' = offered \ {p} /\ removed' = TRUE
            ELSE published' = published \cup {p} /\ UNCHANGED <<offered, removed>>
    BY Zenon DEF Change, seen
  <2> QED BY Zenon, <2>1
<1>3. CASE removed' = TRUE
  BY <1>3 DEF PagesInv
<1>4. CASE published' = published \cup {p} /\ UNCHANGED <<offered, removed>>
  <2>1. /\ published \subseteq Packages /\ offered \subseteq published /\ p \in Nat
        /\ page \in Nat \ {0} /\ PageSize \in Nat \ {0}
        /\ published \cup {p} \subseteq Packages
    BY PackagesFinite, DownloadAssumption DEF RightInv, TypeInv, RemoteType, CommandType
  <2>2. /\ IsFiniteSet(published) /\ published \subseteq Nat
        /\ IsFiniteSet(published \cup {p}) /\ published \cup {p} \subseteq Nat
    BY <2>1, PackagesFinite, FS_Subset
  <2>3. ASSUME NEW q \in offered
        PROVE  /\ Rank(published, q) <= Rank(published', q)
               /\ Rank(published, q) \in Int /\ Rank(published', q) \in Int
    <3>1. q \in published /\ q \in published \cup {p}
      BY <2>1
    <3>2. Rank(published, q) <= Rank(published \cup {p}, q)
      BY <2>1, <2>2, <3>1, RankGrows
    <3>3. Rank(published, q) \in 1 .. Cardinality(published)
      BY <2>2, <3>1, UpToFinite
    <3>4. Rank(published \cup {p}, q) \in 1 .. Cardinality(published \cup {p})
      BY <2>2, <3>1, UpToFinite
    <3> QED BY <1>4, <3>2, <3>3, <3>4
  <2>4. (page - 1) * PageSize \in Int
    BY <2>1
  <2>5. ASSUME pc = "search", ~removed, NEW q \in offered,
               Rank(published', q) <= (page - 1) * PageSize
        PROVE  q \in ToSet(found)
    <3>1. Rank(published, q) <= (page - 1) * PageSize
      BY <2>3, <2>4, <2>5
    <3> QED BY <2>5, <3>1 DEF RightInv, PagesInv
  <2> QED BY <1>1, <1>4, <2>5 DEF PagesInv, Rank, UpTo
<1> QED BY <1>2, <1>3, <1>4

\* One package answers without --download-all when none is newer, and on -y or
\* when no other is known.
LEMMA OneAnswers ==
    ASSUME NEW m \in Packages, NEW known, NEW options, ~options.all,
           \A q \in known : Newness[q] <= Newness[m],
           options.yes \/ known \subseteq {m}
    PROVE  Answers({m}, known, options)
BY FS_Singleton DEF Answers

LEMMA PickRight ==
    ASSUME RightInv, Pick
    PROVE  ChoiceInv'
<1>0. found \in Seq(Packages)
  BY DEF RightInv, TypeInv, CommandType
<1> DEFINE all  == picked' = Matching /\ (opts.all \/ Len(Matching) = 1)
           best == picked' = <<Best(Matching)>> /\ Matching # <<>> /\ ~opts.all /\ opts.yes
<1>1. /\ pc = "pick" /\ UNCHANGED <<opts, passes, offered, removed>>
      /\ pc' = "idle" \/ (pc' = "resolve" /\ (all \/ best))
  BY Zenon, <1>0, PickStep
<1> DEFINE matches == Matching
           known   == offered \cap passes
<1>2. /\ matches \in Seq(Packages) /\ ToSet(matches) = ToSet(found) \cap passes
      /\ ToSet(matches) \subseteq Packages
  BY <1>0, MatchingLists, ElementOfSeq, LenProperties DEF ToSet
<1>3. ~removed => known \subseteq ToSet(matches)
  BY <1>1, <1>2 DEF RightInv, FoundInv
<1>4. ASSUME all
      PROVE  ToSet(picked') \subseteq passes /\ (~removed => Answers(ToSet(picked'), known, opts))
  <2>1. picked' = matches
    BY <1>4
  <2>2. CASE opts.all
    BY <1>2, <1>3, <2>1, <2>2 DEF Answers
  <2>3. CASE ~opts.all
    <3>1. Len(matches) = 1
      BY Zenon, <1>4, <2>3
    <3> HIDE DEF matches, known
    <3>2. ToSet(matches) = {matches[1]} /\ matches[1] \in Packages
      <4>1. DOMAIN matches = {1}
        BY <1>2, <3>1, LenProperties
      <4>2. matches[1] \in Packages
        BY <1>2, <3>1, ElementOfSeq
      <4> QED BY <4>1, <4>2 DEF ToSet
    <3>3. Newness[matches[1]] <= Newness[matches[1]]
      <4>1. \A m \in Packages : Newness[m] \in Nat
        BY DownloadAssumption
      <4>2. Newness[matches[1]] \in Nat
        BY <3>2, <4>1
      <4> QED BY <4>2
    <3>4. ~removed => Answers({matches[1]}, known, opts)
      BY <1>3, <2>3, <3>2, <3>3, OneAnswers
    <3> QED BY <1>2, <2>1, <3>2, <3>4
  <2> QED BY <2>2, <2>3
<1>5. ASSUME best
      PROVE  ToSet(picked') \subseteq passes /\ (~removed => Answers(ToSet(picked'), known, opts))
  <2> DEFINE b == Best(matches)
  <2>1. b \in Packages /\ b \in ToSet(matches) /\ \A q \in ToSet(matches) : Newness[q] <= Newness[b]
    BY <1>0, <1>5, BestMatches
  <2>2. picked' = <<b>> /\ ~opts.all /\ opts.yes
    BY Zenon, <1>5
  <2> HIDE DEF b, matches, known
  <2>3. ToSet(picked') = {b}
    BY <2>2 DEF ToSet
  <2>4. ~removed => Answers({b}, known, opts)
    BY <1>3, <2>1, <2>2, OneAnswers
  <2> QED BY <1>2, <2>1, <2>3, <2>4
<1>6. pc' = "resolve" =>
          ToSet(picked') \subseteq passes /\ (~removed => Answers(ToSet(picked'), known, opts))
  <2> HIDE DEF all, best
  <2> QED BY <1>1, <1>4, <1>5
<1>7. pc' \notin {"detail", "fetch", "stream"}
  <2> HIDE DEF all, best
  <2> QED BY <1>1
<1>8. (pc' = "resolve" => Right(ToSet(picked))')
  <2>1. UNCHANGED <<opts, passes, offered, removed>>
    BY <1>1
  <2> QED BY <1>6, <2>1 DEF Right, Answers, ToSet
<1> QED BY <1>7, <1>8 DEF ChoiceInv

\* What the list holds when the files of a package join it.
LEMMA ChosenGrows ==
    ASSUME TypeInv, NEW p \in Packages, FilesOf(p) # <<>>, items' = items \o FilesItems(p)
    PROVE  Chosen' = Chosen \cup {p}
<1> DEFINE more == FilesItems(p)
<1>1. /\ items \in Seq(Entries) /\ more \in Seq(Entries)
      /\ \A i \in DOMAIN more : more[i].package = p
      /\ Len(more) \in Nat /\ DOMAIN more = 1 .. Len(more)
      /\ Len(items) \in Nat /\ DOMAIN items = 1 .. Len(items)
  BY FilesItemsType, LenProperties DEF TypeInv, FetchType
<1>2. Len(more) # 0
  <2>1. DOMAIN FilesOf(p) = DOMAIN more /\ FilesOf(p) \in Seq(Parts[p])
    BY FilesItemsType, FilesList
  <2>2. Len(FilesOf(p)) \in Nat \ {0} /\ DOMAIN FilesOf(p) = 1 .. Len(FilesOf(p))
    BY <2>1, LenProperties, EmptySeq
  <2>3. 1 \in DOMAIN more
    BY <2>1, <2>2
  <2> QED BY <1>1, <2>3
<1> HIDE DEF more
<1>3. /\ items' = items \o more
      /\ \A i \in 1 .. Len(items) + Len(more) :
            items'[i] = IF i <= Len(items) THEN items[i] ELSE more[i - Len(items)]
      /\ DOMAIN items' = 1 .. Len(items) + Len(more)
  BY <1>1, ConcatProperties, LenProperties DEF more
<1>4. Chosen' = {items'[i].package : i \in DOMAIN items'}
  BY DEF Chosen
<1>5. ASSUME NEW i \in DOMAIN items' PROVE items'[i].package \in Chosen \cup {p}
  <2>1. CASE i <= Len(items)
    BY <1>1, <1>3, <2>1 DEF Chosen
  <2>2. CASE ~(i <= Len(items))
    <3>1. i - Len(items) \in 1 .. Len(more) /\ items'[i] = more[i - Len(items)]
      BY <1>1, <1>3, <2>2
    <3> QED BY <1>1, <3>1
  <2> QED BY <2>1, <2>2
<1>6. ASSUME NEW i \in DOMAIN items
      PROVE  i \in DOMAIN items' /\ items'[i].package = items[i].package
  BY <1>1, <1>3
<1>7. Len(items) + 1 \in DOMAIN items' /\ items'[Len(items) + 1].package = p
  <2>1. Len(items) + 1 \in DOMAIN items' /\ items'[Len(items) + 1] = more[1]
    BY <1>1, <1>2, <1>3
  <2> QED BY <1>1, <1>2, <2>1
<1> QED BY <1>4, <1>5, <1>6, <1>7 DEF Chosen

LEMMA ListRight ==
    ASSUME RightInv, ResolveSingle \/ ResolveAllFiles \/ Detail
    PROVE  ChoiceInv'
<1>0. TypeInv /\ ChoiceInv
  BY DEF RightInv
<1>1. UNCHANGED <<opts, passes, offered, removed>>
  <2>1. ResolveAllFiles => UNCHANGED <<opts, passes, offered, removed>>
    BY DEF ResolveAllFiles, Goto, seen
  <2>2. ResolveSingle => UNCHANGED <<opts, passes, offered, removed>>
    BY Zenon, SingleStep
  <2>3. Detail => UNCHANGED <<opts, passes, offered, removed>>
    BY Zenon, DetailStep
  <2> QED BY <2>1, <2>2, <2>3
\* The sets of packages that were right still are.
<1>2. \A old, new : new = old /\ Right(old) =>
          /\ new \subseteq passes'
          /\ ~removed' => Answers(new, offered' \cap passes', opts')
  BY <1>1 DEF Right
<1>3. CASE ResolveSingle
  <2>1. pc = "resolve" /\ (pc' = "idle" \/ (pc' = "fetch" /\ items' = SingleItems))
    BY Zenon, <1>3, SingleStep
  <2>2. CASE pc' = "idle"
    BY <2>2 DEF ChoiceInv
  <2>3. CASE pc' = "fetch" /\ items' = SingleItems
    <3>1. /\ picked \in Seq(Packages) /\ DOMAIN items' = DOMAIN picked
          /\ \A i \in DOMAIN picked : items'[i].package = picked[i]
      BY <1>0, <2>3, SingleItemsType DEF TypeInv, CommandType
    <3>2. Chosen' = ToSet(picked)
      BY <3>1 DEF Chosen, ToSet
    <3>3. Right(ToSet(picked))
      BY <1>0, <2>1 DEF ChoiceInv
    <3>4. Right(Chosen)'
      BY <1>2, <3>2, <3>3 DEF Right
    <3> QED BY <2>3, <3>4 DEF ChoiceInv
  <2> QED BY <2>1, <2>2, <2>3
<1>4. CASE ResolveAllFiles
  <2>1. pc = "resolve" /\ pc' = "detail" /\ UNCHANGED <<items, picked>>
    BY <1>4 DEF ResolveAllFiles, Goto, search, fetches
  <2>2. DOMAIN items = {}
    BY <1>0, <2>1 DEF TypeInv, FetchType
  <2>3. (Chosen \cup ToSet(picked))' = ToSet(picked)
    BY <2>1, <2>2 DEF Chosen, ToSet
  <2>4. Right(Chosen \cup ToSet(picked))'
    BY <1>0, <1>2, <2>1, <2>3 DEF ChoiceInv, Right
  <2> QED BY <2>1, <2>4 DEF ChoiceInv
<1>5. CASE Detail
  <2>1. /\ pc = "detail"
        /\ \/ pc' = "idle"
           \/ /\ FilesOf(picked[1]) # <<>>
              /\ items' = items \o FilesItems(picked[1]) /\ picked' = Tail(picked)
              /\ \/ Len(picked) = 1 /\ pc' = "fetch"
                 \/ Len(picked) # 1 /\ pc' = "detail"
    BY Zenon, <1>5, DetailStep
  <2>2. CASE pc' = "idle"
    BY <2>2 DEF ChoiceInv
  <2>3. CASE /\ FilesOf(picked[1]) # <<>>
             /\ items' = items \o FilesItems(picked[1]) /\ picked' = Tail(picked)
             /\ \/ Len(picked) = 1 /\ pc' = "fetch"
                \/ Len(picked) # 1 /\ pc' = "detail"
    <3>1. /\ picked[1] \in Packages /\ ToSet(picked) = {picked[1]} \cup ToSet(Tail(picked))
          /\ Tail(picked) = <<>> <=> Len(picked) = 1
      BY <1>0, <2>1, ToSetTail DEF TypeInv, CommandType
    <3>2. Chosen' = Chosen \cup {picked[1]}
      BY <1>0, <2>3, <3>1, ChosenGrows
    <3>3. ToSet(picked)' = ToSet(Tail(picked)) /\ ToSet(<<>>) = {}
      BY <2>3 DEF ToSet
    <3>4. Chosen' \cup ToSet(picked)' = Chosen \cup ToSet(picked)
      BY <3>1, <3>2, <3>3
    <3>5. Right(Chosen \cup ToSet(picked))
      BY <1>0, <2>1 DEF ChoiceInv
    <3>6. Right(Chosen \cup ToSet(picked))'
      BY <1>2, <3>4, <3>5 DEF Right
    <3>7. Len(picked) = 1 => Right(Chosen)'
      <4>1. Len(picked) = 1 => Chosen' = Chosen \cup ToSet(picked)
        BY <3>1, <3>2, <3>3
      <4> QED BY <1>2, <3>5, <4>1 DEF Right
    <3> QED BY <2>3, <3>6, <3>7 DEF ChoiceInv
  <2> QED BY <2>1, <2>2, <2>3
<1> QED BY <1>3, <1>4, <1>5

LEMMA NextRightInv == RightInv /\ [Next]_vars => RightInv'
<1> SUFFICES ASSUME RightInv, [Next]_vars PROVE RightInv'
  OBVIOUS
<1>0. TypeInv /\ TypeInv' /\ PagesInv /\ FoundInv /\ ChoiceInv
  BY NextTypeInv DEF RightInv
<1>1. CASE Start
  <2>1. pc' = "search" /\ page' = 1 /\ offered' = published /\ published' = published
    BY <1>1 DEF Start, remote
  <2>2. \A p \in published : ~(Rank(published, p) <= (page' - 1) * PageSize)
    <3>1. PageSize \in Nat /\ (page' - 1) * PageSize = 0
      BY <2>1, DownloadAssumption
    <3>2. \A p \in published : Rank(published, p) \in 1 .. Cardinality(published)
      BY <1>0, PublishedFinite, UpToFinite DEF TypeInv, RemoteType
    <3> QED BY <3>1, <3>2
  <2>3. PagesInv'
    BY <2>1, <2>2 DEF PagesInv, Rank, UpTo
  <2> QED BY <1>0, <2>1, <2>3 DEF RightInv, FoundInv, ChoiceInv
<1>2. CASE SearchPage
  <2>1. pc' = "search" \/ pc' = "pick"
    BY <1>2 DEF SearchPage, Goto, command
  <2> QED BY <1>0, <1>2, <2>1, PageFound DEF RightInv, PagesInv, FoundInv, ChoiceInv
<1>3. CASE Pick
  <2>1. pc' = "idle" \/ pc' = "resolve"
    <3>1. found \in Seq(Packages)
      BY <1>0 DEF TypeInv, CommandType
    <3> QED BY Zenon, <1>3, <3>1, PickStep
  <2> QED BY <1>0, <1>3, <2>1, PickRight DEF RightInv, PagesInv, FoundInv
<1>4. CASE ResolveSingle \/ ResolveAllFiles \/ Detail
  <2>1. pc' \in {"idle", "fetch", "detail"}
    <3>1. ResolveAllFiles => pc' = "detail"
      BY DEF ResolveAllFiles, Goto
    <3>2. ResolveSingle => pc' = "idle" \/ pc' = "fetch"
      BY Zenon, SingleStep
    <3>3. Detail => pc' = "idle" \/ pc' = "fetch" \/ pc' = "detail"
      BY Zenon, DetailStep
    <3> QED BY <1>4, <3>1, <3>2, <3>3
  <2> QED BY <1>0, <1>4, <2>1, ListRight DEF RightInv, PagesInv, FoundInv
<1>5. CASE RequestFails \/ DryRun \/ Report \/ Killed
  <2>1. pc' = "idle"
    BY <1>5 DEF RequestFails, DryRun, Report, Killed, End, Goto
  <2> QED BY <1>0, <2>1 DEF RightInv, PagesInv, FoundInv, ChoiceInv
<1>6. CASE Exists \/ NotServed \/ Open \/ Finished \/ Broken
  <2>1. /\ pc \in {"fetch", "stream"} /\ pc' \in {"fetch", "stream"}
        /\ UNCHANGED <<opts, passes, offered, removed, items>>
    BY <1>6 DEF Exists, NotServed, Open, Finished, Broken, Fetching, Goto, Record, command,
                seen, fetches
  <2>2. Chosen' = Chosen
    BY <2>1 DEF Chosen
  <2>3. Right(Chosen)'
    BY <1>0, <2>1, <2>2 DEF ChoiceInv, Right
  <2> QED BY <1>0, <2>1, <2>3 DEF RightInv, PagesInv, FoundInv, ChoiceInv
<1>7. CASE Change
  <2>1. UNCHANGED <<pc, opts, passes, found, picked, items>>
    BY <1>7 DEF Change, command, search, fetches
  <2>2. removed' \/ UNCHANGED <<offered, removed>>
    BY <1>7 DEF Change, seen
  <2>3. FoundInv'
    BY <1>0, <2>1, <2>2 DEF FoundInv
  <2>4. Chosen' = Chosen /\ ToSet(picked)' = ToSet(picked)
    BY <2>1 DEF Chosen, ToSet
  <2>5. \A old, new : new = old /\ Right(old) =>
            /\ new \subseteq passes'
            /\ ~removed' => Answers(new, offered' \cap passes', opts')
    BY <2>1, <2>2 DEF Right
  <2>6. /\ Right(ToSet(picked)) => Right(ToSet(picked))'
        /\ Right(Chosen \cup ToSet(picked)) => Right(Chosen \cup ToSet(picked))'
        /\ Right(Chosen) => Right(Chosen)'
    BY <2>4, <2>5 DEF Right
  <2>7. ChoiceInv'
    BY <1>0, <2>1, <2>6 DEF ChoiceInv
  <2> QED BY <1>0, <1>7, <2>3, <2>7, ChangeKeepsPages DEF RightInv
<1>8. CASE UNCHANGED vars
  <2>1. UNCHANGED <<published, pc, opts, passes, page, found, picked, items, offered, removed>>
    BY <1>8 DEF vars, remote, command, search, fetches, seen
  <2>2. Chosen' = Chosen /\ ToSet(picked)' = ToSet(picked)
    BY <2>1 DEF Chosen, ToSet
  <2> QED BY <1>0, <2>1, <2>2 DEF RightInv, PagesInv, FoundInv, ChoiceInv, Right, Rank, UpTo
<1> QED BY <1>1, <1>2, <1>3, <1>4, <1>5, <1>6, <1>7, <1>8 DEF Next, Work

\* Of the packages that were there throughout the search and match, all are fetched
\* on --download-all, the newest on -y, and the only one without either option.
THEOREM RightPackagesChosen == Spec => []RightPackages
<1>1. RightInv => RightPackages
  BY DEF RightInv, ChoiceInv, Right, Answers, Chosen, RightPackages
<1> QED BY <1>1, InitRightInv, NextRightInv, PTL DEF Spec

=============================================================================

--------------------------- MODULE ServeRunProofs ---------------------------
(***************************************************************************)
(* The start of `serve` for any profile files, policies and --profile      *)
(* lists: who can turn a purge on, and that the gates hold for the policy  *)
(* the calls use.  And the answers, for any policies, tables, queries and  *)
(* texts: what they let through is what the policy of the source lets      *)
(* through, and a result that was cut says so.                             *)
(*                                                                         *)
(* Names are resolved by their last position in a file, the merged ones    *)
(* are put in order, and a retention is a minimum: each is a CHOOSE over a *)
(* set of numbers, which exists by the least-element principle.  The sums  *)
(* of sizes and the accumulator of the loop over the rows are recursive    *)
(* functions: by the same principle there is no first index at which the   *)
(* function of an index is missing, or at which what is claimed of it      *)
(* fails.                                                                  *)
(***************************************************************************)
EXTENDS ServeRun, FiniteSetTheorems, WellFoundedInduction, TLAPS

-----------------------------------------------------------------------------
(* Least and greatest elements.                                            *)

\* A set of natural numbers has a least element.
LEMMA LeastNat ==
    ASSUME NEW T \in SUBSET Nat, T # {}
    PROVE  \E m \in T : \A k \in T : m <= k
<1> DEFINE R == {ss \in Nat \X Nat : ss[1] < ss[2]}
<1>1. IsWellFoundedOn(R, Nat)
    BY NatLessThanWellFounded DEF OpToRel
<1>2. \A x, y \in Nat : x < y => <<x, y>> \in R
    OBVIOUS
<1> HIDE DEF R
<1>3. PICK m \in T : \A k \in T : ~(<<k, m>> \in R)
    BY <1>1, WFMin
<1>4. \A k \in T : ~(k < m)
    BY <1>2, <1>3
<1> QED
    BY <1>4

\* What Least returns.
LEMMA LeastFacts ==
    ASSUME NEW T \in SUBSET Nat, T # {}
    PROVE  Least(T) \in T /\ \A k \in T : Least(T) <= k
  BY LeastNat DEF Least

\* A set of positions has a greatest element.
LEMMA GreatestNat ==
    ASSUME NEW n \in Nat, NEW T \in SUBSET (1 .. n), T # {}
    PROVE  \E m \in T : \A k \in T : k <= m
<1> DEFINE U == {n - k : k \in T}
<1>1. \A k \in T : k \in Nat /\ n - k \in Nat
    OBVIOUS
<1>2. U \in SUBSET Nat /\ U # {}
    BY <1>1
<1> HIDE DEF U
<1>3. PICK u \in U : \A k \in U : u <= k
    BY <1>2, LeastNat
<1>4. PICK m \in T : u = n - m
    BY <1>3 DEF U
<1>5. \A k \in T : n - m <= n - k
    BY <1>3, <1>4 DEF U
<1> QED
    BY <1>1, <1>5

\* Every position up to the size of the set is taken by Nth.
LEMMA NthFacts ==
    ASSUME NEW n \in Nat, NEW at \in SUBSET (1 .. n), NEW k \in 1 .. Cardinality(at)
    PROVE  Nth(at, k) \in at
<1> DEFINE Below(i) == {j \in at : j < i}
           Bad == {m \in 1 .. Cardinality(at) : ~\E i \in at : Cardinality(Below(i)) = m - 1}
<1>0. at \in SUBSET Nat
    OBVIOUS
<1>1. IsFiniteSet(at) /\ Cardinality(at) \in Nat
    <2>1. IsFiniteSet(1 .. n)
        BY FS_Interval
    <2> QED
        BY <2>1, FS_Subset, FS_CardinalityType
<1>2. ASSUME Bad # {} PROVE FALSE
    <2>1. PICK m \in Bad : \A l \in Bad : m <= l
        <3>1. Bad \in SUBSET Nat
            BY <1>1
        <3> HIDE DEF Bad
        <3> QED
            BY <3>1, <1>2, LeastNat
    <2>2. m \in 1 .. Cardinality(at) /\ ~\E i \in at : Cardinality(Below(i)) = m - 1
        BY <2>1
    <2>3. CASE m = 1
        <3>1. at # {}
            BY <1>1, <2>2, FS_EmptySet
        <3>2. PICK i \in at : \A j \in at : i <= j
            BY <1>0, <3>1, LeastNat
        <3>3. \A j \in at : i <= j /\ i \in Nat /\ j \in Nat
            BY <1>0, <3>2
        <3>4. Below(i) = {}
            <4>1. ASSUME NEW j \in at PROVE ~(j < i)
                BY <3>3
            <4> QED
                BY <4>1
        <3> QED
            BY <3>4, <2>2, <2>3, FS_EmptySet
    <2>4. CASE m # 1
        <3>1. m - 1 \in 1 .. Cardinality(at) /\ m - 1 \notin Bad
            <4>1. m \in Nat /\ 1 <= m /\ m <= Cardinality(at)
                BY <1>1, <2>2
            <4>2. m - 1 \in 1 .. Cardinality(at) /\ ~(m <= m - 1)
                BY <1>1, <4>1, <2>4
            <4> HIDE DEF Bad
            <4> QED
                BY <4>2, <2>1
        <3>2. PICK i \in at : Cardinality(Below(i)) = (m - 1) - 1
            BY <3>1 DEF Bad
        <3> DEFINE T == Below(i) \cup {i}
        <3>3. Cardinality(T) = m - 1 /\ T \subseteq at /\ IsFiniteSet(T)
            <4>1. IsFiniteSet(Below(i)) /\ i \notin Below(i)
                BY <1>1, FS_Subset
            <4>2. Cardinality(T) = Cardinality(Below(i)) + 1 /\ IsFiniteSet(T)
                BY <4>1, FS_AddElement
            <4> QED
                BY <3>2, <4>2, <2>2, <1>1
        <3>4. at \ T # {}
            <4>1. SUFFICES ASSUME at = T PROVE FALSE
                BY <3>3
            <4> QED
                <5> HIDE DEF T
                <5>1. Cardinality(at) = m - 1
                    BY <4>1, <3>3
                <5>2. m <= Cardinality(at) /\ m \in Nat
                    BY <2>2, <1>1
                <5> QED
                    BY <5>1, <5>2
        <3>5. PICK l \in at \ T : \A j \in at \ T : l <= j
            <4>1. at \ T \in SUBSET Nat
                BY <1>0
            <4> HIDE DEF T
            <4> QED
                BY <4>1, <3>4, LeastNat
        <3>6. Below(l) = T
            <4>1. i \in Nat /\ l \in Nat /\ i < l
                <5>1. i \in Nat /\ l \in Nat /\ l # i /\ ~(l < i)
                    BY <1>0
                <5> QED
                    BY <5>1
            <4>2. ASSUME NEW j \in at PROVE j < l <=> j \in T
                <5>1. j \in Nat
                    BY <1>0
                <5>2. j \in T <=> j <= i
                    BY <4>1, <5>1
                <5>3. j \notin T => l <= j
                    BY <3>5
                <5> HIDE DEF T
                <5> QED
                    BY <4>1, <5>1, <5>2, <5>3
            <4> QED
                BY <4>2
        <3> QED
            BY <3>6, <3>3, <2>2, <3>5
    <2> QED
        BY <2>3, <2>4
<1>3. \E i \in at : Cardinality({j \in at : j < i}) = k - 1
    BY <1>2
<1> QED
    BY <1>3 DEF Nth

-----------------------------------------------------------------------------
(* Sections, merged and selected profiles.                                 *)

\* A function on 1 .. n is a sequence of length n, and the other way round.
LEMMA SequenceFacts ==
    /\ \A s : IsSequence(s) => Len(s) \in Nat /\ DOMAIN s = 1 .. Len(s)
    /\ \A n \in Nat : \A s : s = [k \in 1 .. n |-> s[k]] => IsSequence(s) /\ Len(s) = n
  BY DEF IsSequence

\* A section that is there is one of the profiles of the file, of that name.
LEMMA SectionFacts ==
    ASSUME NEW file, IsSequence(file), NEW n, Section(file, n) # None
    PROVE  \E i \in DOMAIN file : Section(file, n) = file[i] /\ file[i].name = n
<1> DEFINE at == {i \in DOMAIN file : file[i].name = n}
<1>1. at # {} /\ Section(file, n) = file[CHOOSE i \in at : \A j \in at : j <= i]
    BY DEF Section
<1>2. Len(file) \in Nat /\ DOMAIN file = 1 .. Len(file)
    BY SequenceFacts
<1>3. at \in SUBSET (1 .. Len(file))
    BY <1>2
<1> HIDE DEF at
<1>4. \E i \in at : \A j \in at : j <= i
    BY <1>1, <1>2, <1>3, GreatestNat
<1>5. (CHOOSE i \in at : \A j \in at : j <= i) \in at
    BY <1>4
<1> QED
    BY <1>1, <1>5 DEF at

\* What the team and the user gave for n.
Team(f, n) == Section(f.project, n)
Own(f, n) == Section(f.user, n)

\* A section of either file is a profile with that name.
LEMMA FileFacts ==
    ASSUME NEW f \in FileSets, NEW n
    PROVE  /\ Team(f, n) # None => IsProfile(Team(f, n)) /\ Team(f, n).name = n
           /\ Own(f, n) # None => IsProfile(Own(f, n)) /\ Own(f, n).name = n
<1>1. /\ IsSequence(f.user) /\ \A i \in DOMAIN f.user : IsProfile(f.user[i])
      /\ IsSequence(f.project) /\ \A i \in DOMAIN f.project : IsProfile(f.project[i])
    BY ServeAssumption
<1>2. ASSUME Team(f, n) # None PROVE IsProfile(Team(f, n)) /\ Team(f, n).name = n
    <2>1. PICK i \in DOMAIN f.project : Team(f, n) = f.project[i] /\ f.project[i].name = n
        BY <1>1, <1>2, SectionFacts DEF Team
    <2> QED
        BY <1>1, <2>1
<1>3. ASSUME Own(f, n) # None PROVE IsProfile(Own(f, n)) /\ Own(f, n).name = n
    <2>1. PICK i \in DOMAIN f.user : Own(f, n) = f.user[i] /\ f.user[i].name = n
        BY <1>1, <1>3, SectionFacts DEF Own
    <2> QED
        BY <1>1, <2>1
<1> QED
    BY <1>2, <1>3

\* What a merged profile says of its sections: only the team can have turned a
\* purge on, and production is never taken back.
Merged(f, n, p) ==
    /\ p.name = n /\ p.purge \in Nat /\ p.purge <= Purge /\ p.days \in Nat \cup {None}
    /\ p.purge = Purge => /\ Team(f, n) # None /\ Team(f, n).purge = Purge
                          /\ Own(f, n) # None => Own(f, n).purge = Purge
    /\ (Own(f, n) # None /\ Own(f, n).production) \/ (Team(f, n) # None /\ Team(f, n).production)
          => p.production
    /\ Team(f, n) # None /\ Team(f, n).policy # None => p.policy = Team(f, n).policy

\* merge_profiles makes such a profile of every name in one of the files.
LEMMA MergeFacts ==
    ASSUME NEW f \in FileSets, NEW n, Given(f, n)
    PROVE  Merged(f, n, Merge(f, n))
<1> DEFINE user == Own(f, n)
           project == Team(f, n)
<1>1. user # None \/ project # None
    BY DEF Given, Own, Team
<1>2. Merge(f, n) = CASE user # None /\ project # None -> MergeOne(user, project)
                      [] project = None -> DowngradeUserOnly(user)
                      [] user = None -> project
    BY DEF Merge, Own, Team
<1>3. user # None => IsProfile(user) /\ user.name = n
    BY FileFacts
<1>4. project # None => IsProfile(project) /\ project.name = n
    BY FileFacts
<1> HIDE DEF user, project
<1>5. CASE user # None /\ project # None
    <2>1. Merge(f, n) = MergeOne(user, project)
        BY <1>2, <1>5
    <2> DEFINE modes == {project.purge, user.purge}
    <2>2. Least(modes) \in modes /\ \A k \in modes : Least(modes) <= k
        BY <1>3, <1>4, <1>5, LeastFacts DEF IsProfile, Off, Warn, Purge
    <2>3. /\ Merge(f, n).name = n /\ Merge(f, n).purge = Least(modes)
          /\ Merge(f, n).days = Or(project.days, user.days)
          /\ Merge(f, n).production = (project.production \/ user.production)
          /\ project.policy # None => Merge(f, n).policy = project.policy
        BY <1>4, <1>5, <2>1 DEF MergeOne, Or
    <2>4. user.purge \in 0 .. 2 /\ project.purge \in 0 .. 2
        BY <1>3, <1>4, <1>5 DEF IsProfile, Off, Warn, Purge
    <2>5. /\ Merge(f, n).purge \in Nat /\ Merge(f, n).purge <= Purge
          /\ Merge(f, n).purge = Purge => project.purge = Purge /\ user.purge = Purge
        BY <2>2, <2>3, <2>4 DEF Purge
    <2>6. Merge(f, n).days \in Nat \cup {None}
        BY <1>3, <1>4, <1>5, <2>3 DEF IsProfile, Or
    <2> QED
        BY <1>5, <2>3, <2>5, <2>6 DEF Merged, user, project
<1>6. CASE project = None
    <2>1. Merge(f, n) = [user EXCEPT !.purge = Off] /\ user # None
        BY <1>1, <1>2, <1>6 DEF DowngradeUserOnly
    <2>2. /\ Merge(f, n).name = n /\ Merge(f, n).purge = Off
          /\ Merge(f, n).days = user.days /\ Merge(f, n).production = user.production
        BY <1>3, <2>1 DEF IsProfile
    <2> QED
        BY <1>3, <1>6, <2>1, <2>2 DEF Merged, IsProfile, Off, Purge, user, project
<1>7. CASE project # None /\ user = None
    <2>1. Merge(f, n) = project
        BY <1>2, <1>7
    <2> QED
        BY <1>4, <1>7, <2>1 DEF Merged, IsProfile, Off, Warn, Purge, user, project
<1> QED
    BY <1>5, <1>6, <1>7

\* The merged profiles are in a sequence, each one the merge of its name.
LEMMA MergedFacts ==
    ASSUME NEW f \in FileSets
    PROVE  /\ IsSequence(MergeProfiles(f))
           /\ \A i \in DOMAIN MergeProfiles(f) :
                 LET p == MergeProfiles(f)[i] IN Merged(f, p.name, p)
<1> DEFINE at == {i \in DOMAIN NameOrder : Given(f, NameOrder[i])}
           N == Cardinality(at)
<1>1. Len(NameOrder) \in Nat /\ DOMAIN NameOrder = 1 .. Len(NameOrder)
    BY SequenceFacts, ProfilesAssumption
<1>2. at \in SUBSET (1 .. Len(NameOrder))
    BY <1>1
<1>3. N \in Nat
    <2>1. IsFiniteSet(1 .. Len(NameOrder))
        BY <1>1, FS_Interval
    <2> QED
        BY <1>2, <2>1, FS_Subset, FS_CardinalityType
<1>4. MergedNames(f) = [k \in 1 .. N |-> NameOrder[Nth(at, k)]]
    BY DEF MergedNames, Pick
<1>5. \A k \in 1 .. N : Given(f, MergedNames(f)[k])
    <2> HIDE DEF at
    <2>1. \A k \in 1 .. N : Nth(at, k) \in at
        BY <1>1, <1>2, NthFacts
    <2> QED
        BY <1>4, <2>1 DEF at
<1> HIDE DEF at, N
<1>6. MergeProfiles(f) = [k \in 1 .. N |-> Merge(f, MergedNames(f)[k])]
    BY <1>4 DEF MergeProfiles
<1>7. IsSequence(MergeProfiles(f))
    BY <1>3, <1>6, SequenceFacts
<1>8. ASSUME NEW i \in DOMAIN MergeProfiles(f)
      PROVE  Merged(f, MergeProfiles(f)[i].name, MergeProfiles(f)[i])
    <2>1. Merged(f, MergedNames(f)[i], MergeProfiles(f)[i])
        BY <1>5, <1>6, MergeFacts
    <2> QED
        BY <2>1 DEF Merged
<1> QED
    BY <1>7, <1>8

\* So are those that --profile selects.
LEMMA SelectFacts ==
    ASSUME NEW f \in FileSets, NEW list \in Lists, Selectable(MergeProfiles(f), list)
    PROVE  LET chosen == SelectProfiles(MergeProfiles(f), list)
           IN  /\ IsSequence(chosen)
               /\ \A i \in DOMAIN chosen : Merged(f, chosen[i].name, chosen[i])
<1> DEFINE all == MergeProfiles(f)
           chosen == SelectProfiles(all, list)
<1>1. IsSequence(all) /\ \A i \in DOMAIN all : Merged(f, all[i].name, all[i])
    BY MergedFacts
<1>2. \A i \in DOMAIN list : Section(all, list[i]) # None
    BY DEF Selectable
<1> HIDE DEF all
<1> DEFINE Goal == IsSequence(chosen) /\ \A i \in DOMAIN chosen : Merged(f, chosen[i].name, chosen[i])
<1>3. ASSUME list = <<>> PROVE Goal
    <2>1. chosen = all
        BY <1>3 DEF SelectProfiles
    <2> QED
        BY <1>1, <2>1
<1>4. ASSUME list # <<>> PROVE Goal
    <2>1. Len(list) \in Nat /\ DOMAIN list = 1 .. Len(list)
        BY SequenceFacts, ServeAssumption
    <2>2. chosen = [i \in 1 .. Len(list) |-> Section(all, list[i])]
        BY <1>4, <2>1 DEF SelectProfiles
    <2>3. IsSequence(chosen)
        BY <2>1, <2>2, SequenceFacts
    <2>4. ASSUME NEW i \in DOMAIN chosen PROVE Merged(f, chosen[i].name, chosen[i])
        <3>1. i \in DOMAIN list /\ chosen[i] = Section(all, list[i])
            BY <2>1, <2>2
        <3>2. PICK j \in DOMAIN all : Section(all, list[i]) = all[j]
            BY <1>1, <1>2, <3>1, SectionFacts
        <3> QED
            BY <1>1, <3>1, <3>2
    <2> QED
        BY <2>3, <2>4
<1>5. Goal
    BY <1>3, <1>4
<1> QED
    BY <1>5 DEF all

\* A sweep that purges is one that every profile asks for.
LEMMA RetentionFacts ==
    ASSUME NEW ps, \A i \in DOMAIN ps : ps[i].purge \in Nat /\ ps[i].purge <= Purge,
           Retention(ps) # None, Retention(ps).mode = Purge
    PROVE  \A i \in DOMAIN ps : ps[i].purge = Purge
<1> DEFINE modes == {ps[i].purge : i \in DOMAIN ps}
           days == {ps[i].days : i \in DOMAIN ps} \ {None}
<1>1. days # {} /\ Least(modes) = Purge
    BY DEF Retention
<1>2. modes # {} /\ modes \in SUBSET Nat
    BY <1>1
<1>3. \A k \in modes : Least(modes) <= k
    <2> HIDE DEF modes
    <2> QED
        BY <1>2, LeastFacts
<1>4. \A i \in DOMAIN ps : Purge <= ps[i].purge
    BY <1>1, <1>3
<1> QED
    BY <1>4 DEF Purge

-----------------------------------------------------------------------------
(* Sums of sizes.                                                          *)

\* A function that adds up the first n sizes of a row.
Adds(f, row, n) == f = [j \in 0 .. n |-> IF j = 0 THEN 0 ELSE f[j - 1] + row[j].size]
Sums(row) == CHOOSE f : Adds(f, row, Len(row))

\* There is one for every row.
LEMMA SumsExist ==
    ASSUME NEW row, NEW n \in Nat
    PROVE  \E f : Adds(f, row, n)
<1> DEFINE Bad == {m \in Nat : ~\E f : Adds(f, row, m)}
<1>1. ASSUME Bad # {} PROVE FALSE
    <2>1. PICK m \in Bad : \A k \in Bad : m <= k
        <3>1. Bad \in SUBSET Nat
            OBVIOUS
        <3> HIDE DEF Bad
        <3> QED
            BY <1>1, <3>1, LeastNat
    <2>2. m \in Nat /\ ~\E f : Adds(f, row, m)
        BY <2>1
    <2>3. CASE m = 0
        <3> DEFINE f == [j \in 0 .. 0 |-> 0]
        <3>1. Adds(f, row, 0)
            BY DEF Adds
        <3> QED
            BY <2>2, <2>3, <3>1
    <2>4. CASE m # 0
        <3>1. m - 1 \in Nat /\ m - 1 \notin Bad
            <4>1. m - 1 \in Nat /\ ~(m <= m - 1)
                BY <2>2, <2>4
            <4> HIDE DEF Bad
            <4> QED
                BY <2>1, <4>1
        <3>2. PICK f : Adds(f, row, m - 1)
            BY <3>1
        <3> DEFINE h == [j \in 0 .. m |-> IF j = m THEN f[m - 1] + row[m].size ELSE f[j]]
        <3>3. \A j \in 0 .. (m - 1) : f[j] = IF j = 0 THEN 0 ELSE f[j - 1] + row[j].size
            BY <3>2 DEF Adds
        <3>4. \A j \in 0 .. m : h[j] = IF j = 0 THEN 0 ELSE h[j - 1] + row[j].size
            BY <2>2, <2>4, <3>3
        <3>5. h = [j \in 0 .. m |-> IF j = 0 THEN 0 ELSE h[j - 1] + row[j].size]
            <4>1. h = [j \in 0 .. m |-> h[j]]
                OBVIOUS
            <4> HIDE DEF h
            <4> QED
                BY <3>4, <4>1
        <3> QED
            BY <2>2, <3>5 DEF Adds
    <2> QED
        BY <2>3, <2>4
<1> QED
    BY <1>1

\* So Size is the last of the partial sums.
LEMMA SumsFacts ==
    ASSUME NEW row, Len(row) \in Nat
    PROVE  /\ Size(row) = Sums(row)[Len(row)]
           /\ \A j \in 0 .. Len(row) :
                 Sums(row)[j] = IF j = 0 THEN 0 ELSE Sums(row)[j - 1] + row[j].size
<1>1. Size(row) = Sums(row)[Len(row)]
    BY DEF Size, Sums, Adds
<1>2. Adds(Sums(row), row, Len(row))
    BY SumsExist DEF Sums
<1> QED
    BY <1>1, <1>2 DEF Adds

\* A row of cells with sizes.
Sized(row) == Len(row) \in Nat /\ \A j \in 1 .. Len(row) : row[j].size \in Nat

\* Rows that begin with the same sizes have the same first sums, all naturals.
LEMMA SumsAgree ==
    ASSUME NEW s, Sized(s), NEW t, Sized(t), NEW n \in Nat, n <= Len(s), n <= Len(t),
           \A j \in 1 .. n : s[j].size = t[j].size
    PROVE  \A j \in 0 .. n : Sums(s)[j] = Sums(t)[j] /\ Sums(s)[j] \in Nat
<1> DEFINE Bad == {m \in 0 .. n : ~(Sums(s)[m] = Sums(t)[m] /\ Sums(s)[m] \in Nat)}
<1>1. /\ \A j \in 0 .. Len(s) : Sums(s)[j] = IF j = 0 THEN 0 ELSE Sums(s)[j - 1] + s[j].size
      /\ \A j \in 0 .. Len(t) : Sums(t)[j] = IF j = 0 THEN 0 ELSE Sums(t)[j - 1] + t[j].size
    BY SumsFacts DEF Sized
<1>2. ASSUME Bad # {} PROVE FALSE
    <2>1. PICK m \in Bad : \A k \in Bad : m <= k
        <3>1. Bad \in SUBSET Nat
            OBVIOUS
        <3> HIDE DEF Bad
        <3> QED
            BY <1>2, <3>1, LeastNat
    <2>2. m \in 0 .. n /\ ~(Sums(s)[m] = Sums(t)[m] /\ Sums(s)[m] \in Nat)
        BY <2>1
    <2>3. m # 0
        BY <1>1, <2>2 DEF Sized
    <2>4. m - 1 \in 0 .. n /\ m - 1 \notin Bad
        <3>1. m - 1 \in 0 .. n /\ ~(m <= m - 1)
            BY <2>2, <2>3
        <3> HIDE DEF Bad
        <3> QED
            BY <2>1, <3>1
    <2>5. Sums(s)[m - 1] = Sums(t)[m - 1] /\ Sums(s)[m - 1] \in Nat
        BY <2>4
    <2>6. m \in 1 .. n /\ m \in 0 .. Len(s) /\ m \in 0 .. Len(t)
        BY <2>2, <2>3 DEF Sized
    <2>7. /\ Sums(s)[m] = Sums(s)[m - 1] + s[m].size
          /\ Sums(t)[m] = Sums(t)[m - 1] + t[m].size
        BY <1>1, <2>3, <2>6
    <2>8. s[m].size = t[m].size /\ s[m].size \in Nat
        BY <2>6 DEF Sized
    <2> QED
        BY <2>2, <2>5, <2>7, <2>8
<1> QED
    BY <1>2

\* The size of a row is a natural number, and an element more adds its own.
LEMMA SizeFacts ==
    ASSUME NEW s, Sized(s)
    PROVE  /\ Size(s) \in Nat
           /\ Len(s) = 0 => Size(s) = 0
           /\ \A t : /\ Sized(t) /\ Len(t) = Len(s) + 1
                     /\ \A j \in 1 .. Len(s) : t[j].size = s[j].size
                     => Size(t) = Size(s) + t[Len(t)].size
<1>0. Len(s) \in Nat
    BY DEF Sized
<1>1. Size(s) = Sums(s)[Len(s)] /\ Sums(s)[0] = 0
    BY <1>0, SumsFacts
<1>2. Size(s) \in Nat
    BY <1>0, <1>1, SumsAgree
<1>3. ASSUME NEW t, Sized(t), Len(t) = Len(s) + 1, \A j \in 1 .. Len(s) : t[j].size = s[j].size
      PROVE  Size(t) = Size(s) + t[Len(t)].size
    <2>1. Sums(t)[Len(s)] = Sums(s)[Len(s)]
        BY <1>0, <1>3, SumsAgree
    <2>2. Size(t) = Sums(t)[Len(t)] /\ Sums(t)[Len(t)] = Sums(t)[Len(t) - 1] + t[Len(t)].size
        BY <1>0, <1>3, SumsFacts
    <2> QED
        BY <1>0, <1>1, <1>3, <2>1, <2>2
<1> QED
    BY <1>0, <1>1, <1>2, <1>3

-----------------------------------------------------------------------------
(* Cells and rows.                                                         *)

\* What a policy hides under a choice of gaze, and what it lets through.
Lets(v, policy) == v.class \in Detected(policy) => "preserve" \in ClassActions(policy, v.class)

\* Pipeline::redact lets only through what some rule preserves.
LEMMA RedactTextFacts ==
    ASSUME NEW v, NEW policy, NEW g \in GazeChoices(policy),
           {"raw", "size"} \subseteq DOMAIN v, v.raw \in BOOLEAN
    PROVE  LET w == RedactText(v, policy, g)
           IN  /\ DOMAIN w = DOMAIN v /\ w.raw \in BOOLEAN /\ (v.size \in Nat => w.size \in Nat)
               /\ w.raw => w = v /\ Lets(v, policy)
               /\ \A f \in DOMAIN v \ {"raw", "size"} : w[f] = v[f]
<1>1. DOMAIN Hidden(v) = DOMAIN v /\ Hidden(v).raw = FALSE /\ Hidden(v).size = TokenSize
      /\ \A f \in DOMAIN v \ {"raw", "size"} : Hidden(v)[f] = v[f]
    BY DEF Hidden
<1>2. ASSUME v.raw, v.class \notin Detected(policy) \ g.kept PROVE Lets(v, policy)
    <2>1. ASSUME v.class \in Detected(policy) PROVE "preserve" \in ClassActions(policy, v.class)
        <3>1. v.class \in g.kept /\ v.class \in Classes
            BY <1>2, <2>1 DEF Detected, Classes
        <3> QED
            BY <3>1 DEF GazeChoices
    <2> QED
        BY <2>1 DEF Lets
<1> QED
    BY <1>1, <1>2, ServeAssumption DEF RedactText

\* action_for is the action of the last rule of the column.
LEMMA ActionForFacts ==
    ASSUME NEW policy, IsPolicy(policy), NEW column
    PROVE  LET rules == {k \in DOMAIN policy.rules : policy.rules[k].column = column}
               last == {k \in rules : \A l \in rules : l <= k}
           IN  /\ \A k \in last : policy.rules[k].action = ActionFor(policy, column)
               /\ last = {} => ActionFor(policy, column) = None
               /\ last # {} => ActionFor(policy, column) \in Hiding \cup {"preserve"}
<1> DEFINE rules == {k \in DOMAIN policy.rules : policy.rules[k].column = column}
           last == {k \in rules : \A l \in rules : l <= k}
           top == CHOOSE k \in rules : \A l \in rules : l <= k
<1>1. Len(policy.rules) \in Nat /\ DOMAIN policy.rules = 1 .. Len(policy.rules)
    BY SequenceFacts DEF IsPolicy
<1>2. rules \in SUBSET (1 .. Len(policy.rules))
    BY <1>1
<1>3. ActionFor(policy, column) = IF rules = {} THEN None ELSE policy.rules[top].action
    BY DEF ActionFor
<1>4. \A k \in rules : policy.rules[k].action \in Hiding \cup {"preserve"}
    BY DEF IsPolicy
<1> HIDE DEF rules
<1>5. rules # {} => top \in last /\ \A k \in last : k = top
    <2>1. rules # {} => \E k \in rules : \A l \in rules : l <= k
        BY <1>1, <1>2, GreatestNat
    <2>2. rules # {} => top \in rules /\ \A l \in rules : l <= top
        BY <2>1
    <2>3. \A k \in rules : k \in Nat
        BY <1>1, <1>2
    <2> QED
        BY <2>2, <2>3
<1> HIDE DEF top
<1>6. /\ \A k \in last : policy.rules[k].action = ActionFor(policy, column)
      /\ last = {} => ActionFor(policy, column) = None
      /\ last # {} => ActionFor(policy, column) \in Hiding \cup {"preserve"}
    BY <1>3, <1>4, <1>5
<1> QED
    BY <1>6 DEF rules

\* What leaves of a cell: a string as it was only if the last rule of its
\* column preserves it or, without one, if nothing in it has to be hidden.
Leaves(v, policy) ==
    LET rules == {k \in DOMAIN policy.rules : policy.rules[k].column = v.column}
        last == {k \in rules : \A l \in rules : l <= k}
    IN  v.raw /\ v.shape \in Textual =>
            /\ \A k \in last : policy.rules[k].action = "preserve"
            /\ last = {} => Lets(v, policy)

\* redact_row and the cell cap let nothing more than this through.
LEMMA CellFacts ==
    ASSUME NEW cell, IsCell(cell), NEW policy, IsPolicy(policy), NEW g \in GazeChoices(policy)
    PROVE  LET v == CapCell(RedactCell(cell, policy, g))
           IN  v.size \in Nat /\ Leaves(v, policy)
<1> DEFINE action == ActionFor(policy, cell.column)
           acted == ApplyColumnAction(cell, policy)
           text == RedactText(acted, policy, g)
           red == RedactCell(cell, policy, g)
           v == CapCell(red)
           keeps == g.columns /\ action = "preserve"
           rules == {k \in DOMAIN policy.rules : policy.rules[k].column = cell.column}
           last == {k \in rules : \A l \in rules : l <= k}
<1>1. /\ IsCell(acted) /\ acted.column = cell.column /\ acted.shape = cell.shape /\ acted.class = cell.class
      /\ acted.raw /\ cell.shape \in Textual => action \notin Hiding
    BY ServeAssumption DEF IsCell, ApplyColumnAction, Hidden
<1>2. /\ IsCell(text) /\ text.column = cell.column /\ text.shape = cell.shape
      /\ text.raw => text = acted /\ Lets(text, policy)
    <2> HIDE DEF acted
    <2>1. {"raw", "size"} \subseteq DOMAIN acted /\ acted.raw \in BOOLEAN /\ acted.size \in Nat
        BY <1>1 DEF IsCell
    <2>2. /\ DOMAIN text = DOMAIN acted /\ text.raw \in BOOLEAN /\ text.size \in Nat
          /\ text.raw => text = acted /\ Lets(acted, policy)
          /\ \A f \in DOMAIN acted \ {"raw", "size"} : text[f] = acted[f]
        BY <2>1, RedactTextFacts
    <2> HIDE DEF text
    <2> QED
        BY <1>1, <2>2 DEF IsCell
<1> HIDE DEF acted, text
<1>3. red = CASE cell.shape = "json" -> text
              [] cell.shape = "text" -> IF keeps THEN acted ELSE text
              [] OTHER -> acted
    BY DEF RedactCell, acted, text
<1> HIDE DEF red
<1>4. /\ \A k \in last : policy.rules[k].action = action
      /\ last = {} => action = None
      /\ last # {} => action \in Hiding \cup {"preserve"}
    BY ActionForFacts
<1> HIDE DEF action, last
<1>5. /\ IsCell(red) /\ red.column = cell.column /\ red.shape = cell.shape
      /\ red.raw /\ red.shape \in Textual =>
            action \notin Hiding /\ (Lets(red, policy) \/ action = "preserve")
    BY <1>1, <1>2, <1>3 DEF Textual
<1>6. None # "preserve"
    BY ProfilesAssumption
<1>7. /\ IsCell(red) /\ red.column = cell.column /\ red.shape = cell.shape
      /\ red.raw /\ red.shape \in Textual =>
            /\ \A k \in last : policy.rules[k].action = "preserve"
            /\ last = {} => Lets(red, policy)
    BY <1>4, <1>5, <1>6
<1>8. Leaves(red, policy) /\ red.size \in Nat
    BY <1>7 DEF Leaves, last, IsCell
<1>9. v.size \in Nat /\ Leaves(v, policy)
    <2>1. CASE v = red
        BY <1>8, <2>1
    <2>2. CASE v = Marker(red.column)
        <3>1. v.size = TokenSize /\ v.raw = FALSE
            BY <2>2 DEF Marker
        <3> HIDE DEF v
        <3> QED
            BY <3>1, ServeAssumption DEF Leaves
    <2> QED
        BY <2>1, <2>2 DEF CapCell
<1> QED
    BY <1>9 DEF red

\* What leaves of a text was let through, torn at the cap or not.
LEMMA TextFacts ==
    ASSUME NEW text, \A i \in DOMAIN text : IsSpan(text[i]), NEW flags,
           NEW policy, NEW g \in GazeChoices(policy)
    PROVE  LET out == RedactTextOutput(text, flags, policy, g).out
           IN  \A i \in DOMAIN out : out[i].raw => Lets(out[i], policy)
<1> DEFINE capped == CapText(text)
           out == [i \in DOMAIN capped |-> RedactText(capped[i], policy, g)]
<1>1. RedactTextOutput(text, flags, policy, g).out = out
    BY DEF RedactTextOutput
<1>2. ASSUME NEW i \in DOMAIN capped
      PROVE  {"raw", "size"} \subseteq DOMAIN capped[i] /\ capped[i].raw \in BOOLEAN
    BY DEF CapText, IsSpan
<1> HIDE DEF capped
<1>3. ASSUME NEW i \in DOMAIN out, out[i].raw PROVE Lets(out[i], policy)
    <2>1. i \in DOMAIN capped /\ out[i] = RedactText(capped[i], policy, g)
        OBVIOUS
    <2>2. out[i] = capped[i] /\ Lets(capped[i], policy)
        <3> HIDE DEF out
        <3> QED
            BY <1>2, <1>3, <2>1, RedactTextFacts
    <2> QED
        BY <2>2
<1> QED
    BY <1>1, <1>3

\* The rows as the database returns them.
IsRow(row) == IsSequence(row) /\ \A j \in DOMAIN row : IsCell(row[j])

\* The query returns rows of the table, up to the limit.
LEMMA FetchFacts ==
    ASSUME NEW table, IsSequence(table), \A i \in DOMAIN table : IsRow(table[i]), NEW query,
           Limit(query.limit) \in Nat
    PROVE  LET rows == Fetch(table, query)
               n == IF Len(table) > Limit(query.limit) THEN Limit(query.limit) ELSE Len(table)
           IN  Len(table) \in Nat /\ Len(rows) = n /\ \A i \in 1 .. n : IsRow(rows[i])
<1> DEFINE rows == Fetch(table, query)
           n == IF Len(table) > Limit(query.limit) THEN Limit(query.limit) ELSE Len(table)
<1>1. Len(table) \in Nat /\ DOMAIN table = 1 .. Len(table)
    BY SequenceFacts
<1>2. n \in Nat /\ \A i \in 1 .. n : i \in DOMAIN table
    BY <1>1
<1>3. rows = [i \in 1 .. n |-> SelectColumns(table[i], query.columns)]
    BY DEF Fetch
<1> HIDE DEF n, rows
<1>4. Len(rows) = n
    BY <1>2, <1>3, SequenceFacts
<1>5. ASSUME NEW i \in 1 .. n PROVE IsRow(rows[i])
    <2> DEFINE row == table[i]
               at == {j \in DOMAIN row : query.columns = {} \/ row[j].column \in query.columns}
               N == Cardinality(at)
    <2>1. IsRow(row) /\ Len(row) \in Nat /\ DOMAIN row = 1 .. Len(row)
        BY <1>2, SequenceFacts DEF IsRow
    <2>2. rows[i] = [k \in 1 .. N |-> row[Nth(at, k)]]
        BY <1>3 DEF SelectColumns, Pick
    <2>3. at \in SUBSET (1 .. Len(row))
        BY <2>1
    <2> HIDE DEF at, row
    <2>4. N \in Nat
        <3>1. IsFiniteSet(1 .. Len(row))
            BY <2>1, FS_Interval
        <3> QED
            BY <2>3, <3>1, FS_Subset, FS_CardinalityType
    <2> HIDE DEF N
    <2>5. \A k \in 1 .. N : Nth(at, k) \in DOMAIN row
        BY <2>1, <2>3, NthFacts DEF N
    <2>6. IsSequence(rows[i])
        BY <2>2, <2>4, SequenceFacts
    <2> QED
        BY <2>1, <2>2, <2>5, <2>6 DEF IsRow
<1> QED
    BY <1>1, <1>4, <1>5 DEF n, rows

\* A row that was put through the pipeline has sizes, and nothing in it leaves
\* that should not.
LEMMA CleanRowFacts ==
    ASSUME NEW row, IsRow(row), NEW policy, IsPolicy(policy), NEW g \in GazeChoices(policy)
    PROVE  LET clean == CleanRow(row, policy, g)
           IN  /\ DOMAIN clean = DOMAIN row /\ Sized(clean) /\ Size(clean) \in Nat
               /\ \A j \in DOMAIN clean : Leaves(clean[j], policy)
<1> DEFINE clean == CleanRow(row, policy, g)
<1>1. Len(row) \in Nat /\ DOMAIN row = 1 .. Len(row) /\ \A j \in DOMAIN row : IsCell(row[j])
    BY SequenceFacts DEF IsRow
<1>2. clean = [j \in 1 .. Len(row) |-> CapCell(RedactCell(row[j], policy, g))]
    BY <1>1 DEF CleanRow
<1>3. \A j \in 1 .. Len(row) : clean[j].size \in Nat /\ Leaves(clean[j], policy)
    BY <1>1, <1>2, CellFacts
<1> HIDE DEF clean
<1>4. Len(clean) = Len(row)
    BY <1>1, <1>2, SequenceFacts
<1>5. Sized(clean)
    BY <1>1, <1>3, <1>4 DEF Sized
<1>6. Size(clean) \in Nat
    BY <1>5, SizeFacts
<1>7. /\ DOMAIN clean = DOMAIN row /\ Sized(clean) /\ Size(clean) \in Nat
      /\ \A j \in DOMAIN clean : Leaves(clean[j], policy)
    BY <1>1, <1>2, <1>3, <1>5, <1>6
<1> QED
    BY <1>7 DEF clean

-----------------------------------------------------------------------------
(* The loop of redact_rows.                                                *)

Capped(rows) == IF Len(rows) > RowCap THEN RowCap ELSE Len(rows)
Blank(rows) ==
    [out |-> <<>>, bytes |-> 0, stop |-> FALSE, failed |-> FALSE,
     flags |-> IF Len(rows) > RowCap THEN {"rows"} ELSE {}]

\* A function that gives the accumulator after each of n turns.
Turns(f, rows, policy, g, n) ==
    f = [i \in 0 .. n |-> IF i = 0 THEN Blank(rows) ELSE RedactRow(f[i - 1], rows[i], policy, g)]

\* There is one for every n: it extends the one for n - 1.
LEMMA TurnsExist ==
    ASSUME NEW rows, NEW policy, NEW g, NEW n \in Nat
    PROVE  \E f : Turns(f, rows, policy, g, n)
<1> DEFINE Bad == {m \in Nat : ~\E f : Turns(f, rows, policy, g, m)}
<1>1. ASSUME Bad # {} PROVE FALSE
    <2>1. PICK m \in Bad : \A k \in Bad : m <= k
        <3>1. Bad \in SUBSET Nat
            OBVIOUS
        <3> HIDE DEF Bad
        <3> QED
            BY <1>1, <3>1, LeastNat
    <2>2. m \in Nat /\ ~\E f : Turns(f, rows, policy, g, m)
        BY <2>1
    <2>3. CASE m = 0
        <3> DEFINE f == [j \in 0 .. 0 |-> Blank(rows)]
        <3>1. Turns(f, rows, policy, g, 0)
            BY DEF Turns
        <3> QED
            BY <2>2, <2>3, <3>1
    <2>4. CASE m # 0
        <3>1. m - 1 \in Nat /\ m - 1 \notin Bad
            <4>1. m - 1 \in Nat /\ ~(m <= m - 1)
                BY <2>2, <2>4
            <4> HIDE DEF Bad
            <4> QED
                BY <2>1, <4>1
        <3>2. PICK f : Turns(f, rows, policy, g, m - 1)
            BY <3>1
        <3> DEFINE h == [j \in 0 .. m |-> IF j = m THEN RedactRow(f[m - 1], rows[m], policy, g) ELSE f[j]]
        <3>3. \A j \in 0 .. (m - 1) :
                  f[j] = IF j = 0 THEN Blank(rows) ELSE RedactRow(f[j - 1], rows[j], policy, g)
            BY <3>2 DEF Turns
        <3>4. \A j \in 0 .. m :
                  h[j] = IF j = 0 THEN Blank(rows) ELSE RedactRow(h[j - 1], rows[j], policy, g)
            BY <2>2, <2>4, <3>3
        <3>5. h = [j \in 0 .. m |-> IF j = 0 THEN Blank(rows) ELSE RedactRow(h[j - 1], rows[j], policy, g)]
            <4>1. h = [j \in 0 .. m |-> h[j]]
                OBVIOUS
            <4> HIDE DEF h
            <4> QED
                BY <3>4, <4>1
        <3> QED
            BY <2>2, <3>5 DEF Turns
    <2> QED
        BY <2>3, <2>4
<1> QED
    BY <1>1

\* What the accumulator holds after i turns: the rows put through the pipeline
\* up to the first that did not fit, their size, and a flag for every cut.
Sizes(out) == [i \in DOMAIN out |-> [size |-> Size(out[i])]]
Marked(out) == \E i \in DOMAIN out : \E j \in DOMAIN out[i] : out[i][j].shape = "marker"
CleanRows(rows, policy, g) == {CleanRow(rows[k], policy, g) : k \in 1 .. Capped(rows)}

Taken(acc, rows, policy, g, i) ==
    /\ acc \in [out : Seq(CleanRows(rows, policy, g)), bytes : Nat, stop : BOOLEAN, failed : BOOLEAN,
                flags : SUBSET {"rows", "bytes", "cell_bytes"}]
    /\ acc.bytes = Size(Sizes(acc.out)) /\ acc.bytes <= ByteCap
    /\ "rows" \in acc.flags <=> Len(rows) > RowCap
    /\ "bytes" \in acc.flags <=> acc.stop
    /\ Marked(acc.out) => "cell_bytes" \in acc.flags
    /\ "cell_bytes" \in acc.flags => acc.stop \/ Marked(acc.out)
    /\ Len(acc.out) <= i
    /\ acc.stop => Len(acc.out) < i
    /\ ~acc.stop /\ ~acc.failed => Len(acc.out) = i

\* One row more adds its size.
LEMMA SizesFacts ==
    ASSUME NEW S, \A row \in S : Size(row) \in Nat, NEW out \in Seq(S)
    PROVE  /\ Size(Sizes(out)) \in Nat
           /\ out = <<>> => Size(Sizes(out)) = 0
           /\ \A row \in S : Size(Sizes(Append(out, row))) = Size(Sizes(out)) + Size(row)
<1>1. ASSUME NEW o \in Seq(S)
      PROVE  Sized(Sizes(o)) /\ Len(Sizes(o)) = Len(o) /\ \A i \in 1 .. Len(o) : Sizes(o)[i].size = Size(o[i])
    <2>1. Len(o) \in Nat /\ DOMAIN o = 1 .. Len(o) /\ \A i \in 1 .. Len(o) : o[i] \in S
        OBVIOUS
    <2>2. Sizes(o) = [i \in 1 .. Len(o) |-> [size |-> Size(o[i])]]
        BY <2>1 DEF Sizes
    <2>3. Len(Sizes(o)) = Len(o)
        BY <2>1, <2>2, SequenceFacts
    <2>4. \A i \in 1 .. Len(o) : Sizes(o)[i].size = Size(o[i]) /\ Size(o[i]) \in Nat
        BY <2>1, <2>2
    <2> QED
        BY <2>1, <2>3, <2>4 DEF Sized
<1>2. Size(Sizes(out)) \in Nat
    BY <1>1, SizeFacts
<1>3. out = <<>> => Size(Sizes(out)) = 0
    BY <1>1, SizeFacts
<1>4. ASSUME NEW row \in S
      PROVE  Size(Sizes(Append(out, row))) = Size(Sizes(out)) + Size(row)
    <2> DEFINE more == Append(out, row)
    <2>1. /\ more \in Seq(S) /\ Len(more) = Len(out) + 1 /\ Len(out) \in Nat
          /\ more[Len(out) + 1] = row /\ \A i \in 1 .. Len(out) : more[i] = out[i]
        OBVIOUS
    <2> HIDE DEF more
    <2>2. /\ Sized(Sizes(more)) /\ Len(Sizes(more)) = Len(Sizes(out)) + 1 /\ Sized(Sizes(out))
          /\ \A j \in 1 .. Len(Sizes(out)) : Sizes(more)[j].size = Sizes(out)[j].size
          /\ Sizes(more)[Len(Sizes(more))].size = Size(row)
        <3>1. /\ Sized(Sizes(more)) /\ Len(Sizes(more)) = Len(more)
              /\ \A i \in 1 .. Len(more) : Sizes(more)[i].size = Size(more[i])
            BY <1>1, <2>1
        <3>2. /\ Sized(Sizes(out)) /\ Len(Sizes(out)) = Len(out)
              /\ \A i \in 1 .. Len(out) : Sizes(out)[i].size = Size(out[i])
            BY <1>1
        <3> QED
            BY <2>1, <3>1, <3>2
    <2>3. Size(Sizes(more)) = Size(Sizes(out)) + Size(row)
        BY <2>2, SizeFacts
    <2> QED
        BY <2>3 DEF more
<1> QED
    BY <1>2, <1>3, <1>4

\* A turn keeps it.
LEMMA TurnFacts ==
    ASSUME NEW rows, NEW policy, IsPolicy(policy), NEW g \in GazeChoices(policy),
           NEW n \in Nat, n = Capped(rows), \A i \in 1 .. n : IsRow(rows[i]),
           NEW i \in 1 .. n, NEW acc, Taken(acc, rows, policy, g, i - 1)
    PROVE  Taken(RedactRow(acc, rows[i], policy, g), rows, policy, g, i)
<1> DEFINE S == CleanRows(rows, policy, g)
           row == rows[i]
           clean == CleanRow(row, policy, g)
           cut == \E j \in DOMAIN row : clean[j].shape = "marker"
           flags == acc.flags \cup (IF cut THEN {"cell_bytes"} ELSE {})
           next == RedactRow(acc, row, policy, g)
<1>1. clean \in S /\ Size(clean) \in Nat /\ DOMAIN clean = DOMAIN row
    BY CleanRowFacts DEF CleanRows
<1>2. \A r \in S : Size(r) \in Nat
    BY CleanRowFacts DEF CleanRows
<1>3. acc \in [out : Seq(S), bytes : Nat, stop : BOOLEAN, failed : BOOLEAN,
               flags : SUBSET {"rows", "bytes", "cell_bytes"}]
    BY DEF Taken
<1>4. next = IF acc.stop \/ acc.failed THEN acc
             ELSE IF \E j \in DOMAIN row : row[j].shape = "corrupt" THEN [acc EXCEPT !.failed = TRUE]
             ELSE IF acc.bytes + Size(clean) > ByteCap
             THEN [acc EXCEPT !.flags = flags \cup {"bytes"}, !.stop = TRUE]
             ELSE [acc EXCEPT !.flags = flags, !.bytes = @ + Size(clean), !.out = Append(@, clean)]
    BY DEF RedactRow
<1>5. Len(acc.out) \in Nat /\ i \in Nat
    BY <1>3
<1> HIDE DEF next, S
<1>6. CASE acc.stop \/ acc.failed
    <2>1. next = acc
        BY <1>4, <1>6
    <2> QED
        BY <1>5, <1>6, <2>1 DEF Taken, next
<1>7. CASE ~(acc.stop \/ acc.failed) /\ \E j \in DOMAIN row : row[j].shape = "corrupt"
    <2>1. next = [acc EXCEPT !.failed = TRUE]
        BY <1>4, <1>7
    <2>2. /\ next.out = acc.out /\ next.bytes = acc.bytes /\ next.stop = acc.stop
          /\ next.failed = TRUE /\ next.flags = acc.flags
          /\ next \in [out : Seq(S), bytes : Nat, stop : BOOLEAN, failed : BOOLEAN,
                       flags : SUBSET {"rows", "bytes", "cell_bytes"}]
        BY <1>3, <2>1
    <2> QED
        BY <1>5, <1>7, <2>2 DEF Taken, next, S
<1>8. CASE /\ ~(acc.stop \/ acc.failed) /\ ~\E j \in DOMAIN row : row[j].shape = "corrupt"
           /\ acc.bytes + Size(clean) > ByteCap
    <2>1. next = [acc EXCEPT !.flags = flags \cup {"bytes"}, !.stop = TRUE]
        BY <1>4, <1>8
    <2>2. flags \cup {"bytes"} \in SUBSET {"rows", "bytes", "cell_bytes"}
        BY <1>3
    <2>3. /\ next.out = acc.out /\ next.bytes = acc.bytes /\ next.stop = TRUE
          /\ next.failed = acc.failed /\ next.flags = flags \cup {"bytes"}
          /\ next \in [out : Seq(S), bytes : Nat, stop : BOOLEAN, failed : BOOLEAN,
                       flags : SUBSET {"rows", "bytes", "cell_bytes"}]
        <3> HIDE DEF flags
        <3> QED
            BY <1>3, <2>1, <2>2
    <2> QED
        BY <1>5, <1>8, <2>3 DEF Taken, next, S
<1>9. CASE /\ ~(acc.stop \/ acc.failed) /\ ~\E j \in DOMAIN row : row[j].shape = "corrupt"
           /\ ~(acc.bytes + Size(clean) > ByteCap)
    <2>1. next = [acc EXCEPT !.flags = flags, !.bytes = @ + Size(clean), !.out = Append(@, clean)]
        BY <1>4, <1>9
    <2>2. flags \in SUBSET {"rows", "bytes", "cell_bytes"} /\ Append(acc.out, clean) \in Seq(S)
        BY <1>1, <1>3
    <2>3. /\ next.out = Append(acc.out, clean) /\ next.bytes = acc.bytes + Size(clean)
          /\ next.stop = acc.stop /\ next.failed = acc.failed /\ next.flags = flags
          /\ next \in [out : Seq(S), bytes : Nat, stop : BOOLEAN, failed : BOOLEAN,
                       flags : SUBSET {"rows", "bytes", "cell_bytes"}]
        <3> DEFINE b == acc.bytes + Size(clean)
                   o == Append(acc.out, clean)
        <3>1. next = [acc EXCEPT !.flags = flags, !.bytes = b, !.out = o]
            BY <1>3, <2>1
        <3>2. b \in Nat /\ o \in Seq(S)
            BY <1>1, <1>3, <2>2
        <3>3. /\ next.out = o /\ next.bytes = b
              /\ next.stop = acc.stop /\ next.failed = acc.failed /\ next.flags = flags
              /\ next \in [out : Seq(S), bytes : Nat, stop : BOOLEAN, failed : BOOLEAN,
                           flags : SUBSET {"rows", "bytes", "cell_bytes"}]
            <4> HIDE DEF b, o, flags
            <4> QED
                BY <1>3, <2>2, <3>1, <3>2
        <3> QED
            BY <3>3
    <2>4. Size(Sizes(next.out)) = next.bytes
        <3> HIDE DEF clean
        <3>1. Size(Sizes(Append(acc.out, clean))) = Size(Sizes(acc.out)) + Size(clean)
            BY <1>1, <1>2, <1>3, SizesFacts
        <3> QED
            BY <2>3, <3>1 DEF Taken
    <2>5. Marked(next.out) <=> Marked(acc.out) \/ cut
        <3> HIDE DEF clean
        <3>1. /\ DOMAIN next.out = 1 .. (Len(acc.out) + 1) /\ DOMAIN acc.out = 1 .. Len(acc.out)
              /\ next.out[Len(acc.out) + 1] = clean
              /\ \A k \in 1 .. Len(acc.out) : next.out[k] = acc.out[k]
              /\ Len(next.out) = Len(acc.out) + 1
            BY <1>1, <1>3, <2>3
        <3>2. \A k \in 1 .. (Len(acc.out) + 1) : k \in 1 .. Len(acc.out) \/ k = Len(acc.out) + 1
            BY <1>5
        <3>3. \A k \in 1 .. Len(acc.out) : k \in 1 .. (Len(acc.out) + 1)
            BY <1>5
        <3>4. Len(acc.out) + 1 \in 1 .. (Len(acc.out) + 1)
            BY <1>5
        <3> QED
            BY <1>1, <3>1, <3>2, <3>3, <3>4 DEF Marked
    <2>6. Len(next.out) = Len(acc.out) + 1
        BY <1>1, <1>3, <2>3
    <2>7. next.bytes <= ByteCap
        BY <1>1, <1>3, <1>9, <2>3, ServeAssumption
    <2> HIDE DEF cut, clean
    <2> QED
        BY <1>5, <1>9, <2>3, <2>4, <2>5, <2>6, <2>7 DEF Taken, next, S
<1> QED
    BY <1>6, <1>7, <1>8, <1>9

\* So it holds at the end.
LEMMA RedactRowsFacts ==
    ASSUME NEW rows, NEW policy, IsPolicy(policy), NEW g \in GazeChoices(policy),
           Len(rows) \in Nat, \A i \in 1 .. Capped(rows) : IsRow(rows[i])
    PROVE  Taken(RedactRows(rows, policy, g), rows, policy, g, Capped(rows))
<1> DEFINE n == Capped(rows)
           acc == CHOOSE f : Turns(f, rows, policy, g, n)
           Bad == {m \in 0 .. n : ~Taken(acc[m], rows, policy, g, m)}
<1>1. RedactRows(rows, policy, g) = acc[n]
    BY DEF RedactRows, Turns, Capped, Blank
<1>2. n \in Nat
    BY ServeAssumption DEF Capped
<1>3. Turns(acc, rows, policy, g, n)
    <2> HIDE DEF n
    <2> QED
        BY <1>2, TurnsExist
<1> HIDE DEF acc
<1>4. \A i \in 0 .. n : acc[i] = IF i = 0 THEN Blank(rows) ELSE RedactRow(acc[i - 1], rows[i], policy, g)
    <2> HIDE DEF n
    <2> QED
        BY <1>2, <1>3 DEF Turns
<1>5. Taken(Blank(rows), rows, policy, g, 0)
    <2> DEFINE S == CleanRows(rows, policy, g)
    <2>1. \A row \in S : Size(row) \in Nat
        BY CleanRowFacts DEF CleanRows
    <2> HIDE DEF S
    <2>2. <<>> \in Seq(S) /\ Size(Sizes(<<>>)) = 0 /\ Len(<<>>) = 0 /\ DOMAIN <<>> = {}
        <3>1. <<>> \in Seq(S)
            OBVIOUS
        <3>2. Size(Sizes(<<>>)) = 0
            BY <2>1, <3>1, SizesFacts
        <3> QED
            BY <3>1, <3>2
    <2>3. ~Marked(<<>>)
        BY <2>2 DEF Marked
    <2> QED
        BY <2>2, <2>3, ServeAssumption DEF Taken, Blank, S
<1>6. ASSUME Bad # {} PROVE FALSE
    <2>1. PICK m \in Bad : \A k \in Bad : m <= k
        <3>1. Bad \in SUBSET Nat
            BY <1>2
        <3> HIDE DEF Bad
        <3> QED
            BY <1>6, <3>1, LeastNat
    <2>2. m \in 0 .. n /\ ~Taken(acc[m], rows, policy, g, m)
        BY <2>1
    <2> HIDE DEF n
    <2>3. m # 0
        BY <1>2, <1>4, <1>5, <2>2
    <2>4. m - 1 \in 0 .. n /\ m - 1 \notin Bad /\ m \in 1 .. n
        <3>1. m - 1 \in 0 .. n /\ ~(m <= m - 1) /\ m \in 1 .. n
            BY <1>2, <2>2, <2>3
        <3> HIDE DEF Bad
        <3> QED
            BY <2>1, <3>1
    <2>5. Taken(acc[m - 1], rows, policy, g, m - 1)
        BY <2>4
    <2>6. Taken(RedactRow(acc[m - 1], rows[m], policy, g), rows, policy, g, m)
        BY <1>2, <2>4, <2>5, TurnFacts DEF n
    <2> QED
        BY <1>4, <2>2, <2>3, <2>6
<1> QED
    BY <1>1, <1>2, <1>6

-----------------------------------------------------------------------------
(* What redact_rows returns for a query.                                   *)

\* A database result is within the caps and reports every cut, and none that
\* was not made.
LEMMA CutFacts ==
    ASSUME NEW table \in Tables, NEW query \in Queries, Compiles(query, Columns, Keywords),
           NEW policy, IsPolicy(policy), NEW g \in GazeChoices(policy),
           ~RedactRows(Fetch(table, query), policy, g).failed
    PROVE  LET r == RedactRows(Fetch(table, query), policy, g)
               wanted == IF query.limit = None \/ query.limit = RowCap THEN Len(table)
                         ELSE IF query.limit < Len(table) THEN query.limit ELSE Len(table)
           IN  /\ Len(r.out) <= RowCap /\ Size(Sizes(r.out)) <= ByteCap
               /\ r.flags = {} <=> Len(r.out) = wanted /\ ~Marked(r.out)
               /\ \A i \in DOMAIN r.out : \A j \in DOMAIN r.out[i] : Leaves(r.out[i][j], policy)
<1> DEFINE rows == Fetch(table, query)
           r == RedactRows(rows, policy, g)
           wanted == IF query.limit = None \/ query.limit = RowCap THEN Len(table)
                     ELSE IF query.limit < Len(table) THEN query.limit ELSE Len(table)
           limit == Limit(query.limit)
           n == IF Len(table) > limit THEN limit ELSE Len(table)
<1>1. /\ query.limit \in Nat \cup {None} /\ RowCap \in Nat
      /\ query.limit # None => query.limit <= RowCap
    BY ServeAssumption DEF Compiles
<1>2. limit \in Nat /\ limit = IF query.limit = None \/ query.limit = RowCap THEN RowCap + 1 ELSE query.limit
    BY <1>1 DEF Limit
<1>3. /\ Len(table) \in Nat /\ Len(rows) = n /\ \A i \in 1 .. n : IsRow(rows[i])
    <2>1. IsSequence(table) /\ \A i \in DOMAIN table : IsRow(table[i])
        BY ServeAssumption DEF IsRow
    <2> QED
        BY <1>2, <2>1, FetchFacts
<1> HIDE DEF limit, rows
<1>4. n \in Nat /\ Capped(rows) \in Nat /\ Capped(rows) <= n /\ Capped(rows) <= RowCap
    BY <1>1, <1>2, <1>3 DEF Capped
<1>5. \A i \in 1 .. Capped(rows) : IsRow(rows[i])
    BY <1>3, <1>4
<1>6. Taken(r, rows, policy, g, Capped(rows))
    BY <1>3, <1>4, <1>5, RedactRowsFacts
<1> HIDE DEF r
<1>7. ~r.failed
    BY DEF r, rows
<1>8. /\ r.out \in Seq(CleanRows(rows, policy, g)) /\ r.stop \in BOOLEAN
      /\ r.flags \in SUBSET {"rows", "bytes", "cell_bytes"} /\ r.bytes \in Nat
    BY <1>6 DEF Taken
<1>9. Len(r.out) \in Nat
    BY <1>8
<1>10. Len(r.out) <= RowCap /\ Size(Sizes(r.out)) <= ByteCap
    BY <1>1, <1>4, <1>6, <1>9 DEF Taken
<1>11. r.flags = {} <=> Len(rows) <= RowCap /\ ~r.stop /\ ~Marked(r.out)
    BY <1>1, <1>3, <1>4, <1>6, <1>8 DEF Taken
<1>12. Len(rows) <= RowCap => Len(rows) = wanted /\ Capped(rows) = wanted
    BY <1>1, <1>2, <1>3 DEF Capped
<1>13. ~(Len(rows) <= RowCap) => wanted > RowCap
    BY <1>1, <1>2, <1>3, <1>4
<1>14. wanted \in Nat
    BY <1>1, <1>3
<1> HIDE DEF wanted, n
<1>15. r.flags = {} <=> Len(r.out) = wanted /\ ~Marked(r.out)
    <2>1. r.stop => Len(r.out) < Capped(rows)
        BY <1>6 DEF Taken
    <2>2. ~r.stop => Len(r.out) = Capped(rows)
        BY <1>6, <1>7 DEF Taken
    <2> QED
        BY <1>1, <1>4, <1>8, <1>9, <1>10, <1>11, <1>12, <1>13, <1>14, <2>1, <2>2
<1>16. ASSUME NEW i \in DOMAIN r.out, NEW j \in DOMAIN r.out[i] PROVE Leaves(r.out[i][j], policy)
    <2>1. r.out[i] \in CleanRows(rows, policy, g)
        BY <1>8
    <2>2. PICK k \in 1 .. Capped(rows) : r.out[i] = CleanRow(rows[k], policy, g)
        BY <2>1 DEF CleanRows
    <2> QED
        BY <1>5, <2>2, CleanRowFacts
<1> QED
    BY <1>10, <1>15, <1>16 DEF r, rows, wanted

-----------------------------------------------------------------------------
(* The inductive invariant.                                                *)

\* Nothing is swept or registered before its stage.
StageInv ==
    /\ files \in FileSets
    /\ stage \in {"load", "sweep", "policies", "refused", "serving", "ended"}
    /\ stage = "load" => sweep = None
    /\ stage \in {"load", "sweep"} => runtime = <<>>

\* Every selected profile is a merge of what the files say under its name.
ProfilesInv ==
    /\ IsSequence(profiles)
    /\ \A i \in DOMAIN profiles : Merged(files, profiles[i].name, profiles[i])

\* What came out of runtime_policy so far belongs to the profiles in their
\* order, and passed the gates with the policy that was built.
Admitted(r) ==
    /\ RemoteOutputSafe(r.profile, r.policy) /\ ProductionNer(r.profile, r.policy)
    /\ Builds(r.policy) /\ IsPolicy(r.policy) /\ r.gaze \in GazeChoices(r.policy)
RuntimeInv ==
    /\ IsSequence(runtime) /\ Len(runtime) <= Len(profiles)
    /\ \A i \in DOMAIN runtime : runtime[i].profile = profiles[i] /\ Admitted(runtime[i])

\* What is registered is a policy and a choice of gaze for it, and the policy
\* is the team's if the team names one.
SessionInv ==
    \A n \in DOMAIN session :
        /\ IsPolicy(session[n].policy) /\ session[n].gaze \in GazeChoices(session[n].policy)
        /\ Team(files, n) # None /\ Team(files, n).policy # None => session[n].path = Team(files, n).policy

\* The start, and the answers.
StartInv == StageInv /\ ProfilesInv /\ RuntimeInv /\ SessionInv /\ PurgeAuthorised /\ GatesHold
AnswerInv ==
    /\ stage \notin {"serving", "ended"} => answer = None
    /\ RulesHold /\ CutIsReported

IInv == StartInv /\ AnswerInv

\* The process starts with nothing loaded.
LEMMA InitInv == Init => IInv
<1> SUFFICES ASSUME Init PROVE IInv
    OBVIOUS
<1>1. IsSequence(<<>>) /\ Len(<<>>) = 0 /\ DOMAIN <<>> = {}
    BY DEF IsSequence
<1> QED
    BY <1>1 DEF Init, IInv, StartInv, StageInv, ProfilesInv, RuntimeInv, SessionInv, PurgeAuthorised,
                GatesHold, AnswerInv, RulesHold, CutIsReported

\* load_profiles and select_profiles select merged profiles or refuse.
LEMMA LoadInv == ASSUME StartInv, NEW list \in Lists, NEW named \in BOOLEAN, Load(list, named) PROVE StartInv'
<1> DEFINE merged == MergeProfiles(files)
           selected == SelectProfiles(merged, list)
<1>1. IsSequence(<<>>) /\ Len(<<>>) = 0 /\ DOMAIN <<>> = {}
    BY DEF IsSequence
<1>2. /\ stage = "load" /\ stage' \in {"sweep", "refused"}
      /\ \/ profiles' = selected /\ Selectable(merged, list)
         \/ profiles' = <<>>
      /\ UNCHANGED <<sweep, runtime, session, answer, files>>
    BY DEF Load
<1>3. StageInv'
    BY <1>2 DEF StartInv, StageInv
<1>4. ProfilesInv'
    <2>1. CASE profiles' = <<>>
        BY <1>1, <2>1 DEF ProfilesInv
    <2>2. CASE profiles' = selected /\ Selectable(merged, list)
        <3>1. IsSequence(selected) /\ \A i \in DOMAIN selected : Merged(files, selected[i].name, selected[i])
            BY <2>2, SelectFacts DEF StartInv, StageInv
        <3> HIDE DEF selected
        <3> QED
            BY <1>2, <2>2, <3>1 DEF ProfilesInv
    <2> QED
        BY <1>2, <2>1, <2>2
<1>5. RuntimeInv'
    <2>1. runtime' = <<>> /\ IsSequence(profiles')
        BY <1>2, <1>4 DEF StartInv, StageInv, ProfilesInv
    <2>2. Len(profiles') \in Nat
        BY <2>1, SequenceFacts
    <2> QED
        BY <1>1, <2>1, <2>2 DEF RuntimeInv
<1>6. PurgeAuthorised' /\ GatesHold' /\ SessionInv'
    BY <1>2 DEF StartInv, StageInv, PurgeAuthorised, GatesHold, SessionInv
<1> QED
    BY <1>3, <1>4, <1>5, <1>6 DEF StartInv

\* The sweep purges only if the team said so for every profile.
LEMMA SweepInv == ASSUME StartInv, Sweep PROVE StartInv'
<1>1. /\ stage = "sweep" /\ stage' \in {"policies", "refused"} /\ sweep' = Retention(profiles)
      /\ UNCHANGED <<profiles, runtime, session, answer, files>>
    BY DEF Sweep
<1>2. PurgeAuthorised'
    <2>1. \A i \in DOMAIN profiles : Merged(files, profiles[i].name, profiles[i])
        BY DEF StartInv, ProfilesInv
    <2>2. ASSUME Retention(profiles) # None, Retention(profiles).mode = Purge, NEW i \in DOMAIN profiles
          PROVE  profiles[i].purge = Purge
        <3>1. \A k \in DOMAIN profiles : profiles[k].purge \in Nat /\ profiles[k].purge <= Purge
            BY <2>1 DEF Merged
        <3> QED
            BY <2>2, <3>1, RetentionFacts
    <2> QED
        BY <1>1, <2>1, <2>2 DEF PurgeAuthorised, Merged, Team, Own
<1> QED
    BY <1>1, <1>2 DEF StartInv, StageInv, ProfilesInv, RuntimeInv, SessionInv, GatesHold

\* A policy that passes the gates is appended, in the order of the profiles.
LEMMA RuntimePolicyInv == ASSUME StartInv, RuntimePolicy PROVE StartInv'
<1> DEFINE at == Len(runtime) + 1
           profile == profiles[at]
<1>1. /\ stage = "policies" /\ Len(runtime) < Len(profiles)
      /\ UNCHANGED <<profiles, sweep, session, answer, files>>
    BY DEF RuntimePolicy
<1>2. PICK policy \in Contents(profile) : Prepare(profile, policy, policy)
    BY DEF RuntimePolicy
<1>3. /\ IsSequence(runtime) /\ Len(runtime) \in Nat /\ DOMAIN runtime = 1 .. Len(runtime)
      /\ Len(profiles) \in Nat
    BY SequenceFacts DEF StartInv, RuntimeInv, ProfilesInv
<1>4. CASE stage' = "refused" /\ UNCHANGED runtime
    BY <1>1, <1>4 DEF StartInv, StageInv, ProfilesInv, RuntimeInv, SessionInv, PurgeAuthorised, GatesHold
<1>5. ASSUME UNCHANGED stage, NEW r, r.profile = profile, Admitted(r), runtime' = Append(runtime, r)
      PROVE  StartInv'
    <2>1. /\ IsSequence(runtime') /\ Len(runtime') = at /\ DOMAIN runtime' = 1 .. at
          /\ \A i \in 1 .. Len(runtime) : runtime'[i] = runtime[i]
          /\ runtime'[at] = r
        <3> DEFINE S == {runtime[i] : i \in DOMAIN runtime} \cup {r}
        <3>1. runtime \in Seq(S) /\ r \in S
            <4>1. runtime \in Seq({runtime[i] : i \in DOMAIN runtime})
                BY <1>3 DEF IsSequence
            <4>2. {runtime[i] : i \in DOMAIN runtime} \subseteq S /\ r \in S
                OBVIOUS
            <4> HIDE DEF S
            <4> QED
                BY <4>1, <4>2
        <3> HIDE DEF S
        <3>2. /\ runtime' \in Seq(S) /\ Len(runtime') = at
              /\ \A i \in 1 .. Len(runtime) : runtime'[i] = runtime[i]
              /\ runtime'[at] = r
            BY <1>5, <3>1
        <3>3. DOMAIN runtime' = 1 .. at
            BY <3>2
        <3>4. runtime' = [i \in 1 .. at |-> runtime'[i]]
            BY <3>2, <3>3
        <3> QED
            BY <1>3, <3>2, <3>3, <3>4, SequenceFacts
    <2>2. ASSUME NEW i \in DOMAIN runtime'
          PROVE  runtime'[i].profile = profiles[i] /\ Admitted(runtime'[i])
        <3>1. CASE i = at
            BY <1>5, <2>1, <3>1
        <3>2. CASE i # at
            <4>1. i \in 1 .. Len(runtime)
                BY <1>3, <2>1, <3>2
            <4> QED
                BY <1>3, <2>1, <4>1 DEF StartInv, RuntimeInv
        <3> QED
            BY <3>1, <3>2
    <2>3. RuntimeInv'
        BY <1>1, <1>3, <2>1, <2>2 DEF RuntimeInv, Admitted
    <2> QED
        BY <1>1, <1>5, <2>3 DEF StartInv, StageInv, ProfilesInv, SessionInv, PurgeAuthorised, GatesHold
<1>6. CASE ~(stage' = "refused" /\ UNCHANGED runtime)
    <2>1. /\ UNCHANGED stage /\ policy # None
          /\ RemoteOutputSafe(profile, policy) /\ ProductionNer(profile, policy) /\ Builds(policy)
        BY <1>2, <1>6 DEF Prepare
    <2>2. PICK g \in GazeChoices(policy) : runtime' = Append(runtime, [profile |-> profile, policy |-> policy, gaze |-> g])
        BY <1>2, <1>6 DEF Prepare
    <2>3. IsPolicy(policy)
        <3>1. policy = DefaultPolicy \/ policy \in Policies
            BY <2>1 DEF Contents
        <3>2. IsSequence(<<>>) /\ DOMAIN <<>> = {}
            BY DEF IsSequence
        <3>3. IsPolicy(DefaultPolicy)
            BY <3>2 DEF DefaultPolicy, IsPolicy
        <3> QED
            BY <3>1, <3>3, ServeAssumption
    <2> DEFINE r == [profile |-> profile, policy |-> policy, gaze |-> g]
    <2>4. r.profile = profile /\ r.policy = policy /\ r.gaze = g
        OBVIOUS
    <2>5. Admitted(r)
        BY <2>1, <2>3, <2>4 DEF Admitted
    <2> QED
        BY <1>5, <2>1, <2>2, <2>4, <2>5
<1> QED
    BY <1>4, <1>6

\* A policy that passed the gates of a remote profile hides all it detects.
LEMMA RemoteHides ==
    ASSUME NEW p, NEW policy, p.source.kind = "remote", RemoteOutputSafe(p, policy),
           Builds(policy), NEW c \in Detected(policy)
    PROVE  "preserve" \notin ClassActions(policy, c)
<1> DEFINE rules == {policy.rules[i].action : i \in {i \in DOMAIN policy.rules : policy.rules[i].class = c}}
           all == IF c = "strip" THEN rules \cup {policy.strip} ELSE rules
<1>1. /\ policy.default \in {"tokenize", "redact"}
      /\ \A a \in rules : a \in {"tokenize", "redact"}
    BY DEF RemoteOutputSafe
<1>2. c = "strip" => policy.strip \in {"tokenize", "redact"}
    BY DEF Detected, Builds
<1>3. Or(policy.default, "preserve") # "preserve"
    BY <1>1, ProfilesAssumption DEF Or
<1>4. \A a \in all : a # "preserve"
    BY <1>1, <1>2
<1>5. ClassActions(policy, c) = IF all = {} THEN {Or(policy.default, "preserve")} ELSE all
    BY DEF ClassActions
<1> HIDE DEF all
<1> QED
    BY <1>3, <1>4, <1>5

\* What is registered under a name is a profile of that name with a policy
\* that passed its gates.
LEMMA RegisterInv == ASSUME StartInv, Register PROVE StartInv'
<1> DEFINE names == {profiles[i].name : i \in DOMAIN profiles}
           Last(n) == CHOOSE i \in DOMAIN runtime :
                          /\ runtime[i].profile.name = n
                          /\ \A j \in DOMAIN runtime : runtime[j].profile.name = n => j <= i
<1>1. /\ stage = "policies" /\ Len(runtime) = Len(profiles)
      /\ stage' = "serving" /\ runtime' = <<>>
      /\ UNCHANGED <<profiles, sweep, answer, files>>
    BY DEF Register
<1>2. session' = [n \in names |->
                    [source |-> runtime[Last(n)].profile.source, path |-> runtime[Last(n)].profile.policy,
                     policy |-> runtime[Last(n)].policy, gaze |-> runtime[Last(n)].gaze]]
    BY DEF Register
<1>3. /\ Len(runtime) \in Nat /\ DOMAIN runtime = 1 .. Len(runtime) /\ DOMAIN profiles = DOMAIN runtime
      /\ \A i \in DOMAIN runtime : runtime[i].profile = profiles[i] /\ Admitted(runtime[i])
    BY <1>1, SequenceFacts DEF StartInv, RuntimeInv, ProfilesInv
<1>4. ASSUME NEW n \in names
      PROVE  Last(n) \in DOMAIN runtime /\ runtime[Last(n)].profile.name = n
    <2> DEFINE at == {i \in DOMAIN runtime : runtime[i].profile.name = n}
    <2>1. at \in SUBSET (1 .. Len(runtime)) /\ at # {}
        BY <1>3
    <2>2. \E i \in at : \A j \in at : j <= i
        <3> HIDE DEF at
        <3> QED
            BY <1>3, <2>1, GreatestNat
    <2>3. \E i \in DOMAIN runtime :
              /\ runtime[i].profile.name = n
              /\ \A j \in DOMAIN runtime : runtime[j].profile.name = n => j <= i
        BY <2>2
    <2> QED
        BY <2>3
<1> HIDE DEF Last
<1>5. ASSUME NEW n \in names
      PROVE  LET policy == session'[n].policy
             IN  /\ (Own(files, n) # None /\ Own(files, n).production)
                       \/ (Team(files, n) # None /\ Team(files, n).production)
                       => "name" \in Detected(policy)
                 /\ session'[n].source.kind = "remote"
                       => \A c \in Detected(policy) : "preserve" \notin ClassActions(policy, c)
    <2> DEFINE r == runtime[Last(n)]
    <2>1. session'[n].policy = r.policy /\ session'[n].source = r.profile.source
        BY <1>2
    <2>2. Admitted(r) /\ Merged(files, n, r.profile)
        BY <1>3, <1>4 DEF StartInv, ProfilesInv
    <2> HIDE DEF r
    <2>3. ASSUME r.profile.production PROVE "name" \in Detected(r.policy)
        BY <2>2, <2>3 DEF Admitted, ProductionNer, Builds, IsPolicy, Detected
    <2>4. ASSUME r.profile.source.kind = "remote", NEW c \in Detected(r.policy)
          PROVE  "preserve" \notin ClassActions(r.policy, c)
        BY <2>2, <2>4, RemoteHides DEF Admitted
    <2> QED
        BY <2>1, <2>2, <2>3, <2>4 DEF Merged
<1>6. GatesHold' /\ SessionInv'
    <2>1. DOMAIN session' = names
        BY <1>2
    <2>2. ASSUME NEW n \in names
          PROVE  /\ IsPolicy(session'[n].policy) /\ session'[n].gaze \in GazeChoices(session'[n].policy)
                 /\ Team(files, n) # None /\ Team(files, n).policy # None
                       => session'[n].path = Team(files, n).policy
        <3> DEFINE r == runtime[Last(n)]
        <3>1. /\ session'[n].policy = r.policy /\ session'[n].gaze = r.gaze
              /\ session'[n].path = r.profile.policy
            BY <1>2
        <3>2. Admitted(r) /\ Merged(files, n, r.profile)
            BY <1>3, <1>4 DEF StartInv, ProfilesInv
        <3> HIDE DEF r
        <3> QED
            BY <3>1, <3>2 DEF Admitted, Merged
    <2> HIDE DEF names
    <2> QED
        BY <1>1, <1>5, <2>1, <2>2 DEF GatesHold, SessionInv, Own, Team
<1>7. RuntimeInv'
    <2>1. IsSequence(<<>>) /\ Len(<<>>) = 0 /\ DOMAIN <<>> = {}
        BY DEF IsSequence
    <2> QED
        BY <1>1, <1>3, <2>1 DEF RuntimeInv
<1> QED
    BY <1>1, <1>6, <1>7 DEF StartInv, StageInv, ProfilesInv, PurgeAuthorised

\* A call, a sent answer and the end touch nothing that was decided before.
LEMMA CallInv ==
    ASSUME StartInv, UNCHANGED <<profiles, sweep, runtime, session, files>>,
           UNCHANGED stage \/ stage' = "ended"
    PROVE  StartInv'
  BY DEF StartInv, StageInv, ProfilesInv, RuntimeInv, SessionInv, PurgeAuthorised, GatesHold

\* What a start decides is never undone.
LEMMA StartNext == StartInv /\ [Next]_vars => StartInv'
<1> SUFFICES ASSUME StartInv, [Next]_vars PROVE StartInv'
    OBVIOUS
<1>1. CASE \E list \in Lists, named \in BOOLEAN : Load(list, named)
    BY <1>1, LoadInv
<1>2. CASE Sweep
    BY <1>2, SweepInv
<1>3. CASE RuntimePolicy
    BY <1>3, RuntimePolicyInv
<1>4. CASE Register
    BY <1>4, RegisterInv
<1>5. ASSUME NEW n \in Names,
             \/ \E class \in {"database", "log"} : RefuseCall(n, class)
             \/ \E query \in Queries : RefuseQuery(n, query) \/ \E table \in Tables : Query(n, table, query)
             \/ \E text \in Texts, flags \in SUBSET {"line_bytes"} : LogRead(n, text, flags)
             \/ \E size \in Schemas : Schema(n, size)
      PROVE  StartInv'
    BY <1>5, CallInv DEF RefuseCall, RefuseQuery, Query, AnswerRows, LogRead, Schema, Answered
<1>6. CASE Send \/ Shutdown
    BY <1>6, CallInv DEF Send, Shutdown
<1>7. CASE UNCHANGED vars
    BY <1>7, CallInv DEF vars
<1> QED
    BY <1>1, <1>2, <1>3, <1>4, <1>5, <1>6, <1>7 DEF Next

\* A result of the query tool.
LEMMA QueryAnswer ==
    ASSUME IInv, NEW n, NEW table \in Tables, NEW query \in Queries, Query(n, table, query)
    PROVE  AnswerInv'
<1> DEFINE policy == session[n].policy
           r == RedactRows(Fetch(table, query), policy, session[n].gaze)
<1>1. /\ stage = "serving" /\ n \in DOMAIN session /\ Compiles(query, Columns, Keywords)
      /\ UNCHANGED <<stage, profiles, sweep, runtime, session, files>>
    BY DEF Query, AnswerRows, Answered, Serves
<1>2. answer' = IF r.failed THEN Failed(n)
                ELSE [kind |-> "rows", of |-> n, table |-> table, query |-> query,
                      out |-> r.out, flags |-> r.flags]
    BY DEF Query, AnswerRows, Answered
<1>3. CASE r.failed
    <2>1. answer'.kind = "error"
        BY <1>2, <1>3 DEF Failed
    <2> QED
        BY <1>1, <2>1 DEF AnswerInv, RulesHold, CutIsReported
<1>4. CASE ~r.failed
    <2>1. /\ answer'.kind = "rows" /\ answer'.of = n /\ answer'.table = table /\ answer'.query = query
          /\ answer'.out = r.out /\ answer'.flags = r.flags
        BY <1>2, <1>4
    <2>2. /\ IsPolicy(policy) /\ session[n].gaze \in GazeChoices(policy)
          /\ Team(files, n) # None /\ Team(files, n).policy # None => session[n].path = Team(files, n).policy
        BY <1>1 DEF IInv, StartInv, SessionInv
    <2>3. LET wanted == IF query.limit = None \/ query.limit = RowCap THEN Len(table)
                        ELSE IF query.limit < Len(table) THEN query.limit ELSE Len(table)
          IN  /\ Len(r.out) <= RowCap /\ Size(Sizes(r.out)) <= ByteCap
              /\ r.flags = {} <=> Len(r.out) = wanted /\ ~Marked(r.out)
              /\ \A i \in DOMAIN r.out : \A j \in DOMAIN r.out[i] : Leaves(r.out[i][j], policy)
        BY <1>1, <1>4, <2>2, CutFacts
    <2> HIDE DEF r
    <2>4. CutIsReported'
        BY <2>1, <2>3 DEF CutIsReported, Sizes, Marked
    <2>5. RulesHold'
        BY <1>1, <2>1, <2>2, <2>3 DEF RulesHold, Leaves, Lets, Team
    <2> QED
        BY <1>1, <2>4, <2>5 DEF AnswerInv
<1> QED
    BY <1>3, <1>4

\* A result of log_tail or log_grep.
LEMMA LogAnswer ==
    ASSUME IInv, NEW n, NEW text \in Texts, NEW flags, LogRead(n, text, flags)
    PROVE  AnswerInv'
<1> DEFINE policy == session[n].policy
           r == RedactTextOutput(text, flags, policy, session[n].gaze)
<1>1. /\ stage = "serving" /\ n \in DOMAIN session
      /\ UNCHANGED <<stage, profiles, sweep, runtime, session, files>>
      /\ answer' = [kind |-> "text", of |-> n, text |-> text, out |-> r.out, flags |-> r.flags]
    BY DEF LogRead, Answered, Serves
<1>2. answer'.kind = "text" /\ answer'.of = n /\ answer'.out = r.out
    BY <1>1
<1>3. /\ session[n].gaze \in GazeChoices(policy)
      /\ Team(files, n) # None /\ Team(files, n).policy # None => session[n].path = Team(files, n).policy
    BY <1>1 DEF IInv, StartInv, SessionInv
<1>4. \A i \in DOMAIN r.out : r.out[i].raw => Lets(r.out[i], policy)
    BY <1>3, TextFacts, ServeAssumption
<1> HIDE DEF r
<1>5. RulesHold' /\ CutIsReported'
    BY <1>1, <1>2, <1>3, <1>4 DEF RulesHold, CutIsReported, Lets, Team
<1> QED
    BY <1>1, <1>5 DEF AnswerInv

\* The two are about the answer, the policy of its source and the files.
LEMMA AnswerKept ==
    ASSUME UNCHANGED <<session, files, answer>>
    PROVE  RulesHold' = RulesHold /\ CutIsReported' = CutIsReported
<1>1. RulesHold' = RulesHold
    BY DEF RulesHold
<1>2. CutIsReported' = CutIsReported
    BY DEF CutIsReported
<1> QED
    BY <1>1, <1>2

\* An answer that is neither, or that stays as it is.
LEMMA OtherAnswer ==
    ASSUME IInv,
           \/ answer' = None
           \/ stage' \in {"serving", "ended"} /\ answer'.kind \in {"error", "schema"}
           \/ stage' \in {"serving", "ended"} /\ UNCHANGED <<session, files, answer>>
    PROVE  AnswerInv'
<1>1. CASE answer' = None
    BY <1>1 DEF AnswerInv, RulesHold, CutIsReported
<1>2. CASE stage' \in {"serving", "ended"} /\ answer'.kind \in {"error", "schema"}
    BY <1>2 DEF AnswerInv, RulesHold, CutIsReported
<1>3. CASE stage' \in {"serving", "ended"} /\ UNCHANGED <<session, files, answer>>
    BY <1>3, AnswerKept DEF IInv, AnswerInv
<1> QED
    BY <1>1, <1>2, <1>3

\* The invariant is inductive.
LEMMA InvNext == IInv /\ [Next]_vars => IInv'
<1> SUFFICES ASSUME IInv, [Next]_vars PROVE IInv'
    OBVIOUS
<1>1. StartInv'
    BY StartNext DEF IInv
<1>2. stage \notin {"serving", "ended"} => answer = None
    BY DEF IInv, AnswerInv
<1>3. AnswerInv'
    <2>1. CASE \E list \in Lists, named \in BOOLEAN : Load(list, named)
        BY <1>2, <2>1, OtherAnswer DEF Load
    <2>2. CASE Sweep \/ RuntimePolicy \/ Register
        BY <1>2, <2>2, OtherAnswer DEF Sweep, RuntimePolicy, Register
    <2>3. ASSUME NEW n \in Names, NEW class, RefuseCall(n, class) PROVE AnswerInv'
        BY <2>3, OtherAnswer DEF RefuseCall, Answered, Failed
    <2>4. ASSUME NEW n \in Names, NEW query \in Queries, RefuseQuery(n, query) PROVE AnswerInv'
        BY <2>4, OtherAnswer DEF RefuseQuery, Answered, Failed
    <2>5. ASSUME NEW n \in Names, NEW query \in Queries, NEW table \in Tables, Query(n, table, query)
          PROVE  AnswerInv'
        BY <2>5, QueryAnswer
    <2>6. ASSUME NEW n \in Names, NEW text \in Texts, NEW flags, LogRead(n, text, flags) PROVE AnswerInv'
        BY <2>6, LogAnswer
    <2>7. ASSUME NEW n \in Names, NEW size, Schema(n, size) PROVE AnswerInv'
        BY <2>7, OtherAnswer DEF Schema, Answered, Failed
    <2>8. CASE Send
        BY <2>8, OtherAnswer DEF Send
    <2>9. CASE Shutdown
        BY <2>9, OtherAnswer DEF Shutdown
    <2>10. CASE UNCHANGED vars
        BY <2>10, AnswerKept DEF vars, IInv, AnswerInv
    <2> QED
        BY <2>1, <2>2, <2>3, <2>4, <2>5, <2>6, <2>7, <2>8, <2>9, <2>10 DEF Next
<1> QED
    BY <1>1, <1>3 DEF IInv

-----------------------------------------------------------------------------
\* Every behaviour of a start keeps the invariant, whatever the operator
\* writes into the policy files meanwhile.
THEOREM Invariance == Spec => []IInv
  BY InitInv, InvNext, PTL DEF Spec

\* Snapshots are removed only if the team's file asks for it for every profile
\* the process loads and no section of the user's says less, whatever the
\* files hold and even if the start is refused after the sweep.
THEOREM PurgeNeedsTeam == Spec => []PurgeAuthorised
<1>1. IInv => PurgeAuthorised
    BY DEF IInv, StartInv
<1> QED
    BY <1>1, Invariance, PTL

\* A production profile is served with a model for names, and a remote log
\* under a policy that hides what it detects, for the policy that is in use.
THEOREM GatesOfUsedPolicy == Spec => []GatesHold
<1>1. IInv => GatesHold
    BY DEF IInv, StartInv
<1> QED
    BY <1>1, Invariance, PTL

\* Whatever the tables, logs and policies hold: an answer is redacted under the
\* policy of its own profile, the team's if it names one, and no string leaves
\* as it was unless a rule preserves it.
THEOREM AnswersAreRedacted == Spec => []RulesHold
<1>1. IInv => RulesHold
    BY DEF IInv, AnswerInv
<1> QED
    BY <1>1, Invariance, PTL

\* For any tables, queries and caps: a query result is within the caps, and
\* its flags say that it was cut exactly when rows or cells are missing.
THEOREM CutsAreReported == Spec => []CutIsReported
<1>1. IInv => CutIsReported
    BY DEF IInv, AnswerInv
<1> QED
    BY <1>1, Invariance, PTL
=============================================================================

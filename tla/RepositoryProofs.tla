---------------------------- MODULE RepositoryProofs ----------------------------
(***************************************************************************)
(* A walk through the pages of a list, for any rows, keys, sizes of a page *)
(* and writes.  A table that stands still with distinct keys has one       *)
(* sorting, in which each row is at its rank, so that a page is the rows   *)
(* of the ranks it spans; the invariant WInv says that the walk has shown  *)
(* the rows of the ranks before its page.  The sizes are positive: a limit *)
(* of 0 finds everything, and info is counted as if of pages of 10.        *)
(***************************************************************************)
EXTENDS Repository, FiniteSetTheorems, SequenceTheorems, TLAPS

\* how many rows a list shows up to this one
Rank(t, id) == Cardinality({j \in Stored(t) : t[j] >= t[id]})

\* The numbers up to n are n.
LEMMA Interval == ASSUME NEW n \in Nat PROVE IsFiniteSet(1 .. n) /\ Cardinality(1 .. n) = n
<1>1. /\ IsFiniteSet(1 .. n)
      /\ Cardinality(1 .. n) = IF 1 > n THEN 0 ELSE n - 1 + 1
  BY FS_Interval, 1 \in Int /\ n \in Int, Zenon
<1> QED BY <1>1

\* Keys that are distinct leave one sorting: each row at its rank.
LEMMA SortedByRank ==
  ASSUME NEW t \in [Ids -> Keys \cup {None}], Keys \subseteq Nat, None \notin Keys, IsFiniteSet(Ids),
         Distinct(t), NEW s \in Sortings(t)
  PROVE  /\ Cardinality(Stored(t)) \in Nat /\ s \in [1 .. Cardinality(Stored(t)) -> Stored(t)]
         /\ \A i \in DOMAIN s : Rank(t, s[i]) = i
         /\ \A id \in Stored(t) : Rank(t, id) \in DOMAIN s /\ s[Rank(t, id)] = id
<1> DEFINE S == Stored(t)
           n == Cardinality(S)
<1>1. IsFiniteSet(S) /\ n \in Nat
  BY FS_Subset, FS_CardinalityType DEF Stored
<1>2. /\ s \in [1 .. n -> S] /\ \A i, j \in 1 .. n : i # j => s[i] # s[j]
      /\ \A i, j \in 1 .. n : i < j => t[s[i]] >= t[s[j]]
  BY DEF Sortings, SetToSeqs
<1>3. \A id \in S : t[id] \in Nat
  BY DEF Stored
<1>4. s \in Injection(1 .. n, S)
  BY <1>2 DEF Injection, IsInjective
<1>5. \A id \in S : \E i \in 1 .. n : s[i] = id
  <2>1. Cardinality(1 .. n) = n /\ IsFiniteSet(1 .. n)
    BY <1>1, Interval
  <2>2. s \in Surjection(1 .. n, S)
    <3> HIDE DEF S
    <3> QED BY <1>1, <1>4, <2>1, FS_Injection
  <2> QED BY <2>2 DEF Surjection
<1>6. ASSUME NEW i \in 1 .. n PROVE Rank(t, s[i]) = i
  <2> DEFINE above == {j \in S : t[j] >= t[s[i]]}
             f == [k \in 1 .. i |-> s[k]]
  <2>1. i \in Nat /\ Cardinality(1 .. i) = i /\ IsFiniteSet(1 .. i) /\ 1 .. i \subseteq 1 .. n
    <3> HIDE DEF n, S
    <3>1. i \in Nat /\ 1 .. i \subseteq 1 .. n
      BY <1>1
    <3> QED BY <3>1, Interval
  <2>2. \A k \in 1 .. i : s[k] \in above
    <3> SUFFICES ASSUME NEW k \in 1 .. i PROVE s[k] \in S /\ t[s[k]] >= t[s[i]]
      OBVIOUS
    <3>1. k \in 1 .. n /\ (k < i \/ k = i)
      BY <2>1
    <3>2. s[k] \in S /\ s[i] \in S /\ t[s[k]] \in Nat /\ t[s[i]] \in Nat
      BY <1>2, <1>3, <3>1
    <3> QED BY <1>2, <3>1, <3>2
  <2>3. \A j \in above : \E k \in 1 .. i : s[k] = j
    <3> SUFFICES ASSUME NEW j \in above PROVE \E k \in 1 .. i : s[k] = j
      OBVIOUS
    <3>1. PICK k \in 1 .. n : s[k] = j
      BY <1>5
    <3>2. CASE k > i
      <4>1. t[s[i]] >= t[s[k]] /\ s[i] # s[k]
        BY <1>2, <3>2
      <4>2. t[s[i]] # t[s[k]]
        BY <1>2, <4>1 DEF Distinct
      <4>3. t[s[i]] \in Nat /\ t[s[k]] \in Nat /\ t[s[k]] >= t[s[i]]
        BY <1>2, <1>3, <3>1
      <4> QED BY <4>1, <4>2, <4>3
    <3>3. CASE k <= i
      BY <3>1, <3>3
    <3> QED BY <3>2, <3>3
  <2>4. f \in Surjection(1 .. i, above) /\ f \in Injection(1 .. i, above)
    <3>1. f \in [1 .. i -> above]
      BY <2>2
    <3>2. \A j \in above : \E k \in 1 .. i : f[k] = j
      BY <2>3
    <3>3. \A k, m \in 1 .. i : f[k] = f[m] => k = m
      BY <1>2, <2>1
    <3> HIDE DEF f, above
    <3> QED BY <3>1, <3>2, <3>3 DEF Surjection, Injection, IsInjective
  <2>5. Cardinality(above) = i
    <3> HIDE DEF f, above
    <3> QED BY <2>1, <2>4, FS_Surjection
  <2> QED BY <2>5 DEF Rank
<1>7. ASSUME NEW id \in S PROVE Rank(t, id) \in 1 .. n /\ s[Rank(t, id)] = id
  BY <1>5, <1>6
<1> QED BY <1>1, <1>2, <1>6, <1>7

\* A rank is one of the places of the list.
LEMMA RankBound ==
  ASSUME NEW t \in [Ids -> Keys \cup {None}], Keys \subseteq Nat, None \notin Keys,
         IsFiniteSet(Ids), NEW id \in Stored(t)
  PROVE  Rank(t, id) \in 1 .. Cardinality(Stored(t)) /\ Cardinality(Stored(t)) \in Nat
<1> DEFINE above == {j \in Stored(t) : t[j] >= t[id]}
           S == Stored(t)
<1>1. IsFiniteSet(S)
  BY FS_Subset DEF Stored
<1>2. above \subseteq S /\ id \in above
  <2>1. t[id] \in Nat
    BY DEF Stored
  <2> QED BY <2>1
<1>3. IsFiniteSet(above) /\ Cardinality(above) <= Cardinality(S) /\ Cardinality(above) \in Nat
      /\ Cardinality(S) \in Nat
  BY <1>1, <1>2, FS_Subset, FS_CardinalityType
<1>4. Cardinality(above) # 0
  BY <1>2, <1>3, FS_EmptySet
<1> HIDE DEF above
<1>5. Cardinality(above) \in 1 .. Cardinality(S)
  BY <1>3, <1>4
<1> QED BY <1>3, <1>5 DEF Rank, above

\* What a page holds: the rows of its ranks, once each.
LEMMA PageOfSorting ==
  ASSUME NEW t \in [Ids -> Keys \cup {None}], Keys \subseteq Nat, None \notin Keys, IsFiniteSet(Ids),
         Distinct(t), NEW s \in Sortings(t), NEW o \in Nat, NEW size \in Nat, size > 0
  PROVE  LET w == Window(s, o, size)
         IN /\ w \in Seq(Ids)
            /\ w = <<>> <=> Cardinality(Stored(t)) <= o
            /\ \A id \in Ids : Cardinality({i \in DOMAIN w : w[i] = id}) =
                 IF t[id] # None /\ o < Rank(t, id) /\ Rank(t, id) <= o + size THEN 1 ELSE 0
<1> DEFINE n == Cardinality(Stored(t))
           w == Window(s, o, size)
           hi == IF o + size < n THEN o + size ELSE n
<1>1. n \in Nat /\ s \in [1 .. n -> Stored(t)] /\ DOMAIN s = 1 .. n /\ Stored(t) \subseteq Ids
  BY SortedByRank DEF Stored
<1>2. Len(s) = n /\ w = SubSeq(s, o + 1, hi)
  <2>1. s \in Seq(Stored(t)) /\ Len(s) = n
    <3> HIDE DEF n
    <3> QED BY <1>1
  <2>2. size # 0
    OBVIOUS
  <2> HIDE DEF n
  <2> QED BY <2>1, <2>2 DEF Window
<1>3. \A i \in 1 .. n : Rank(t, s[i]) = i
  BY <1>1, SortedByRank
<1>4. \A id \in Stored(t) : Rank(t, id) \in 1 .. n /\ s[Rank(t, id)] = id
  BY <1>1, SortedByRank
<1> HIDE DEF n, w
<1>5. hi \in Nat /\ hi <= n /\ hi <= o + size /\ (hi = n \/ hi = o + size)
  BY <1>1
<1>6. \A i \in o + 1 .. hi : s[i] \in Ids
  BY <1>1, <1>5
<1> HIDE DEF hi
<1>7. /\ w \in Seq(Ids) /\ Len(w) = IF o + 1 <= hi THEN hi - o ELSE 0
      /\ \A i \in 1 .. hi - o : w[i] = s[o + i]
  <2>1. o + 1 \in Int /\ hi \in Int
    BY <1>5
  <2>2. /\ w \in Seq(Ids) /\ Len(w) = IF o + 1 <= hi THEN hi - (o + 1) + 1 ELSE 0
        /\ \A i \in 1 .. hi - (o + 1) + 1 : w[i] = s[o + 1 + i - 1]
    BY <1>2, <1>6, <2>1, SubSeqProperties
  <2>3. hi - (o + 1) + 1 = hi - o
    BY <1>5
  <2>4. \A i \in 1 .. hi - o : o + 1 + i - 1 = o + i
    BY <1>5
  <2> QED BY <2>2, <2>3, <2>4
<1>8. DOMAIN w = 1 .. hi - o
  <2>1. DOMAIN w = 1 .. Len(w) /\ Len(w) \in Nat
    BY <1>7
  <2>2. CASE o + 1 <= hi
    BY <1>7, <2>1, <2>2
  <2>3. CASE ~(o + 1 <= hi)
    BY <1>5, <1>7, <2>1, <2>3
  <2> QED BY <2>2, <2>3
<1>9. w = <<>> <=> n <= o
  <2>1. w = <<>> <=> Len(w) = 0
    BY <1>7, EmptySeq
  <2> QED BY <1>1, <1>5, <1>7, <2>1
<1>10. ASSUME NEW id \in Ids
       PROVE  Cardinality({i \in DOMAIN w : w[i] = id}) =
                IF t[id] # None /\ o < Rank(t, id) /\ Rank(t, id) <= o + size THEN 1 ELSE 0
  <2> DEFINE at == {i \in DOMAIN w : w[i] = id}
             r == Rank(t, id)
  <2>1. \A i \in at : i \in Nat /\ id \in Stored(t) /\ r = o + i /\ r > o /\ r <= o + size
    <3> SUFFICES ASSUME NEW i \in at
                 PROVE  i \in Nat /\ id \in Stored(t) /\ r = o + i /\ r > o /\ r <= o + size
      OBVIOUS
    <3>1. i \in 1 .. hi - o /\ w[i] = id
      BY <1>8
    <3>2. o + i \in 1 .. n /\ s[o + i] = id /\ i \in Nat /\ i > 0 /\ o + i <= o + size
      BY <1>1, <1>5, <1>7, <3>1
    <3> QED BY <1>1, <1>3, <3>2
  <2>2. CASE t[id] # None /\ o < r /\ r <= o + size
    <3>1. id \in Stored(t)
      BY <2>2 DEF Stored
    <3>2. r \in 1 .. n /\ s[r] = id
      BY <1>4, <3>1
    <3>3. r - o \in 1 .. hi - o /\ o + (r - o) = r
      BY <1>1, <1>5, <2>2, <3>2
    <3>4. w[r - o] = id /\ r - o \in DOMAIN w
      BY <1>7, <1>8, <3>2, <3>3
    <3>5. at = {r - o}
      <4>1. \A i \in at : i = r - o
        BY <1>1, <2>1, <3>2
      <4> QED BY <3>4, <4>1
    <3>6. Cardinality(at) = 1
      BY <3>5, FS_Singleton
    <3> QED BY <2>2, <3>6
  <2>3. CASE ~(t[id] # None /\ o < r /\ r <= o + size)
    <3>1. at = {}
      BY <2>1, <2>3 DEF Stored
    <3>2. Cardinality(at) = 0
      BY <3>1, FS_EmptySet
    <3> QED BY <2>3, <3>2
  <2> QED BY <2>2, <2>3
<1> QED BY <1>7, <1>9, <1>10 DEF n, w

\* The next page begins where this one ends.
LEMMA OffsetNext ==
  ASSUME NEW page \in Nat, NEW size \in Nat
  PROVE  Offset(page + 1, size) = page * size
<1> DEFINE next == page + 1
<1>1. next - 1 = page
  OBVIOUS
<1> HIDE DEF next
<1>2. Offset(next, size) = page * size
  BY <1>1 DEF Offset
<1> QED BY <1>2 DEF next

\* A page is made of rows.
LEMMA WindowTyped ==
  ASSUME NEW t \in [Ids -> Keys \cup {None}], IsFiniteSet(Ids),
         NEW s \in Sortings(t), NEW page \in Nat, page > 0, NEW size \in Nat
  PROVE  Window(s, Offset(page, size), size) \in Seq(Ids)
<1> DEFINE n == Cardinality(Stored(t))
           o == Offset(page, size)
           hi == IF o + size < Len(s) THEN o + size ELSE Len(s)
<1>1. n \in Nat /\ s \in [1 .. n -> Stored(t)] /\ Stored(t) \subseteq Ids
  BY FS_Subset, FS_CardinalityType DEF Stored, Sortings, SetToSeqs
<1>2. o \in Nat
  <2>1. page - 1 \in Nat
    OBVIOUS
  <2> QED BY <2>1 DEF Offset
<1> HIDE DEF n, o
<1>3. s \in Seq(Ids) /\ Len(s) = n /\ \A i \in 1 .. n : s[i] \in Ids
  BY <1>1
<1>4. hi \in Nat /\ hi <= n
  BY <1>1, <1>2, <1>3
<1>5. Window(s, o, size) = IF size = 0 THEN s ELSE SubSeq(s, o + 1, hi)
  BY DEF Window
<1> HIDE DEF hi
<1>6. o + 1 \in Int /\ hi \in Int /\ \A i \in o + 1 .. hi : s[i] \in Ids
  BY <1>2, <1>3, <1>4
<1>7. SubSeq(s, o + 1, hi) \in Seq(Ids)
  BY <1>6, SubSeqProperties
<1> QED BY <1>3, <1>5, <1>7 DEF o

\* What is known of a walk of a table that stands still: the rows of the earlier pages are shown,
\* the page is not behind the list, and what is found and counted is that of the table.
WalkSoFar ==
  LET before == Offset(reader.page, reader.size)
      rows == Cardinality(Stored(table))
  IN /\ \A id \in Ids :
          reader.shown[id] = IF table[id] # None /\ Rank(table, id) <= before THEN 1 ELSE 0
     /\ reader.page = 1 \/ before < rows
     /\ "find" \notin reader.todo =>
          /\ reader.found = <<>> <=> rows <= before
          /\ \A id \in Ids : Cardinality({i \in DOMAIN reader.found : reader.found[i] = id}) =
               IF table[id] # None /\ before < Rank(table, id) /\ Rank(table, id) <= before + reader.size
               THEN 1 ELSE 0
     /\ "count" \notin reader.todo => reader.count = rows

\* Everything that is known of the reader and its table.
WInv ==
  /\ TypeOK
  /\ reader.pc = "reading" => reader.page > 0
  /\ 0 \notin Sizes =>
       /\ reader.pc = "reading" => reader.size > 0
       /\ reader.pc = "reading" /\ reader.still /\ Distinct(table) => WalkSoFar
       /\ WalkShowsEachRowOnce

\* Division by a positive number.
LEMMA Division ==
  ASSUME NEW a \in Nat, NEW n \in Nat, n > 0
  PROVE  a \div n \in Nat /\ a % n \in 0 .. n - 1 /\ a = n * (a \div n) + (a % n)
<1> DEFINE q == a \div n
           r == a % n
<1>1. r \in 0 .. n - 1
  BY Z3
<1>2. a = n * q + r
  BY Z3
<1>3. q \in Int
  OBVIOUS
<1>4. q >= 0
  <2> HIDE DEF q, r
  <2> SUFFICES ASSUME q <= -1 PROVE FALSE
    BY <1>3
  <2>1. PICK k \in Nat : q = -1 - k
    <3>1. -1 - q \in Nat /\ q = -1 - (-1 - q)
      BY <1>3
    <3> QED BY <3>1
  <2>2. n * q = -n - n * k
    BY <2>1, Z3
  <2>3. n * k \in Nat
    BY <2>1
  <2> QED BY <1>1, <1>2, <1>3, <2>2, <2>3
<1>5. q \in Nat
  <2> HIDE DEF q
  <2> QED BY <1>3, <1>4
<1> QED BY <1>1, <1>2, <1>5, Zenon

\* There is a page after this one if and only if rows are left.
LEMMA Paging ==
  ASSUME NEW n \in Nat, NEW size \in Nat, size > 0, NEW page \in Nat
  PROVE  TotalPages(n, size) \in Nat /\ (page < TotalPages(n, size) <=> page * size < n)
<1> DEFINE T == (n + size - 1) \div size
           r == (n + size - 1) % size
<1>1. n + size - 1 \in Nat
  OBVIOUS
<1>2. T \in Nat /\ r \in 0 .. size - 1 /\ n + size - 1 = size * T + r
  <2> DEFINE a == n + size - 1
  <2> HIDE DEF a
  <2>1. a \div size \in Nat /\ a % size \in 0 .. size - 1 /\ a = size * (a \div size) + (a % size)
    BY <1>1, Division DEF a
  <2> QED BY <2>1 DEF a
<1> HIDE DEF T, r
<1>3. ASSUME page < T PROVE page * size < n
  <2>1. PICK k \in Nat : T = page + 1 + k
    <3>1. T - page - 1 \in Nat /\ T = page + 1 + (T - page - 1)
      BY <1>2, <1>3
    <3> QED BY <3>1
  <2>2. size * T = page * size + size + size * k
    BY <2>1, Z3
  <2>3. size * k \in Nat /\ page * size \in Nat
    BY <2>1, Z3
  <2> QED BY <1>2, <2>2, <2>3
<1>4. ASSUME ~(page < T) PROVE ~(page * size < n)
  <2>1. PICK k \in Nat : page = T + k
    <3>1. page - T \in Nat /\ page = T + (page - T)
      BY <1>2, <1>4
    <3> QED BY <3>1
  <2>2. page * size = size * T + size * k
    BY <1>2, <2>1, Z3
  <2>3. size * k \in Nat /\ size * T \in Nat
    BY <1>2, <2>1, Z3
  <2> QED BY <1>2, <2>2, <2>3
<1> QED BY <1>2, <1>3, <1>4 DEF TotalPages, T

\* Nothing is walked at first.
LEMMA WInvInit == RepositoryAssumption /\ Init => WInv
<1> SUFFICES ASSUME RepositoryAssumption, Init PROVE WInv
  OBVIOUS
<1>1. IdleReader \in Reader /\ IdleReader.pc = "idle"
  BY DEF IdleReader, Reader
<1>2. IdleWriter \in Writer
  BY DEF IdleWriter, Writer, RepositoryAssumption
<1>3. TypeOK
  BY <1>1, <1>2 DEF Init, TypeOK, RepositoryAssumption
<1> QED BY <1>1, <1>3 DEF Init, WInv, WalkShowsEachRowOnce

\* A step that touches the reader no more than to tell it that the table has changed.
LEMMA WInvDisturbed ==
  ASSUME WInv, TypeOK',
         reader' = Disturbed \/ (reader' = reader /\ table' = table)
  PROVE  WInv'
<1>1. reader \in Reader
  BY DEF WInv, TypeOK
<1>2. CASE reader' = Disturbed
  <2>1. reader'.still = FALSE /\ reader'.pc = reader.pc /\ reader'.page = reader.page
        /\ reader'.size = reader.size
    BY <1>1, <1>2 DEF Disturbed, Reader
  <2> QED BY <2>1 DEF WInv, WalkShowsEachRowOnce
<1>3. CASE reader' = reader /\ table' = table
  BY <1>3 DEF WInv, WalkShowsEachRowOnce, WalkSoFar, Distinct, Stored
<1> QED BY <1>2, <1>3

\* The answer shows the rows of its page, and names the next one while there is one.
LEMMA WalkAnswer ==
  ASSUME RepositoryAssumption, 0 \notin Sizes, WInv, Answer, reader.still, Distinct(table)
  PROVE  /\ reader'.pc = "reading" => WalkSoFar'
         /\ reader'.pc = "done" =>
              \A id \in Ids : reader'.shown[id] = IF table[id] # None THEN 1 ELSE 0
<1> DEFINE n == Cardinality(Stored(table))
           size == reader.size
           page == reader.page
           before == Offset(page, size)
           answer == Fetched(reader.found, reader.count, before, size)
           next == NextPage(answer.meta, page)
           here(id) == Cardinality({i \in DOMAIN answer.data : answer.data[i] = id})
<1>1. /\ reader \in Reader /\ table \in [Ids -> Keys \cup {None}] /\ reader.pc = "reading"
      /\ reader.todo = {} /\ table' = table
      /\ reader' = [reader EXCEPT
           !.shown = [id \in Ids |-> @[id] + here(id)],
           !.pc = IF next = 0 THEN "done" ELSE "reading",
           !.todo = IF next = 0 THEN {} ELSE {"find", "count"},
           !.page = IF next = 0 THEN @ ELSE next,
           !.found = <<>>, !.count = 0]
  BY DEF Answer, WInv, TypeOK
<1>2. /\ page \in Nat /\ page > 0 /\ size \in Nat /\ size > 0
      /\ reader.shown \in [Ids -> Nat] /\ n \in Nat /\ IsFiniteSet(Stored(table))
  BY <1>1, FS_Subset, FS_CardinalityType DEF WInv, Reader, RepositoryAssumption, Stored
<1>3. /\ \A id \in Ids :
           reader.shown[id] = IF table[id] # None /\ Rank(table, id) <= before THEN 1 ELSE 0
      /\ page = 1 \/ before < n
      /\ reader.found = <<>> <=> n <= before
      /\ \A id \in Ids : Cardinality({i \in DOMAIN reader.found : reader.found[i] = id}) =
           IF table[id] # None /\ before < Rank(table, id) /\ Rank(table, id) <= before + size
           THEN 1 ELSE 0
      /\ reader.count = n
  BY <1>1 DEF WInv, WalkSoFar
<1>4. answer.data = reader.found
  BY DEF Fetched, EmptyPage
<1>5. \A id \in Ids : table[id] # None => Rank(table, id) \in 1 .. n
  BY <1>1, RankBound DEF Stored, RepositoryAssumption
<1>6. before \in Nat /\ page * size = before + size /\ page * size \in Nat
  <2>1. PICK k \in Nat : page = k + 1
    <3>1. page - 1 \in Nat /\ page = page - 1 + 1
      BY <1>2
    <3> QED BY <3>1
  <2>2. page - 1 = k
    BY <1>2, <2>1
  <2>3. before = k * size
    BY <2>2 DEF Offset
  <2>4. page * size = k * size + size
    BY <2>1, <1>2, Z3
  <2>5. k * size \in Nat
    BY <2>1, <1>2
  <2> QED BY <2>3, <2>4, <2>5, <1>2
<1>7. next = IF page * size < n THEN page + 1 ELSE 0
  <2>1. CASE reader.found = <<>>
    <3>1. answer.meta.totalPages = 0
      BY <2>1 DEF Fetched, EmptyPage, NoInfo
    <3>2. n <= before /\ ~(page * size < n)
      BY <1>2, <1>3, <1>6, <2>1
    <3> QED BY <1>2, <3>1, <3>2 DEF NextPage
  <2>2. CASE reader.found # <<>>
    <3>1. answer.meta.totalPages = TotalPages(n, size)
      BY <1>2, <1>3, <2>2 DEF Fetched, Info
    <3>2. page < TotalPages(n, size) <=> page * size < n
      BY <1>2, Paging
    <3> QED BY <3>1, <3>2 DEF NextPage
  <2> QED BY <2>1, <2>2
<1>8. \A id \in Ids :
        here(id) = IF table[id] # None /\ before < Rank(table, id) /\ Rank(table, id) <= before + size
                   THEN 1 ELSE 0
  BY <1>3, <1>4
<1> HIDE DEF answer, next, n, here, before
<1>9. /\ reader'.shown = [id \in Ids |-> reader.shown[id] + here(id)]
      /\ reader'.pc = IF next = 0 THEN "done" ELSE "reading"
      /\ reader'.todo = IF next = 0 THEN {} ELSE {"find", "count"}
      /\ reader'.page = IF next = 0 THEN page ELSE next
      /\ reader'.size = size
  BY <1>1 DEF Reader
<1>10. ASSUME NEW id \in Ids
       PROVE  reader'.shown[id] =
                IF table[id] # None /\ Rank(table, id) <= before + size THEN 1 ELSE 0
  <2>1. reader'.shown[id] = reader.shown[id] + here(id)
    BY <1>9
  <2>2. CASE table[id] = None
    BY <1>3, <1>8, <2>1, <2>2
  <2>3. CASE table[id] # None
    <3>1. Rank(table, id) \in Nat
      BY <1>2, <1>5, <2>3
    <3>2. /\ reader.shown[id] = IF Rank(table, id) <= before THEN 1 ELSE 0
          /\ here(id) = IF before < Rank(table, id) /\ Rank(table, id) <= before + size THEN 1 ELSE 0
      BY <1>3, <1>8, <2>3
    <3>3. CASE Rank(table, id) <= before
      <4>1. ~(before < Rank(table, id)) /\ Rank(table, id) <= before + size
        BY <1>2, <1>6, <3>1, <3>3
      <4>2. reader'.shown[id] = 1 + 0
        BY <2>1, <3>2, <3>3, <4>1
      <4> QED BY <2>3, <4>1, <4>2
    <3>4. CASE ~(Rank(table, id) <= before)
      <4>1. before < Rank(table, id)
        BY <1>6, <3>1, <3>4
      <4>2. reader'.shown[id] = 0 + (IF Rank(table, id) <= before + size THEN 1 ELSE 0)
        BY <2>1, <3>2, <3>4, <4>1
      <4> QED BY <2>3, <4>2
    <3> QED BY <3>3, <3>4
  <2> QED BY <2>2, <2>3
<1>11. CASE page * size < n
  <2>1. next = page + 1 /\ next # 0
    BY <1>2, <1>7, <1>11
  <2>2. reader'.pc = "reading" /\ reader'.todo = {"find", "count"} /\ reader'.page = page + 1
    BY <1>9, <2>1
  <2>3. Offset(reader'.page, reader'.size) = before + size
    BY <1>2, <1>6, <1>9, <2>2, OffsetNext
  <2>4. Offset(reader'.page, reader'.size) < n
    BY <1>6, <1>11, <2>3
  <2>5. WalkSoFar'
    <3>1. Cardinality(Stored(table')) = n
      BY <1>1 DEF n
    <3>2. \A id \in Ids : reader'.shown[id] =
            IF table'[id] # None /\ Rank(table', id) <= Offset(reader'.page, reader'.size) THEN 1 ELSE 0
      BY <1>1, <1>10, <2>3
    <3> QED BY <2>2, <2>4, <3>1, <3>2 DEF WalkSoFar
  <2> QED BY <2>2, <2>5
<1>12. CASE ~(page * size < n)
  <2>1. reader'.pc = "done"
    BY <1>7, <1>9, <1>12
  <2>2. \A id \in Ids : table[id] # None => Rank(table, id) <= before + size
    BY <1>2, <1>5, <1>6, <1>12
  <2> QED BY <1>10, <2>1, <2>2
<1> QED BY <1>11, <1>12

\* The find of a page takes the rows of its ranks.
LEMMA WalkFind ==
  ASSUME RepositoryAssumption, 0 \notin Sizes, WInv, NEW sorting \in Sortings(table), Find(sorting),
         reader.still, Distinct(table)
  PROVE  WalkSoFar'
<1> DEFINE n == Cardinality(Stored(table))
           before == Offset(reader.page, reader.size)
           found == Window(sorting, before, reader.size)
<1>1. /\ reader \in Reader /\ table \in [Ids -> Keys \cup {None}] /\ reader.pc = "reading"
      /\ reader.page > 0 /\ reader.size > 0 /\ table' = table
      /\ reader' = [reader EXCEPT !.todo = @ \ {"find"}, !.found = found]
  BY DEF Find, WInv, TypeOK
<1>2. reader.page \in Nat /\ reader.size \in Nat
  BY <1>1 DEF Reader, RepositoryAssumption
<1>3. before \in Nat
  <2>1. reader.page - 1 \in Nat
    BY <1>1, <1>2
  <2> QED BY <1>2, <2>1 DEF Offset
<1> HIDE DEF before
<1>4. /\ found = <<>> <=> n <= before
      /\ \A id \in Ids : Cardinality({i \in DOMAIN found : found[i] = id}) =
           IF table[id] # None /\ before < Rank(table, id) /\ Rank(table, id) <= before + reader.size
           THEN 1 ELSE 0
  BY <1>1, <1>2, <1>3, PageOfSorting DEF RepositoryAssumption
<1>5. WalkSoFar
  BY <1>1 DEF WInv
<1> HIDE DEF found
<1>6. /\ reader'.shown = reader.shown /\ reader'.page = reader.page /\ reader'.size = reader.size
      /\ reader'.found = found /\ reader'.count = reader.count
      /\ reader'.todo = reader.todo \ {"find"}
  BY <1>1 DEF Reader
<1> QED BY <1>1, <1>4, <1>5, <1>6 DEF WalkSoFar, before

\* The steps of the reader keep what is known of its walk.
LEMMA WInvReader ==
  ASSUME RepositoryAssumption, WInv, UNCHANGED <<table, writer, writes>>,
         \/ \E size \in Sizes, parallel \in BOOLEAN : StartWalk(size, parallel)
         \/ \E sorting \in Sortings(table) : Find(sorting)
         \/ Count \/ Answer \/ LeaveList
  PROVE  WInv'
<1>1. /\ reader \in Reader /\ table \in [Ids -> Keys \cup {None}] /\ table' = table
      /\ IsFiniteSet(Stored(table)) /\ Cardinality(Stored(table)) \in Nat
  BY FS_Subset, FS_CardinalityType DEF WInv, TypeOK, Stored, RepositoryAssumption
<1>2. ASSUME NEW size \in Sizes, NEW parallel \in BOOLEAN, StartWalk(size, parallel) PROVE WInv'
  <2>1. /\ reader' \in Reader /\ reader'.pc = "reading" /\ reader'.page = 1 /\ reader'.size = size
        /\ reader'.todo = {"find", "count"} /\ \A id \in Ids : reader'.shown[id] = 0
    <3>1. IdleReader \in Reader
      BY DEF IdleReader, Reader
    <3>2. reader' = [IdleReader EXCEPT !.pc = "reading", !.todo = {"find", "count"},
                                       !.parallel = parallel, !.size = size]
      BY <1>2 DEF StartWalk
    <3>3. reader' \in Reader
      BY <3>1, <3>2 DEF Reader
    <3> QED BY <3>2, <3>3 DEF IdleReader
  <2>2. size \in Nat /\ (0 \notin Sizes => size > 0)
    BY DEF RepositoryAssumption
  <2>3. Offset(reader'.page, reader'.size) = 0
    BY <2>1, <2>2, Z3 DEF Offset
  <2>4. \A id \in Ids : table[id] # None => Rank(table, id) > 0 /\ Rank(table, id) \in Nat
    BY <1>1, RankBound DEF Stored, RepositoryAssumption
  <2>5. WalkSoFar'
    <3>1. \A id \in Ids : reader'.shown[id] =
            IF table'[id] # None /\ Rank(table', id) <= 0 THEN 1 ELSE 0
      BY <1>1, <2>1, <2>4
    <3> QED BY <1>1, <2>1, <2>3, <3>1 DEF WalkSoFar
  <2> QED BY <1>1, <2>1, <2>2, <2>5 DEF WInv, TypeOK, WalkShowsEachRowOnce
<1>3. ASSUME NEW sorting \in Sortings(table), Find(sorting) PROVE WInv'
  <2> DEFINE found == Window(sorting, Offset(reader.page, reader.size), reader.size)
  <2>1. /\ reader.pc = "reading" /\ reader.page > 0
        /\ reader' = [reader EXCEPT !.todo = @ \ {"find"}, !.found = found]
    BY <1>3 DEF Find, WInv
  <2>2. found \in Seq(Ids)
    BY <1>1, <2>1, WindowTyped DEF Reader, RepositoryAssumption
  <2> HIDE DEF found
  <2>3. reader' \in Reader /\ reader'.pc = "reading" /\ reader'.page = reader.page
        /\ reader'.size = reader.size /\ reader'.still = reader.still
    BY <1>1, <2>1, <2>2 DEF Reader
  <2>4. 0 \notin Sizes /\ reader'.still /\ Distinct(table') => WalkSoFar'
    BY <1>1, <1>3, <2>3, WalkFind
  <2> QED BY <1>1, <2>1, <2>3, <2>4 DEF WInv, TypeOK, WalkShowsEachRowOnce
<1>4. ASSUME Count PROVE WInv'
  <2>1. /\ reader.pc = "reading"
        /\ reader' = [reader EXCEPT !.todo = @ \ {"count"}, !.count = Cardinality(Stored(table))]
    BY <1>4 DEF Count
  <2>2. /\ reader' \in Reader /\ reader'.pc = "reading" /\ reader'.page = reader.page
        /\ reader'.size = reader.size /\ reader'.still = reader.still
        /\ reader'.shown = reader.shown /\ reader'.found = reader.found
        /\ reader'.count = Cardinality(Stored(table)) /\ reader'.todo = reader.todo \ {"count"}
    BY <1>1, <2>1 DEF Reader
  <2>3. 0 \notin Sizes /\ reader'.still /\ Distinct(table') => WalkSoFar'
    BY <1>1, <2>1, <2>2 DEF WInv, WalkSoFar
  <2> QED BY <1>1, <2>1, <2>2, <2>3 DEF WInv, TypeOK, WalkShowsEachRowOnce
<1>5. ASSUME Answer PROVE WInv'
  <2> DEFINE answer == Fetched(reader.found, reader.count, Offset(reader.page, reader.size), reader.size)
             next == NextPage(answer.meta, reader.page)
             here(id) == Cardinality({i \in DOMAIN answer.data : answer.data[i] = id})
  <2>1. /\ reader.pc = "reading" /\ reader.page > 0
        /\ reader' = [reader EXCEPT
           !.shown = [id \in Ids |-> @[id] + here(id)],
           !.pc = IF next = 0 THEN "done" ELSE "reading",
           !.todo = IF next = 0 THEN {} ELSE {"find", "count"},
           !.page = IF next = 0 THEN @ ELSE next,
           !.found = <<>>, !.count = 0]
    BY <1>5 DEF Answer, WInv
  <2>2. \A id \in Ids : here(id) \in Nat
    <3>1. reader.found \in Seq(Ids) /\ answer.data = reader.found
      BY <1>1 DEF Fetched, EmptyPage, Reader
    <3>2. IsFiniteSet(DOMAIN reader.found)
      <4>1. Len(reader.found) \in Nat /\ DOMAIN reader.found = 1 .. Len(reader.found)
        BY <3>1
      <4> QED BY <4>1, Interval
    <3> QED BY <3>1, <3>2, FS_Subset, FS_CardinalityType
  <2>3. next \in Nat
    BY <1>1 DEF NextPage, Reader
  <2> HIDE DEF next, here
  <2>4. [id \in Ids |-> reader.shown[id] + here(id)] \in [Ids -> Nat]
    BY <1>1, <2>2 DEF Reader
  <2>5. /\ reader' \in Reader /\ reader'.pc = (IF next = 0 THEN "done" ELSE "reading")
        /\ reader'.page = (IF next = 0 THEN reader.page ELSE next)
        /\ reader'.size = reader.size /\ reader'.still = reader.still
    <3> DEFINE shown == [id \in Ids |-> reader.shown[id] + here(id)]
               pc == IF next = 0 THEN "done" ELSE "reading"
               todo == IF next = 0 THEN {} ELSE {"find", "count"}
               page == IF next = 0 THEN reader.page ELSE next
    <3>1. /\ shown \in [Ids -> Nat] /\ pc \in {"idle", "reading", "done"}
          /\ todo \in SUBSET {"find", "count"}
      BY <2>4
    <3>2. page \in Nat
      BY <1>1, <2>3 DEF Reader
    <3>3. reader' = [reader EXCEPT !.shown = shown, !.pc = pc, !.todo = todo, !.page = page,
                                   !.found = <<>>, !.count = 0]
      BY <2>1
    <3> HIDE DEF shown, pc, todo, page
    <3>4. <<>> \in Seq(Ids)
      OBVIOUS
    <3>5. /\ reader' \in Reader /\ reader'.pc = pc /\ reader'.page = page
          /\ reader'.size = reader.size /\ reader'.still = reader.still
      BY <1>1, <3>1, <3>2, <3>3, <3>4 DEF Reader
    <3> QED BY <3>5 DEF pc, page
  <2>6. reader'.page > 0
    BY <2>1, <2>3, <2>5
  <2>7. 0 \notin Sizes /\ reader'.pc = "reading" /\ reader'.still /\ Distinct(table') => WalkSoFar'
    BY <1>1, <1>5, <2>5, WalkAnswer
  <2>8. 0 \notin Sizes => WalkShowsEachRowOnce'
    BY <1>1, <1>5, <2>5, WalkAnswer DEF WalkShowsEachRowOnce
  <2> QED BY <1>1, <2>1, <2>5, <2>6, <2>7, <2>8 DEF WInv, TypeOK
<1>6. ASSUME LeaveList PROVE WInv'
  <2>1. reader' \in Reader /\ reader'.pc = "idle"
    BY <1>6 DEF LeaveList, IdleReader, Reader
  <2> QED BY <1>1, <2>1 DEF WInv, TypeOK, WalkShowsEachRowOnce
<1> QED BY <1>2, <1>3, <1>4, <1>5, <1>6

\* An answer leaves the writer of its type.
LEMMA Answered ==
  ASSUME writer \in Writer, NEW status \in {0, 200, 201, 400, 404, 500, 503}
  PROVE  Respond(status) \in Writer
<1> DEFINE A == {"idle", "flush", "answered"}
           B == {"none", "update", "delete"}
           D == Keys \cup {None}
           E == {0, 200, 201, 400, 404, 500, 503}
<1>1. Writer = [pc: A, op: B, id: Ids, key: D, status: E] /\ "answered" \in A /\ status \in E
  BY DEF Writer
<1> HIDE DEF A, B, D, E
<1>2. [writer EXCEPT !.pc = "answered", !.status = status] \in [pc: A, op: B, id: Ids, key: D, status: E]
  BY <1>1
<1> QED BY <1>1, <1>2 DEF Respond

\* The writer and the one behind it leave a walk as it is, or disturb it.
LEMMA WInvWriter ==
  ASSUME RepositoryAssumption, WInv,
         \/ \E id \in Ids, key \in Keys : CreateEntity(id, key) \/ FindToWrite(id, "update", key)
         \/ \E id \in Ids : FindToWrite(id, "delete", None)
         \/ FlushWrite
         \/ \E error \in Failures : WriteFails(error)
         \/ \E ids \in SUBSET Ids : DeleteMany(ids)
         \/ NextRequest \/ DeleteBehind
  PROVE  WInv'
<1>1. /\ table \in [Ids -> Keys \cup {None}] /\ reader \in Reader /\ writer \in Writer
      /\ writes \in 0 .. MaxWrites /\ MaxWrites \in Nat
  BY DEF WInv, TypeOK, RepositoryAssumption
<1>2. Disturbed \in Reader
  BY <1>1 DEF Disturbed, Reader
<1>3. \A status \in {0, 200, 201, 400, 404, 500, 503} : Respond(status) \in Writer
  BY <1>1, Answered
<1>4. ASSUME NEW id \in Ids, NEW key \in Keys \cup {None}, Write(id, key)
      PROVE  /\ table' \in [Ids -> Keys \cup {None}] /\ reader' = Disturbed
             /\ writes' \in 0 .. MaxWrites
  BY <1>1, <1>4 DEF Write
<1>5. ASSUME NEW id \in Ids, NEW key \in Keys, CreateEntity(id, key) PROVE WInv'
  <2>1. TypeOK' /\ reader' = Disturbed
    BY <1>2, <1>3, <1>4, <1>5 DEF CreateEntity, TypeOK
  <2> QED BY <2>1, WInvDisturbed
<1>6. ASSUME NEW id \in Ids, NEW op \in {"update", "delete"}, NEW key \in Keys \cup {None},
             FindToWrite(id, op, key)
      PROVE  WInv'
  <2>1. writer' \in Writer
    BY <1>3, <1>6 DEF FindToWrite, Writer
  <2>2. TypeOK' /\ reader' = reader /\ table' = table
    BY <1>1, <1>6, <2>1 DEF FindToWrite, TypeOK
  <2> QED BY <2>2, WInvDisturbed
<1>7. ASSUME FlushWrite PROVE WInv'
  <2>1. writer' \in Writer
    BY <1>3, <1>7 DEF FlushWrite
  <2>2. writer.id \in Ids /\ writer.key \in Keys \cup {None}
    BY <1>1 DEF Writer
  <2>3. CASE table[writer.id] = None
    BY <1>1, <1>7, <2>1, <2>3, WInvDisturbed DEF FlushWrite, TypeOK
  <2>4. CASE table[writer.id] # None
    <3>1. Write(writer.id, IF writer.op = "delete" THEN None ELSE writer.key)
      BY <1>7, <2>4 DEF FlushWrite
    <3>2. /\ table' \in [Ids -> Keys \cup {None}] /\ reader' = Disturbed
          /\ writes' \in 0 .. MaxWrites
      BY <1>4, <2>2, <3>1
    <3>3. TypeOK'
      BY <1>2, <2>1, <3>2 DEF TypeOK
    <3> QED BY <3>2, <3>3, WInvDisturbed
  <2> QED BY <2>3, <2>4
<1>8. ASSUME NEW error, WriteFails(error) PROVE WInv'
  <2>1. ErrorStatus(error) \in {0, 200, 201, 400, 404, 500, 503}
    BY DEF ErrorStatus
  <2>2. TypeOK' /\ reader' = reader /\ table' = table
    BY <1>1, <1>3, <1>8, <2>1 DEF WriteFails, TypeOK
  <2> QED BY <2>2, WInvDisturbed
<1>9. ASSUME NEW ids \in SUBSET Ids, DeleteMany(ids) PROVE WInv'
  <2>1. table' \in [Ids -> Keys \cup {None}] /\ writes' \in 0 .. MaxWrites /\ writer' \in Writer
    BY <1>1, <1>3, <1>9 DEF DeleteMany
  <2>2. CASE ids \cap Stored(table) = {}
    <3>1. reader' = reader
      BY <1>9, <2>2 DEF DeleteMany
    <3>2. table' = table
      <4>1. table' = [id \in Ids |-> IF id \in ids THEN None ELSE table[id]]
        BY <1>9 DEF DeleteMany
      <4>2. \A id \in Ids : table'[id] = table[id]
        BY <2>2, <4>1 DEF Stored
      <4> QED BY <1>1, <2>1, <4>2
    <3> QED BY <1>1, <2>1, <3>1, <3>2, WInvDisturbed DEF TypeOK
  <2>3. CASE ids \cap Stored(table) # {}
    <3>1. reader' = Disturbed
      BY <1>9, <2>3 DEF DeleteMany
    <3> QED BY <1>2, <2>1, <3>1, WInvDisturbed DEF TypeOK
  <2> QED BY <2>2, <2>3
<1>10. ASSUME NextRequest PROVE WInv'
  <2>1. IdleWriter \in Writer
    BY DEF IdleWriter, Writer, RepositoryAssumption
  <2> QED BY <1>1, <1>10, <2>1, WInvDisturbed DEF NextRequest, TypeOK
<1>11. ASSUME DeleteBehind PROVE WInv'
  <2>1. writer.id \in Ids
    BY <1>1 DEF Writer
  <2>2. /\ table' \in [Ids -> Keys \cup {None}] /\ reader' = Disturbed
        /\ writes' \in 0 .. MaxWrites /\ writer' = writer
    BY <1>4, <1>11, <2>1 DEF DeleteBehind
  <2> QED BY <1>1, <1>2, <2>2, WInvDisturbed DEF TypeOK
<1> QED BY <1>5, <1>6, <1>7, <1>8, <1>9, <1>10, <1>11

\* Every step keeps the invariant.
LEMMA WInvNext == RepositoryAssumption /\ WInv /\ [Next]_vars => WInv'
<1> SUFFICES ASSUME RepositoryAssumption, WInv, [Next]_vars PROVE WInv'
  OBVIOUS
<1>1. CASE UNCHANGED vars
  <2>1. TypeOK'
    BY <1>1 DEF vars, WInv, TypeOK
  <2> QED BY <1>1, <2>1, WInvDisturbed DEF vars
<1>2. CASE Next /\ UNCHANGED <<table, writer, writes>>
            /\ (\/ \E size \in Sizes, parallel \in BOOLEAN : StartWalk(size, parallel)
                \/ \E sorting \in Sortings(table) : Find(sorting)
                \/ Count \/ Answer \/ LeaveList)
  BY <1>2, WInvReader
<1>3. ASSUME \/ \E size \in Sizes, parallel \in BOOLEAN : StartWalk(size, parallel)
             \/ \E sorting \in Sortings(table) : Find(sorting)
             \/ Count \/ Answer \/ LeaveList
      PROVE  UNCHANGED <<table, writer, writes>>
  BY <1>3 DEF StartWalk, Find, Count, Answer, LeaveList
<1> QED BY <1>1, <1>2, <1>3, WInvWriter DEF Next

=============================================================================

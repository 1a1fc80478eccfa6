---------------------------- MODULE MDCryptoProofs ----------------------------
(***************************************************************************)
(* Proofs about the parts of a crypto market data service (MCMDCrypto), for *)
(* every history of a book, every configuration, every flow control and    *)
(* every list of symbols, and all bounds.                                  *)
(***************************************************************************)
EXTENDS MCMDCrypto, FiniteSetTheorems, SequenceTheorems, TLAPS

LEMMA LeastOf ==
  ASSUME NEW B, B \subseteq Nat, B # {}
  PROVE  \E n \in B : \A m \in B : n <= m
<1> DEFINE R == OpToRel(<, Nat)
<1>1. IsWellFoundedOn(R, Nat)
  BY NatLessThanWellFounded, Zenon
<1>2. ASSUME NEW m \in Nat, NEW n \in Nat, m < n PROVE <<m, n>> \in R
  BY <1>2 DEF OpToRel
<1> HIDE DEF R
<1>3. PICK n \in B : \A m \in B : ~(<<m, n>> \in R)
  BY <1>1, WFMin
<1>4. ASSUME NEW m \in B PROVE n <= m
  <2>1. ~(m < n)
    BY <1>2, <1>3
  <2> QED BY <2>1
<1> QED BY <1>4

\* The largest of some numbers that have a bound.
LEMMA LargestOf ==
  ASSUME NEW k \in Nat, NEW S \in SUBSET (0 .. k), S # {}
  PROVE  Max(S) \in S /\ \A n \in S : Max(S) >= n
<1> DEFINE B == {k - n : n \in S}
<1>1. B \subseteq Nat /\ B # {}
  <2>1. \A n \in S : n \in 0 .. k /\ k - n \in Nat
    OBVIOUS
  <2> QED BY <2>1
<1>2. PICK b \in B : \A m \in B : b <= m
  BY <1>1, LeastOf
<1>3. PICK x \in S : b = k - x
  OBVIOUS
<1>4. \A n \in S : x >= n
  <2> SUFFICES ASSUME NEW n \in S PROVE x >= n
    OBVIOUS
  <2>1. k - n \in B /\ n \in 0 .. k /\ x \in 0 .. k
    OBVIOUS
  <2> QED BY <1>2, <1>3, <2>1
<1> QED BY <1>4 DEF Max

LEMMA LargestIs ==
  ASSUME NEW S \in SUBSET Nat, NEW x \in S, \A n \in S : x >= n
  PROVE  Max(S) = x
<1>1. Max(S) \in S /\ \A n \in S : Max(S) >= n
  BY DEF Max
<1>2. Max(S) >= x /\ x >= Max(S) /\ Max(S) \in Nat /\ x \in Nat
  BY <1>1
<1> QED BY <1>2

-----------------------------------------------------------------------------
(***************************************************************************)
(* The book.                                                               *)
(***************************************************************************)
\* The changes of a price among those of a range of ids, and the prices they are of.
Of(p, first, final) == {n \in first .. final : Change[n].price = p}
Prices(first, final) == {Change[n].price : n \in first .. final}

LEMMA LevelsAre ==
  ASSUME NEW first \in Nat, NEW final \in Nat
  PROVE  /\ DOMAIN LevelsOf(first, final) = Prices(first, final)
         /\ \A p \in Prices(first, final) :
              /\ Of(p, first, final) # {} /\ Of(p, first, final) \in SUBSET (0 .. final)
              /\ LevelsOf(first, final)[p] = Change[Max(Of(p, first, final))].size
         /\ \A p : p \in Prices(first, final) <=> Of(p, first, final) # {}
<1>1. \A p : p \in Prices(first, final) <=> Of(p, first, final) # {}
  BY DEF Of, Prices
<1>2. \A p : Of(p, first, final) \in SUBSET (0 .. final)
  BY DEF Of
<1>3. LevelsOf(first, final) = [p \in Prices(first, final) |-> Change[Max(Of(p, first, final))].size]
  BY DEF LevelsOf, Of, Prices
<1> QED BY <1>1, <1>2, <1>3

\* The levels up to an id are those up to an earlier one, but where the changes since,
\* or some more of the changes before, say something.
LEMMA LevelsOver ==
  ASSUME NEW k \in Nat, NEW first \in Nat \ {0}, NEW final \in Nat, first <= k + 1, k + 1 <= final
  PROVE  /\ Prices(1, final) = Prices(1, k) \cup Prices(first, final)
         /\ \A p \in Prices(first, final) : LevelsOf(1, final)[p] = LevelsOf(first, final)[p]
         /\ \A p \in Prices(1, k) \ Prices(first, final) : LevelsOf(1, final)[p] = LevelsOf(1, k)[p]
<1>1. 1 .. final = 1 .. k \cup first .. final
  OBVIOUS
<1>2. Prices(1, final) = Prices(1, k) \cup Prices(first, final)
  BY <1>1 DEF Prices
<1>3. ASSUME NEW p \in Prices(first, final) PROVE LevelsOf(1, final)[p] = LevelsOf(first, final)[p]
  <2> DEFINE S == Of(p, 1, final)
             T == Of(p, first, final)
             m == Max(T)
  <2>1. T # {} /\ T \in SUBSET (0 .. final) /\ S \in SUBSET (0 .. final)
        /\ LevelsOf(first, final)[p] = Change[m].size
    <3>1. first \in Nat /\ S \in SUBSET (0 .. final)
      BY DEF Of
    <3> QED BY <3>1, LevelsAre
  <2>2. m \in T /\ \A n \in T : m >= n
    BY <2>1, LargestOf
  <2>3. m \in S /\ \A n \in S : m >= n
    <3>1. \A n \in S : n \in T \/ n < first
      BY DEF Of
    <3>2. m >= first /\ m \in 1 .. final /\ m \in S
      BY <2>2 DEF Of
    <3>3. \A n \in S : n \in Nat
      BY <2>1
    <3> QED BY <2>2, <3>1, <3>2, <3>3
  <2>4. Max(S) = m
    <3>1. S \in SUBSET Nat
      BY <2>1
    <3> QED BY <2>3, <3>1, LargestIs
  <2>5. p \in Prices(1, final) /\ 1 \in Nat
    BY <1>2
  <2> QED BY <2>1, <2>4, <2>5, LevelsAre
<1>4. ASSUME NEW p \in Prices(1, k) \ Prices(first, final) PROVE LevelsOf(1, final)[p] = LevelsOf(1, k)[p]
  <2>1. Of(p, 1, final) = Of(p, 1, k)
    <3>1. Of(p, first, final) = {}
      BY DEF Of, Prices
    <3> QED BY <1>1, <3>1 DEF Of
  <2>2. p \in Prices(1, final) /\ p \in Prices(1, k) /\ 1 \in Nat
    BY <1>2
  <2>3. LevelsOf(1, final)[p] = Change[Max(Of(p, 1, final))].size
    BY <2>2, LevelsAre
  <2>4. LevelsOf(1, k)[p] = Change[Max(Of(p, 1, k))].size
    BY <2>2, LevelsAre
  <2> QED BY <2>1, <2>3, <2>4
<1> QED BY <1>2, <1>3, <1>4

\* A book of the exchange with an update that has the next id is the book of the
\* exchange again, at the last id of the update.
LEMMA MergedBook ==
  ASSUME NEW b, b.final \in Nat \ {0}, b.levels = BookAt(b.final),
         NEW u, u.first \in Nat \ {0}, u.final \in Nat, Merges(b, u)
  PROVE  merge(b, u).levels = BookAt(u.final)
<1> DEFINE k == b.final
           Lk == LevelsOf(1, k)
           Lu == LevelsOf(u.first, u.final)
           L == LevelsOf(1, u.final)
           D == DOMAIN b.levels \cup DOMAIN Lu
           M == [p \in D |-> IF p \in DOMAIN Lu THEN Lu[p] ELSE b.levels[p]]
<1>1. u.first <= k + 1 /\ k + 1 <= u.final /\ k \in Nat /\ 1 \in Nat
  BY DEF Merges
<1>2. /\ DOMAIN Lk = Prices(1, k) /\ DOMAIN Lu = Prices(u.first, u.final) /\ DOMAIN L = Prices(1, u.final)
  BY <1>1, LevelsAre
<1>3. /\ DOMAIN L = DOMAIN Lk \cup DOMAIN Lu
      /\ \A p \in DOMAIN Lu : L[p] = Lu[p]
      /\ \A p \in DOMAIN Lk \ DOMAIN Lu : L[p] = Lk[p]
  <2>1. /\ Prices(1, u.final) = Prices(1, k) \cup Prices(u.first, u.final)
        /\ \A p \in Prices(u.first, u.final) : LevelsOf(1, u.final)[p] = LevelsOf(u.first, u.final)[p]
        /\ \A p \in Prices(1, k) \ Prices(u.first, u.final) : LevelsOf(1, u.final)[p] = LevelsOf(1, k)[p]
    BY <1>1, LevelsOver
  <2> QED BY <1>2, <2>1
<1> HIDE DEF Lk, Lu, L
<1>4. b.levels = [p \in {q \in DOMAIN Lk : Lk[q] # 0} |-> Lk[p]]
  BY DEF BookAt, WithoutEmpty, Lk
<1>5. DOMAIN b.levels = {q \in DOMAIN Lk : Lk[q] # 0} /\ \A p \in DOMAIN b.levels : b.levels[p] = Lk[p]
  BY <1>4
<1>6. DOMAIN M = D /\ \A p \in D : M[p] = L[p]
  BY <1>3, <1>5
<1>7. {q \in DOMAIN M : M[q] # 0} = {q \in DOMAIN L : L[q] # 0}
  BY <1>3, <1>5, <1>6
<1>8. WithoutEmpty(M) = WithoutEmpty(L)
  BY <1>6, <1>7 DEF WithoutEmpty
<1>9. merge(b, u).levels = WithoutEmpty(M)
  BY DEF merge, Lu
<1> QED BY <1>8, <1>9 DEF BookAt, L

-----------------------------------------------------------------------------
\* What is queued and cached is of the exchange's ids; the snapshot is the exchange's
\* book at its id, and a merged one has at the most one update cached for it, or the two
\* that are about to be merged.
Upd == {u \in [first : Nat \ {0}, final : Nat] : u.first <= u.final}
Snapshot(s) == s.final \in Nat \ {0} /\ s.levels = BookAt(s.final) /\ s.fresh \in BOOLEAN

BookInv ==
  /\ exchId \in Nat \ {0} /\ exchSent \in Nat \ {0}
  /\ bookQueue \in Seq(Upd) /\ updates \in Seq(Upd)
  /\ snapshot # NoBook =>
       /\ Snapshot(snapshot)
       /\ snapshot.fresh \/ Len(updates) <= (IF pc = "merge" THEN 2 ELSE 1)
  /\ BookIsTheExchanges

LEMMA BookFirst == BookInit => BookInv
<1> SUFFICES ASSUME BookInit PROVE BookInv
  OBVIOUS
<1>1. << >> \in Seq(Upd) /\ 1 \in Nat \ {0}
  OBVIOUS
<1> QED BY <1>1 DEF BookInit, BookInv, BookIsTheExchanges

\* What leaves the book published and the snapshot as they were, or drops the snapshot.
LEMMA BookFrame ==
  ASSUME BookInv, exchId' \in Nat \ {0}, exchSent' \in Nat \ {0}, bookQueue' \in Seq(Upd), updates' \in Seq(Upd),
         book' = book,
         \/ snapshot' = NoBook
         \/ snapshot' = snapshot /\ (\/ updates' = updates /\ pc' = pc
                                     \/ Len(updates') <= 1
                                     \/ pc' = "merge" /\ pc = "idle" /\ Len(updates') <= Len(updates) + 1)
  PROVE  BookInv'
<1>1. BookIsTheExchanges'
  BY DEF BookInv, BookIsTheExchanges, BookAt, WithoutEmpty, LevelsOf, NoBook
<1>2. Len(updates) \in Nat /\ Len(updates') \in Nat
  BY DEF BookInv
<1>3. snapshot' # NoBook => /\ Snapshot(snapshot')
                            /\ snapshot'.fresh \/ Len(updates') <= (IF pc' = "merge" THEN 2 ELSE 1)
  <2> SUFFICES ASSUME snapshot' # NoBook
               PROVE  /\ Snapshot(snapshot')
                      /\ snapshot'.fresh \/ Len(updates') <= (IF pc' = "merge" THEN 2 ELSE 1)
    OBVIOUS
  <2>1. snapshot' = snapshot /\ snapshot # NoBook
    OBVIOUS
  <2>2. Snapshot(snapshot) /\ (snapshot.fresh \/ Len(updates) <= (IF pc = "merge" THEN 2 ELSE 1))
    BY <2>1 DEF BookInv
  <2> QED BY <1>2, <2>1, <2>2
<1>4. (snapshot # NoBook)' <=> snapshot' # NoBook
  BY DEF NoBook
<1>5. Snapshot(snapshot)' <=> Snapshot(snapshot')
  BY DEF Snapshot, BookAt, WithoutEmpty, LevelsOf
<1> QED BY <1>1, <1>3, <1>4, <1>5 DEF BookInv

\* What a merge publishes and keeps.
LEMMA MergeKeeps ==
  ASSUME BookInv, pc = "merge", Merged1, UNCHANGED <<exchId, exchSent, bookQueue>>
  PROVE  BookInv'
<1> DEFINE b == snapshot
           merged == MergeAll(b, updates)
           fitting == {n \in DOMAIN updates : Merges(b, updates[n])}
<1>1. /\ Snapshot(b) /\ (b.fresh \/ Len(updates) <= 2) /\ b # NoBook
      /\ updates \in Seq(Upd) /\ updates # << >> /\ Len(updates) \in Nat \ {0}
      /\ DOMAIN updates = 1 .. Len(updates)
      /\ \A n \in DOMAIN updates : updates[n] \in Upd
  BY DEF BookInv, Merged1
<1>2. snapshot' = merged /\ updates' = <<Last(updates)>> /\ pc' = "idle"
      /\ book' = [final |-> merged.final, levels |-> merged.levels, first |-> b.fresh,
                  behind |-> Cardinality({n \in DOMAIN updates : updates[n].first > merged.final})]
  BY DEF Merged1, handleMDBooks
<1>3. updates[1].first <= b.final + 1 /\ 1 \in DOMAIN updates
  <2>1. 1 \in DOMAIN updates
    BY <1>1
  <2>2. updates[1] \in Upd /\ b.final \in Nat
    BY <1>1, <2>1 DEF Snapshot
  <2> QED BY <2>1, <2>2 DEF Merged1, TooLarge, Upd
<1>4. Snapshot(merged) /\ updates[1].first <= merged.final /\ (merged = b \/ ~merged.fresh)
  <2>1. CASE fitting = {}
    <3>1. merged = b
      BY <2>1 DEF MergeAll
    <3>2. updates[1] \in Upd /\ ~Merges(b, updates[1])
      BY <1>1, <1>3, <2>1
    <3>3. updates[1].first <= b.final
      BY <1>1, <1>3, <3>2 DEF Upd, Merges, Snapshot
    <3> QED BY <1>1, <3>1, <3>3
  <2>2. CASE fitting # {}
    <3>1. PICK n \in fitting : merged = merge(b, updates[n])
      BY <2>2 DEF MergeAll
    <3> DEFINE u == updates[n]
    <3>2. u \in Upd /\ Merges(b, u)
      BY <1>1, <3>1
    <3>3. b.final \in Nat \ {0} /\ b.levels = BookAt(b.final) /\ u.first \in Nat \ {0} /\ u.final \in Nat
      BY <1>1, <3>2 DEF Snapshot, Upd
    <3> HIDE DEF u
    <3>4. merge(b, u).levels = BookAt(u.final)
      BY <3>2, <3>3, MergedBook
    <3>5. merge(b, u).final = u.final /\ merge(b, u).fresh = FALSE
      BY DEF merge
    <3>6. u.final \in Nat \ {0} /\ b.final + 1 <= u.final
      BY <3>2, <3>3 DEF Merges
    <3>7. updates[1] \in Upd
      BY <1>1, <1>3
    <3>8. updates[1].first <= u.final
      BY <1>3, <3>3, <3>6, <3>7 DEF Upd
    <3>9. merged = merge(b, u)
      BY <3>1 DEF u
    <3> QED BY <3>4, <3>5, <3>6, <3>8, <3>9 DEF Snapshot
  <2> QED BY <2>1, <2>2
<1> HIDE DEF merged
<1>5. Last(updates) \in Upd /\ updates' \in Seq(Upd) /\ Len(updates') = 1
  <2>1. Last(updates) \in Upd
    BY <1>1 DEF Last
  <2> QED BY <1>2, <2>1
<1>6. book'.behind <= 1 \/ book'.first
  <2> SUFFICES ASSUME ~b.fresh PROVE book'.behind <= 1
    BY <1>1, <1>2 DEF Snapshot
  <2> DEFINE late == {n \in DOMAIN updates : updates[n].first > merged.final}
  <2>1. late \subseteq {2}
    <3>1. ASSUME NEW n \in late PROVE n = 2
      <4>1. n \in 1 .. Len(updates) /\ Len(updates) <= 2 /\ updates[n].first > merged.final
        BY <1>1, <3>1
      <4>2. n = 1 \/ n = 2
        BY <1>1, <4>1
      <4>3. n # 1
        <5>1. updates[1] \in Upd /\ merged.final \in Nat
          BY <1>1, <1>3, <1>4 DEF Snapshot
        <5> QED BY <1>4, <4>1, <5>1 DEF Upd
      <4> QED BY <4>2, <4>3
    <3> QED BY <3>1
  <2>2. Cardinality(late) \in Nat /\ Cardinality(late) <= 1
    <3>1. IsFiniteSet({2}) /\ Cardinality({2}) = 1
      BY FS_Singleton
    <3> HIDE DEF late
    <3>2. IsFiniteSet(late) /\ Cardinality(late) <= Cardinality({2})
      BY <2>1, <3>1, FS_Subset
    <3>3. Cardinality(late) \in Nat
      BY <3>2, FS_CardinalityType
    <3> QED BY <3>1, <3>2, <3>3
  <2>3. book'.behind = Cardinality(late)
    BY <1>2
  <2> QED BY <2>2, <2>3
<1>7. BookIsTheExchanges'
  <2>1. book'.levels = BookAt(book'.final)
    BY <1>2, <1>4 DEF Snapshot
  <2> QED BY <1>6, <2>1 DEF BookIsTheExchanges, BookAt, WithoutEmpty, LevelsOf
<1>8. Snapshot(snapshot)'
  BY <1>2, <1>4 DEF Snapshot, BookAt, WithoutEmpty, LevelsOf
<1>9. exchId' = exchId /\ exchSent' = exchSent /\ bookQueue' = bookQueue
  OBVIOUS
<1> QED BY <1>2, <1>5, <1>7, <1>8, <1>9 DEF BookInv

\* Messages taken from a queue, and appended to one or to the updates.
LEMMA QueueOfBooks ==
  ASSUME NEW q \in Seq(Upd), NEW u \in Upd
  PROVE  /\ Append(q, u) \in Seq(Upd) /\ Len(Append(q, u)) = Len(q) + 1
         /\ q # << >> => Head(q) \in Upd /\ Tail(q) \in Seq(Upd)
         /\ Newest(Append(q, u)) \in Seq(Upd) /\ Len(Newest(Append(q, u))) <= Len(q) + 1
<1> DEFINE a == Append(q, u)
           k == MAX_BOOKS_CACHE_NUM_OF_EACH_SYM
<1>1. a \in Seq(Upd) /\ Len(a) = Len(q) + 1 /\ Len(q) \in Nat
  OBVIOUS
<1>2. q # << >> => Head(q) \in Upd /\ Tail(q) \in Seq(Upd)
  OBVIOUS
<1>3. k \in Nat \ {0}
  BY BooksAssumption
<1> HIDE DEF a, k
<1>4. Newest(a) \in Seq(Upd) /\ Len(Newest(a)) <= Len(a)
  <2>1. CASE Len(a) > k
    <3>1. Newest(a) = SubSeq(a, Len(a) - k + 1, Len(a))
      BY <2>1 DEF Newest, k
    <3>2. Len(a) - k + 1 \in 1 .. Len(a) /\ Len(a) \in Nat
      BY <1>1, <1>3, <2>1
    <3> DEFINE m == Len(a) - k + 1
    <3>3. m \in 1 .. Len(a)
      BY <3>2
    <3> HIDE DEF m
    <3>4. SubSeq(a, m, Len(a)) \in Seq(Upd) /\ Len(SubSeq(a, m, Len(a))) = Len(a) - m + 1
      BY <1>1, <3>3
    <3>5. Newest(a) = SubSeq(a, m, Len(a))
      BY <3>1 DEF m
    <3> QED BY <3>2, <3>3, <3>4, <3>5
  <2>2. CASE ~(Len(a) > k)
    BY <1>1, <2>2 DEF Newest, k
  <2> QED BY <2>1, <2>2
<1>5. Append(q, u) = a
  BY DEF a
<1> QED BY <1>1, <1>2, <1>4, <1>5

LEMMA BookKept == BookInv /\ [BookNext]_bookVars => BookInv'
<1> SUFFICES ASSUME BookInv, [BookNext]_bookVars PROVE BookInv'
  OBVIOUS
<1>1. /\ exchId \in Nat \ {0} /\ exchSent \in Nat \ {0} /\ exchId + 1 \in Nat \ {0} /\ exchSent + 1 \in Nat \ {0}
      /\ bookQueue \in Seq(Upd) /\ updates \in Seq(Upd) /\ Len(updates) \in Nat
      /\ << >> \in Seq(Upd) /\ Len(<< >>) = 0
  BY DEF BookInv
<1>2. CASE Trade
  BY <1>1, <1>2, BookFrame DEF Trade
<1>3. ASSUME NEW n \in 1 .. Len(Change), SendUpdate(n) PROVE BookInv'
  <2> DEFINE u == [first |-> exchSent + 1, final |-> n]
  <2>1. u \in Upd /\ n \in Nat \ {0}
    BY <1>1, <1>3 DEF SendUpdate, Upd
  <2>2. bookQueue' = Append(bookQueue, u) /\ exchSent' = n
    BY <1>3 DEF SendUpdate
  <2> HIDE DEF u
  <2>3. bookQueue' \in Seq(Upd)
    BY <1>1, <2>1, <2>2, QueueOfBooks
  <2>4. exchId' = exchId /\ updates' = updates /\ snapshot' = snapshot /\ pc' = pc /\ book' = book
    BY <1>3 DEF SendUpdate
  <2> QED BY <1>1, <2>1, <2>2, <2>3, <2>4, BookFrame
<1>4. CASE SubAgain
  BY <1>1, <1>4, BookFrame DEF SubAgain
<1>5. CASE resetUpdates
  <2>1. exchId' = exchId /\ exchSent' = exchId /\ updates' = << >> /\ bookQueue' = bookQueue
        /\ snapshot' = snapshot /\ book' = book
    BY <1>5 DEF resetUpdates
  <2>2. updates' \in Seq(Upd) /\ Len(updates') <= 1
    BY <1>1, <2>1
  <2> QED BY <1>1, <2>1, <2>2, BookFrame
<1>6. CASE resetSnapshot
  BY <1>1, <1>6, BookFrame DEF resetSnapshot
<1>7. CASE cacheUpdateData
  <2> DEFINE new == Head(bookQueue)
  <2>1. new \in Upd /\ bookQueue' \in Seq(Upd)
    <3>1. bookQueue # << >> /\ bookQueue' = Tail(bookQueue)
      BY <1>7 DEF cacheUpdateData
    <3> QED BY <1>1, <3>1
  <2>2. exchId' = exchId /\ exchSent' = exchSent /\ book' = book /\ pc = "idle"
    BY <1>7 DEF cacheUpdateData
  <2>3. CASE updates' = <<new>> /\ snapshot' = NoBook
    BY <1>1, <2>1, <2>2, <2>3, BookFrame
  <2>4. CASE updates' = Newest(Append(updates, new)) /\ pc' = "merge" /\ snapshot' = snapshot
    <3> HIDE DEF new
    <3>1. updates' \in Seq(Upd) /\ Len(updates') <= Len(updates) + 1
      BY <1>1, <2>1, <2>4, QueueOfBooks
    <3> QED BY <1>1, <2>1, <2>2, <2>4, <3>1, BookFrame
  <2> QED BY <1>7, <2>3, <2>4 DEF cacheUpdateData
<1>8. CASE mergeUpdateDataToSnapshot
  <2>1. pc = "merge" /\ exchId' = exchId /\ exchSent' = exchSent /\ bookQueue' = bookQueue
    BY <1>8 DEF mergeUpdateDataToSnapshot
  <2>2. CASE SnapshotNotExists
    BY <1>1, <2>1, <2>2, BookFrame DEF SnapshotNotExists
  <2>3. CASE ReadsCleared
    <3>1. Len(updates') <= 1
      BY <1>1, <2>3 DEF ReadsCleared
    <3> QED BY <1>1, <2>1, <2>3, <3>1, BookFrame DEF ReadsCleared
  <2>4. CASE FinalUpdateIdTooSmall
    <3>1. updates' \in Seq(Upd) /\ Len(updates') <= 1
      BY <1>1, <2>4 DEF FinalUpdateIdTooSmall
    <3> QED BY <1>1, <2>1, <2>4, <3>1, BookFrame DEF FinalUpdateIdTooSmall
  <2>5. CASE FirstUpdateIdTooLarge
    BY <1>1, <2>1, <2>5, BookFrame DEF FirstUpdateIdTooLarge
  <2>6. CASE Merged1
    BY <2>1, <2>6, MergeKeeps
  <2> QED BY <1>8, <2>2, <2>3, <2>4, <2>5, <2>6 DEF mergeUpdateDataToSnapshot
<1>9. CASE createSnapshot
  <2>1. pc = "query" /\ exchId' = exchId /\ exchSent' = exchSent /\ bookQueue' = bookQueue
        /\ updates' = updates /\ book' = book /\ pc' = "idle"
    BY <1>9 DEF createSnapshot
  <2>2. CASE snapshot' = snapshot
    <3>1. snapshot # NoBook => snapshot.fresh \/ Len(updates') <= 1
      BY <2>1 DEF BookInv
    <3>2. snapshot = NoBook \/ (Snapshot(snapshot) /\ snapshot.fresh) \/ Len(updates') <= 1
      BY <3>1 DEF BookInv
    <3>3. CASE snapshot = NoBook
      BY <1>1, <2>1, <2>2, <3>3, BookFrame
    <3>4. CASE Len(updates') <= 1
      BY <1>1, <2>1, <2>2, <3>4, BookFrame
    <3>5. CASE snapshot # NoBook /\ snapshot.fresh
      <4>1. Snapshot(snapshot)'
        BY <2>2, <3>5 DEF BookInv, Snapshot, BookAt, WithoutEmpty, LevelsOf
      <4>2. BookIsTheExchanges'
        BY <2>1 DEF BookInv, BookIsTheExchanges, BookAt, WithoutEmpty, LevelsOf, NoBook
      <4> QED BY <1>1, <2>1, <2>2, <3>5, <4>1, <4>2 DEF BookInv
    <3> QED BY <3>2, <3>3, <3>4, <3>5
  <2>3. ASSUME NEW id \in 1 .. exchId, snapshot' = [final |-> id, levels |-> BookAt(id), fresh |-> TRUE]
        PROVE  BookInv'
    <3>1. Snapshot(snapshot)' /\ snapshot'.fresh
      <4>1. id \in Nat \ {0} /\ TRUE \in BOOLEAN
        BY <1>1
      <4>2. snapshot'.final = id /\ snapshot'.levels = BookAt(id) /\ snapshot'.fresh = TRUE
        BY <2>3
      <4> QED BY <4>1, <4>2 DEF Snapshot, BookAt, WithoutEmpty, LevelsOf
    <3>2. BookIsTheExchanges'
      BY <2>1 DEF BookInv, BookIsTheExchanges, BookAt, WithoutEmpty, LevelsOf, NoBook
    <3> QED BY <1>1, <2>1, <3>1, <3>2 DEF BookInv
  <2> QED BY <1>9, <2>2, <2>3 DEF createSnapshot
<1>10. CASE UNCHANGED bookVars
  <2>1. exchId' = exchId /\ exchSent' = exchSent /\ bookQueue' = bookQueue /\ updates' = updates
        /\ snapshot' = snapshot /\ book' = book /\ pc' = pc
    BY <1>10 DEF bookVars
  <2> QED BY <1>1, <2>1, BookFrame
<1> QED BY <1>2, <1>3, <1>4, <1>5, <1>6, <1>7, <1>8, <1>9, <1>10 DEF BookNext, handle

\* BookIsTheExchanges: a book is published only as the exchange had it at its update id,
\* whatever was missed, cleared or asked for meanwhile; and it is one message old at the
\* most, but for the first made from a snapshot.  (BooksCache: cacheUpdateData, createSnapshot,
\* mergeUpdateDataToSnapshot.)
THEOREM BookIsRight == Spec => []BookIsTheExchanges
<1>1. Init => BookInv
  BY BookFirst DEF Init, InitOf
<1>2. BookInv /\ [Next]_vars => BookInv'
  BY BookKept DEF Next, vars, SubStep, BookStep, FlowStep, SymbolStep, HisStep
<1>3. BookInv => BookIsTheExchanges
  BY DEF BookInv
<1> QED BY <1>1, <1>2, <1>3, PTL DEF Spec

-----------------------------------------------------------------------------
(***************************************************************************)
(* The subscriptions.                                                      *)
(***************************************************************************)
\* A request to subscribe that no request to unsubscribe follows.
SubIsLast(t) ==
  \/ maint.pc = "updated" /\ t \in maint.needSub
  \/ /\ ~(maint.pc = "updated" /\ t \in maint.needUnSub)
     /\ \E n \in DOMAIN svcQueue :
          t \in svcQueue[n].needSub /\ \A m \in DOMAIN svcQueue : m >= n => t \notin svcQueue[m].needUnSub

\* The tasks, and the round: what is to be subscribed is not to be unsubscribed.
Task == {q \in [needSub : SUBSET Topic, needUnSub : SUBSET Topic, active : SUBSET ConfTopic] :
           q.needSub \cap q.needUnSub = {}}
Round == {m \in [pc : {"idle", "diffed", "updated"}, must : SUBSET Topic,
                 needSub : SUBSET Topic, needUnSub : SUBSET Topic] :
            m.needSub \subseteq m.must /\ m.needUnSub \cap m.must = {}}
TasksTyped ==
  conf \in MustSubOfConf /\ already \subseteq Topic /\ svcQueue \in Seq(Task) /\ sending \in Task /\ maint \in Round

\* A topic taken to be subscribed that a request to unsubscribe is about is subscribed
\* again after it.
UnSubIsOvertaken ==
  \A t \in already : t \in sending.needUnSub \/ UnSubQueued(t) => t \in blind \/ SubIsLast(t)

SubInv == TasksTyped /\ UnSubIsOvertaken /\ AssumedIsRequested

LEMMA NothingToSend == NoTask \in Task /\ Idle \in Round /\ << >> \in Seq(Task)
BY DEF NoTask, Task, Idle, Round

LEMMA SubFirst == conf \in MustSubOfConf /\ SubInit => SubInv
<1> SUFFICES ASSUME conf \in MustSubOfConf, SubInit PROVE SubInv
  OBVIOUS
<1>1. already = {} /\ svcQueue = << >> /\ sending = NoTask /\ maint = Idle
  BY DEF SubInit
<1> QED BY <1>1, NothingToSend DEF SubInv, TasksTyped, UnSubIsOvertaken, AssumedIsRequested

\* What leaves the requests as they are, and takes no more to be subscribed.
LEMMA SubFrame ==
  ASSUME SubInv, conf' \in MustSubOfConf, svcQueue' = svcQueue, sending' = sending, maint' \in Round,
         maint' = maint \/ (maint.pc # "updated" /\ maint'.pc # "updated"),
         already' \subseteq already, already' \cap blind \subseteq blind',
         exchSubs \subseteq exchSubs' \/ conn' # "Open",
         conn' = "Open" => conn = "Open" \/ already' = {}
  PROVE  SubInv'
<1>1. \A t : (Queued(t) <=> Queued(t)') /\ (OnItsWay(t) <=> OnItsWay(t)') /\ (UnSubQueued(t) <=> UnSubQueued(t)')
             /\ (SubIsLast(t) <=> SubIsLast(t)')
  BY DEF Queued, OnItsWay, UnSubQueued, SubIsLast
<1>2. TasksTyped'
  BY DEF SubInv, TasksTyped
<1>3. UnSubIsOvertaken'
  BY <1>1 DEF SubInv, UnSubIsOvertaken
<1>4. AssumedIsRequested'
  BY <1>1 DEF SubInv, AssumedIsRequested
<1> QED BY <1>2, <1>3, <1>4 DEF SubInv

\* What a round takes to be wanted are topics.
LEMMA MustSubIsOfTopics ==
  ASSUME NEW c \in MustSubOfConf
  PROVE  MustSubOfAll(c) \subseteq Topic
<1>1. c.must \subseteq ConfTopic
  BY MustSubAssumption
<1> QED BY <1>1 DEF MustSubOfAll, mergeSameTypeTopicToAvoidDupSub, removeTopicInBlackList, Topic

LEMMA updateTopicGroupAlreadySubKeeps ==
  ASSUME SubInv, updateTopicGroupAlreadySub
  PROVE  SubInv'
<1>1. /\ maint \in Round /\ maint.pc = "diffed"
      /\ maint' = [maint EXCEPT !.pc = "updated"] /\ already' = maint.must
      /\ blind' = (((blind \cap already) \cup (maint.must \ already)) \cap maint.must) \ maint.needSub
      /\ svcQueue' = svcQueue /\ sending' = sending /\ exchSubs' = exchSubs /\ conn' = conn /\ conf' = conf
  BY DEF updateTopicGroupAlreadySub, SubInv, TasksTyped
<1>2. /\ maint'.pc = "updated" /\ maint'.needSub = maint.needSub /\ maint'.needUnSub = maint.needUnSub
      /\ maint' \in Round /\ maint.needUnSub \cap maint.must = {} /\ maint.needSub \subseteq maint.must
  BY <1>1 DEF Round
<1>3. TasksTyped'
  <2>1. maint.must \subseteq Topic
    BY <1>1 DEF Round
  <2> QED BY <1>1, <1>2, <2>1 DEF SubInv, TasksTyped
<1>4. ASSUME NEW t \in already', t \notin blind', t \notin maint.needSub PROVE t \in already /\ t \notin blind
  BY <1>1, <1>4
<1>5. UnSubIsOvertaken'
  <2> SUFFICES ASSUME NEW t \in already', (t \in sending.needUnSub \/ UnSubQueued(t))', t \notin blind'
               PROVE  SubIsLast(t)'
    BY DEF UnSubIsOvertaken
  <2>1. CASE t \in maint.needSub
    BY <1>2, <2>1 DEF SubIsLast
  <2>2. CASE t \notin maint.needSub
    <3>1. t \in already /\ t \notin blind /\ t \notin maint.needUnSub
      BY <1>1, <1>2, <1>4, <2>2
    <3>2. t \in sending.needUnSub \/ UnSubQueued(t)
      BY <1>1, <1>2, <3>1 DEF UnSubQueued
    <3>3. SubIsLast(t)
      BY <3>1, <3>2 DEF SubInv, UnSubIsOvertaken
    <3> QED BY <1>1, <1>2, <3>1, <3>3 DEF SubIsLast
  <2> QED BY <2>1, <2>2
<1>6. AssumedIsRequested'
  <2> SUFFICES ASSUME NEW t \in already' \ exchSubs', conn' = "Open", t \notin blind'
               PROVE  OnItsWay(t)'
    BY DEF AssumedIsRequested
  <2>1. CASE t \in maint.needSub
    BY <1>2, <2>1 DEF OnItsWay, Queued
  <2>2. CASE t \notin maint.needSub
    <3>1. t \in already \ exchSubs /\ t \notin blind /\ conn = "Open"
      BY <1>1, <1>4, <2>2
    <3>2. OnItsWay(t)
      BY <3>1 DEF SubInv, AssumedIsRequested
    <3> QED BY <1>1, <1>2, <3>2 DEF OnItsWay, Queued
  <2> QED BY <2>1, <2>2
<1> QED BY <1>3, <1>5, <1>6 DEF SubInv

LEMMA DispatchTaskKeeps ==
  ASSUME SubInv, DispatchTask
  PROVE  SubInv'
<1> DEFINE q == [needSub |-> maint.needSub, needUnSub |-> maint.needUnSub, active |-> {}]
<1>1. /\ maint \in Round /\ maint.pc = "updated" /\ maint' = Idle /\ svcQueue \in Seq(Task)
      /\ svcQueue' = Append(svcQueue, q) /\ already' = already /\ blind' = blind
      /\ sending' = sending /\ exchSubs' = exchSubs /\ conn' = conn /\ conf' = conf
  BY DEF DispatchTask, SubInv, TasksTyped
<1>2. q \in Task /\ q.needSub = maint.needSub /\ q.needUnSub = maint.needUnSub /\ maint'.pc = "idle"
  BY <1>1 DEF Task, Round, Idle
<1> HIDE DEF q
<1> DEFINE k == Len(svcQueue) + 1
<1>3. /\ svcQueue' \in Seq(Task) /\ k \in Nat /\ DOMAIN svcQueue = 1 .. Len(svcQueue)
      /\ DOMAIN svcQueue' = DOMAIN svcQueue \cup {k} /\ svcQueue'[k] = q
      /\ \A n \in DOMAIN svcQueue : svcQueue'[n] = svcQueue[n] /\ n < k /\ n \in Nat
  BY <1>1, <1>2
<1> HIDE DEF k
<1>4. TasksTyped'
  BY <1>1, <1>3, NothingToSend DEF SubInv, TasksTyped
<1>5. \A t : /\ OnItsWay(t) => OnItsWay(t)'
             /\ UnSubQueued(t)' => UnSubQueued(t)
  BY <1>1, <1>2, <1>3 DEF OnItsWay, Queued, UnSubQueued
<1>6. ASSUME NEW t, SubIsLast(t) PROVE SubIsLast(t)'
  <2>1. CASE t \in maint.needSub
    <3>1. t \in svcQueue'[k].needSub /\ t \notin svcQueue'[k].needUnSub
      BY <1>2, <1>3, <2>1 DEF Task
    <3>2. \A m \in DOMAIN svcQueue' : m >= k => t \notin svcQueue'[m].needUnSub
      BY <1>3, <3>1
    <3> QED BY <1>2, <1>3, <3>1, <3>2 DEF SubIsLast
  <2>2. CASE t \notin maint.needSub
    <3>1. t \notin maint.needUnSub
      BY <1>1, <1>6, <2>2 DEF SubIsLast
    <3>2. PICK n \in DOMAIN svcQueue :
             t \in svcQueue[n].needSub /\ \A m \in DOMAIN svcQueue : m >= n => t \notin svcQueue[m].needUnSub
      BY <1>6, <2>2 DEF SubIsLast
    <3>3. n \in DOMAIN svcQueue' /\ t \in svcQueue'[n].needSub
          /\ \A m \in DOMAIN svcQueue' : m >= n => t \notin svcQueue'[m].needUnSub
      BY <1>2, <1>3, <3>1, <3>2
    <3> QED BY <1>2, <3>3 DEF SubIsLast
  <2> QED BY <2>1, <2>2
<1>7. UnSubIsOvertaken'
  BY <1>1, <1>5, <1>6 DEF SubInv, UnSubIsOvertaken
<1>8. AssumedIsRequested'
  BY <1>1, <1>5 DEF SubInv, AssumedIsRequested
<1> QED BY <1>4, <1>7, <1>8 DEF SubInv

LEMMA HandleTaskKeeps ==
  ASSUME SubInv, HandleTask
  PROVE  SubInv'
<1> DEFINE q == Head(svcQueue)
<1>1. /\ svcQueue \in Seq(Task) /\ svcQueue # << >> /\ svcQueue' = Tail(svcQueue) /\ sending = NoTask
      /\ sending' = [q EXCEPT !.active = {}]
      /\ already' = already /\ blind' = blind
      /\ maint' = maint /\ exchSubs' = exchSubs /\ conn' = conn /\ conf' = conf
  BY DEF HandleTask, SubInv, TasksTyped
<1>2. /\ svcQueue' \in Seq(Task) /\ q \in Task /\ q = svcQueue[1] /\ 1 \in DOMAIN svcQueue
      /\ \A n \in DOMAIN svcQueue' : n + 1 \in DOMAIN svcQueue /\ svcQueue'[n] = svcQueue[n + 1] /\ n \in Nat
      /\ \A n \in DOMAIN svcQueue : n \in Nat /\ (n # 1 => n - 1 \in DOMAIN svcQueue' /\ svcQueue'[n - 1] = svcQueue[n])
  BY <1>1
<1> HIDE DEF q
<1>3. sending' \in Task /\ sending'.needSub = q.needSub /\ sending'.needUnSub = q.needUnSub
  BY <1>1, <1>2 DEF Task
<1>4. sending.needSub = {} /\ sending.needUnSub = {}
  BY <1>1 DEF NoTask
<1>5. TasksTyped'
  BY <1>1, <1>2, <1>3 DEF SubInv, TasksTyped
<1>6. ASSUME NEW t, OnItsWay(t) PROVE OnItsWay(t)'
  <2>1. Queued(t)
    BY <1>4, <1>6 DEF OnItsWay
  <2>2. CASE \E n \in DOMAIN svcQueue : t \in svcQueue[n].needSub
    <3>1. PICK n \in DOMAIN svcQueue : t \in svcQueue[n].needSub
      BY <2>2
    <3>2. CASE n = 1
      BY <1>2, <1>3, <3>1, <3>2 DEF OnItsWay
    <3>3. CASE n # 1
      BY <1>2, <3>1, <3>3 DEF OnItsWay, Queued
    <3> QED BY <3>2, <3>3
  <2> QED BY <1>1, <2>1, <2>2 DEF OnItsWay, Queued
<1>7. ASSUME NEW t, (t \in sending.needUnSub \/ UnSubQueued(t))' PROVE UnSubQueued(t)
  BY <1>1, <1>2, <1>3, <1>7 DEF UnSubQueued
<1>8. ASSUME NEW t, (t \in sending.needUnSub \/ UnSubQueued(t))', SubIsLast(t) PROVE SubIsLast(t)'
  <2>1. CASE maint.pc = "updated" /\ t \in maint.needSub
    BY <1>1, <2>1 DEF SubIsLast
  <2>2. CASE /\ ~(maint.pc = "updated" /\ t \in maint.needUnSub)
             /\ \E n \in DOMAIN svcQueue :
                  t \in svcQueue[n].needSub /\ \A m \in DOMAIN svcQueue : m >= n => t \notin svcQueue[m].needUnSub
    <3>1. PICK n \in DOMAIN svcQueue :
             t \in svcQueue[n].needSub /\ \A m \in DOMAIN svcQueue : m >= n => t \notin svcQueue[m].needUnSub
      BY <2>2
    <3>2. n # 1
      <4>1. SUFFICES ASSUME n = 1 PROVE FALSE
        OBVIOUS
      <4>2. \A m \in DOMAIN svcQueue : t \notin svcQueue[m].needUnSub
        BY <1>1, <3>1, <4>1
      <4> QED BY <1>1, <1>2, <1>3, <1>8, <2>2, <4>2 DEF UnSubQueued
    <3> DEFINE k == n - 1
    <3>3. k \in DOMAIN svcQueue' /\ t \in svcQueue'[k].needSub /\ k + 1 = n /\ k \in Nat
      BY <1>2, <3>1, <3>2
    <3>4. \A m \in DOMAIN svcQueue' : m >= k => t \notin svcQueue'[m].needUnSub
      <4> HIDE DEF k
      <4> QED BY <1>2, <3>1, <3>3
    <3> HIDE DEF k
    <3> QED BY <1>1, <2>2, <3>3, <3>4 DEF SubIsLast
  <2> QED BY <1>8, <2>1, <2>2 DEF SubIsLast
<1>9. UnSubIsOvertaken'
  BY <1>1, <1>7, <1>8 DEF SubInv, UnSubIsOvertaken
<1>10. AssumedIsRequested'
  BY <1>1, <1>6 DEF SubInv, AssumedIsRequested
<1> QED BY <1>5, <1>9, <1>10 DEF SubInv

LEMMA doSubOrUnSubKeeps ==
  ASSUME SubInv, NEW t \in Topic, doSubOrUnSub(t)
  PROVE  SubInv'
<1> DEFINE toSub == sending.needSub # {}
<1>1. /\ sending \in Task /\ svcQueue' = svcQueue /\ maint' = maint /\ conf' = conf /\ conn' = conn
      /\ sending' = IF toSub THEN [sending EXCEPT !.needSub = @ \ {t}] ELSE [sending EXCEPT !.needUnSub = @ \ {t}]
      /\ toSub => t \in sending.needSub
      /\ ~toSub => t \in sending.needUnSub
  BY DEF doSubOrUnSub, Sent, Asked, SubInv, TasksTyped
<1>2. /\ sending' \in Task
      /\ sending'.needSub = sending.needSub \ {t}
      /\ sending'.needUnSub = IF toSub THEN sending.needUnSub ELSE sending.needUnSub \ {t}
      /\ toSub => t \notin sending.needUnSub
  BY <1>1 DEF Task
<1> HIDE DEF toSub
<1>3. TasksTyped'
  <2>1. already' \subseteq already \cup {t}
    BY DEF doSubOrUnSub, doSubOrUnSubFails, doSubOrUnSubSends, updateTopicGroupForSubOrUnSubAgain,
           removeTopicForSubAgain, addTopicForUnSubAgain
  <2> QED BY <1>1, <1>2, <2>1 DEF SubInv, TasksTyped
<1>4. \A r : (Queued(r) <=> Queued(r)') /\ (UnSubQueued(r) <=> UnSubQueued(r)') /\ (SubIsLast(r) <=> SubIsLast(r)')
             /\ (r # t /\ OnItsWay(r) => OnItsWay(r)') /\ (Queued(r) => OnItsWay(r)')
             /\ (SubIsLast(r) => Queued(r))
  BY <1>1, <1>2 DEF Queued, UnSubQueued, SubIsLast, OnItsWay
<1>5. ASSUME NEW r \in already, r \in sending'.needUnSub \/ UnSubQueued(r) PROVE r \in blind \/ SubIsLast(r)
  BY <1>2, <1>5 DEF SubInv, UnSubIsOvertaken
<1>6. ASSUME NEW r \in already, conn = "Open", r \notin exchSubs PROVE r \in blind \/ OnItsWay(r)
  BY <1>6 DEF SubInv, AssumedIsRequested
<1>7. CASE toSub /\ removeTopicForSubAgain(t) /\ exchSubs' = exchSubs
  <2>1. already' = already \ {t} /\ blind' = blind \ {t}
    BY <1>7 DEF removeTopicForSubAgain
  <2>2. UnSubIsOvertaken'
    BY <1>4, <1>5, <2>1 DEF UnSubIsOvertaken
  <2>3. AssumedIsRequested'
    BY <1>1, <1>4, <1>6, <1>7, <2>1 DEF AssumedIsRequested
  <2> QED BY <1>3, <2>2, <2>3 DEF SubInv
<1>8. CASE ~toSub /\ addTopicForUnSubAgain(t) /\ exchSubs' = exchSubs
  <2>1. already' = already \cup {t} /\ blind' = IF t \in already THEN blind ELSE blind \cup {t}
    BY <1>8 DEF addTopicForUnSubAgain
  <2>2. UnSubIsOvertaken'
    BY <1>4, <1>5, <2>1 DEF UnSubIsOvertaken
  <2>3. ~OnItsWay(t) \/ Queued(t)
    BY <1>8 DEF OnItsWay, toSub
  <2>4. AssumedIsRequested'
    BY <1>1, <1>4, <1>6, <1>8, <2>1, <2>3 DEF AssumedIsRequested
  <2> QED BY <1>3, <2>2, <2>4 DEF SubInv
<1>9. CASE doSubOrUnSubSends(t)
  <2>1. already' = already
    BY <1>9 DEF doSubOrUnSubSends
  <2>2. CASE toSub
    <3>1. \/ exchSubs' = exchSubs \cup {t} /\ blind' = IF ~UnSubQueued(t) THEN blind \ {t} ELSE blind
          \/ exchSubs' = exchSubs /\ blind' = blind \cup {t}
      BY <1>9, <2>2 DEF doSubOrUnSubSends, toSub
    <3>2. UnSubIsOvertaken'
      BY <1>2, <1>4, <1>5, <2>1, <2>2, <3>1 DEF UnSubIsOvertaken
    <3>3. AssumedIsRequested'
      BY <1>1, <1>4, <1>6, <2>1, <3>1 DEF AssumedIsRequested
    <3> QED BY <1>3, <3>2, <3>3 DEF SubInv
  <2>3. CASE ~toSub
    <3>1. blind' = blind /\ exchSubs' \in {exchSubs, exchSubs \ {t}}
      BY <1>9, <2>3 DEF doSubOrUnSubSends, toSub
    <3>2. UnSubIsOvertaken'
      BY <1>4, <1>5, <2>1, <3>1 DEF UnSubIsOvertaken
    <3>3. t \in already => t \in blind \/ SubIsLast(t)
      BY <1>1, <2>3 DEF SubInv, UnSubIsOvertaken
    <3>4. AssumedIsRequested'
      BY <1>1, <1>4, <1>6, <2>1, <3>1, <3>3 DEF AssumedIsRequested
    <3> QED BY <1>3, <3>2, <3>4 DEF SubInv
  <2> QED BY <2>2, <2>3
<1> QED BY <1>7, <1>8, <1>9 DEF doSubOrUnSub, doSubOrUnSubFails, updateTopicGroupForSubOrUnSubAgain, toSub

LEMMA SubKept == SubInv /\ [SubNext]_subVars => SubInv'
<1> SUFFICES ASSUME SubInv, [SubNext]_subVars PROVE SubInv'
  OBVIOUS
<1>1. conf \in MustSubOfConf /\ maint \in Round /\ svcQueue \in Seq(Task) /\ sending \in Task
  BY DEF SubInv, TasksTyped
<1>2. CASE EditConf
  BY <1>1, <1>2, SubFrame DEF EditConf
<1>3. CASE onClose
  BY <1>1, <1>3, SubFrame DEF onClose
<1>4. CASE onOpen
  BY <1>1, <1>4, SubFrame DEF onOpen
<1>5. CASE OnWSCliOpen
  BY <1>1, <1>5, SubFrame DEF OnWSCliOpen
<1>6. ASSUME NEW t \in Topic, TimePasses(t) PROVE SubInv'
  BY <1>1, <1>6, SubFrame DEF TimePasses
<1>7. CASE StartRound
  <2> DEFINE must == MustSubOfAll(conf)
             left == removeTopicThatHaveNotRecvMDForALongTimeForReSub(already)
             m == [pc |-> "diffed", must |-> must, needSub |-> must \ left, needUnSub |-> left \ must]
  <2>1. /\ maint = Idle /\ maint' \in {m, Idle} /\ already' = left /\ left \subseteq already
        /\ conf' = conf /\ svcQueue' = svcQueue /\ sending' = sending /\ blind' = blind
        /\ exchSubs' = exchSubs /\ conn' = conn
    BY <1>7 DEF StartRound, removeTopicThatHaveNotRecvMDForALongTimeForReSub
  <2>2. must \subseteq Topic
    BY <1>1, MustSubIsOfTopics
  <2>3. already \subseteq Topic
    BY DEF SubInv, TasksTyped
  <2>4. maint' \in Round /\ maint.pc # "updated" /\ maint'.pc # "updated"
    BY <1>1, <2>1, <2>2, <2>3 DEF Round, Idle
  <2> HIDE DEF left
  <2> QED BY <1>1, <2>1, <2>4, SubFrame
<1>8. CASE updateTopicGroupAlreadySub
  BY <1>8, updateTopicGroupAlreadySubKeeps
<1>9. CASE DispatchTask
  BY <1>9, DispatchTaskKeeps
<1>10. CASE HandleTask
  BY <1>10, HandleTaskKeeps
<1>11. ASSUME NEW t \in Topic, doSubOrUnSub(t) PROVE SubInv'
  BY <1>11, doSubOrUnSubKeeps
<1>12. ASSUME NEW batch \in SUBSET ConfTopic, updateActiveTimeOfTopic(batch) PROVE SubInv'
  <2> DEFINE q == [needSub |-> {}, needUnSub |-> {}, active |-> batch]
  <2>1. /\ maint = Idle /\ maint' = maint /\ svcQueue = << >> /\ svcQueue' = <<q>> /\ conf' = conf /\ conn' = conn
        /\ already' = already /\ blind' = blind /\ sending' = sending /\ exchSubs' = exchSubs
    BY <1>12 DEF updateActiveTimeOfTopic
  <2>2. q \in Task /\ q.needSub = {} /\ q.needUnSub = {}
    BY DEF Task
  <2> HIDE DEF q
  <2>3. svcQueue' \in Seq(Task) /\ DOMAIN svcQueue' = {1} /\ svcQueue'[1] = q
    BY <2>1, <2>2
  <2>4. TasksTyped'
    BY <1>1, <2>1, <2>3 DEF SubInv, TasksTyped
  <2>5. \A t : ~Queued(t) /\ ~Queued(t)' /\ ~UnSubQueued(t)' /\ ~UnSubQueued(t) /\ ~SubIsLast(t)
    BY <2>1, <2>2, <2>3 DEF Queued, UnSubQueued, SubIsLast, Idle
  <2>6. UnSubIsOvertaken'
    BY <2>1, <2>5 DEF SubInv, UnSubIsOvertaken
  <2>7. AssumedIsRequested'
    BY <2>1, <2>5 DEF SubInv, AssumedIsRequested, OnItsWay
  <2> QED BY <2>4, <2>6, <2>7 DEF SubInv
<1>13. CASE UNCHANGED subVars
  BY <1>1, <1>13, SubFrame DEF subVars
<1> QED BY <1>2, <1>3, <1>4, <1>5, <1>6, <1>7, <1>8, <1>9, <1>10, <1>11, <1>12, <1>13 DEF SubNext

-----------------------------------------------------------------------------
(***************************************************************************)
(* The flow control.                                                       *)
(***************************************************************************)
\* The times kept are the last ones of those of the tasks executed.
AreLastOf(points, all) ==
  /\ Len(points) <= limitNum /\ Len(points) <= Len(all)
  /\ Len(points) < limitNum => Len(points) = Len(all)
  /\ \A j \in 1 .. Len(points) : points[j] = all[Len(all) - Len(points) + j]

Ascends(all) == \A j, k \in DOMAIN all : j <= k => all[j] <= all[k]

FlowInv ==
  /\ now \in Nat /\ timePoints \in Seq(Nat) /\ executed \in Seq(Nat)
  /\ Ascends(executed) /\ \A n \in DOMAIN executed : executed[n] <= now
  /\ AreLastOf(timePoints, executed)
  /\ WithinLimit

LEMMA FlowFirst == FlowInit => FlowInv
<1> SUFFICES ASSUME FlowInit PROVE FlowInv
  OBVIOUS
<1>1. now = 0 /\ timePoints = << >> /\ executed = << >> /\ << >> \in Seq(Nat) /\ DOMAIN executed = {}
      /\ Len(timePoints) = 0 /\ Len(executed) = 0
  BY DEF FlowInit
<1>2. limitNum \in Nat \ {0}
  BY FlowCtrlAssumption
<1> QED BY <1>1, <1>2 DEF FlowInv, Ascends, AreLastOf, WithinLimit

LEMMA TimesCopied ==
  ASSUME NEW s \in Seq(Nat), NEW w \in Nat, NEW t \in Nat
  PROVE  LET a == s \o [n \in 1 .. w |-> t]
         IN  /\ a \in Seq(Nat) /\ Len(a) = Len(s) + w
             /\ \A j \in 1 .. Len(s) : a[j] = s[j]
             /\ \A j \in Len(s) + 1 .. Len(s) + w : a[j] = t
<1> DEFINE c == [n \in 1 .. w |-> t]
           a == s \o c
<1>1. c \in Seq(Nat) /\ Len(c) = w /\ \A n \in 1 .. w : c[n] = t
  OBVIOUS
<1> HIDE DEF c
<1>2. a \in Seq(Nat) /\ Len(a) = Len(s) + w /\ \A j \in 1 .. Len(s) : a[j] = s[j]
  BY <1>1
<1>3. \A j \in Len(s) + 1 .. Len(s) + w : a[j] = t
  <2> SUFFICES ASSUME NEW j \in Len(s) + 1 .. Len(s) + w PROVE a[j] = t
    OBVIOUS
  <2>1. a[j] = c[j - Len(s)] /\ j - Len(s) \in 1 .. w
    BY <1>1
  <2> QED BY <1>1, <2>1
<1> QED BY <1>2, <1>3 DEF c

\* The end of a sequence of numbers.
LEMMA EndOfSeq ==
  ASSUME NEW p \in Seq(Nat), NEW m \in 1 .. Len(p)
  PROVE  /\ SubSeq(p, m, Len(p)) \in Seq(Nat)
         /\ Len(SubSeq(p, m, Len(p))) = Len(p) - m + 1
         /\ \A j \in 1 .. Len(p) - m + 1 : SubSeq(p, m, Len(p))[j] = p[m + j - 1]
<1>1. Len(p) \in Nat /\ m \in Nat /\ m <= Len(p)
  OBVIOUS
<1>2. \A j \in m .. Len(p) : p[j] \in Nat
  <2>1. ASSUME NEW j \in m .. Len(p) PROVE j \in 1 .. Len(p)
    BY <1>1, <2>1
  <2>2. \A j \in 1 .. Len(p) : p[j] \in Nat
    OBVIOUS
  <2> QED BY <2>1, <2>2, Zenon
<1>3. m \in Int /\ Len(p) \in Int
  BY <1>1
<1>4. /\ SubSeq(p, m, Len(p)) \in Seq(Nat)
      /\ Len(SubSeq(p, m, Len(p))) = IF m <= Len(p) THEN Len(p) - m + 1 ELSE 0
      /\ \A j \in 1 .. Len(p) - m + 1 : SubSeq(p, m, Len(p))[j] = p[m + j - 1]
  BY <1>2, <1>3, SubSeqProperties
<1> QED BY <1>1, <1>4

\* What is pushed and dropped leaves the last times.
LEMMA PushKeepsLast ==
  ASSUME NEW points \in Seq(Nat), NEW all \in Seq(Nat), NEW w \in Nat, NEW t \in Nat, AreLastOf(points, all)
  PROVE  /\ Push(points, w, t) \in Seq(Nat)
         /\ AreLastOf(Push(points, w, t), all \o [n \in 1 .. w |-> t])
<1> DEFINE p == points \o [n \in 1 .. w |-> t]
           a == all \o [n \in 1 .. w |-> t]
           k == Len(points)
           L == Len(all)
<1>1. /\ p \in Seq(Nat) /\ Len(p) = k + w /\ a \in Seq(Nat) /\ Len(a) = L + w
      /\ \A j \in 1 .. k : p[j] = points[j]
      /\ \A j \in k + 1 .. k + w : p[j] = t
      /\ \A j \in 1 .. L : a[j] = all[j]
      /\ \A j \in L + 1 .. L + w : a[j] = t
  <2>1. /\ p \in Seq(Nat) /\ Len(p) = k + w
        /\ \A j \in 1 .. k : p[j] = points[j]
        /\ \A j \in k + 1 .. k + w : p[j] = t
    BY TimesCopied, Zenon
  <2>2. /\ a \in Seq(Nat) /\ Len(a) = L + w
        /\ \A j \in 1 .. L : a[j] = all[j]
        /\ \A j \in L + 1 .. L + w : a[j] = t
    BY TimesCopied, Zenon
  <2> QED BY <2>1, <2>2
<1>2. /\ k \in Nat /\ L \in Nat /\ limitNum \in Nat \ {0} /\ k <= limitNum /\ k <= L /\ (k < limitNum => k = L)
      /\ \A j \in 1 .. k : points[j] = all[L - k + j]
  BY FlowCtrlAssumption DEF AreLastOf
<1> HIDE DEF p, a, k, L
<1>3. \A j \in 1 .. k + w : p[j] = a[L - k + j]
  <2> SUFFICES ASSUME NEW j \in 1 .. k + w PROVE p[j] = a[L - k + j]
    OBVIOUS
  <2>1. CASE j <= k
    <3>1. j \in 1 .. k /\ L - k + j \in 1 .. L
      BY <1>2, <2>1
    <3> QED BY <1>1, <1>2, <3>1
  <2>2. CASE j > k
    <3>1. j \in k + 1 .. k + w /\ L - k + j \in L + 1 .. L + w
      BY <1>2, <2>2
    <3> QED BY <1>1, <3>1
  <2> QED BY <1>2, <2>1, <2>2
<1>4. Push(points, w, t) = IF Len(p) > limitNum THEN SubSeq(p, Len(p) - limitNum + 1, Len(p)) ELSE p
  BY DEF Push, p
<1>5. CASE Len(p) > limitNum
  <2> DEFINE m == Len(p) - limitNum + 1
             q == SubSeq(p, m, Len(p))
  <2>1. m \in 1 .. Len(p) /\ Len(p) \in Nat /\ Len(p) - m + 1 = limitNum /\ m = k + w - limitNum + 1 /\ m \in Nat
    BY <1>1, <1>2, <1>5
  <2> HIDE DEF m
  <2>2. q \in Seq(Nat) /\ Len(q) = limitNum /\ \A j \in 1 .. limitNum : q[j] = p[m + j - 1]
    <3>1. p \in Seq(Nat) /\ m \in 1 .. Len(p)
      BY <1>1, <2>1
    <3> HIDE DEF p
    <3>2. /\ q \in Seq(Nat) /\ Len(q) = Len(p) - m + 1
          /\ \A j \in 1 .. Len(p) - m + 1 : q[j] = p[m + j - 1]
      BY <3>1, EndOfSeq
    <3>3. Len(p) - m + 1 = limitNum
      BY <2>1
    <3> QED BY <3>2, <3>3
  <2> HIDE DEF q
  <2>3. \A j \in 1 .. limitNum : q[j] = a[L + w - limitNum + j]
    <3> SUFFICES ASSUME NEW j \in 1 .. limitNum PROVE q[j] = a[L + w - limitNum + j]
      OBVIOUS
    <3>1. q[j] = p[m + j - 1] /\ m + j - 1 \in 1 .. k + w
      BY <1>1, <1>2, <2>1, <2>2
    <3>2. L - k + (m + j - 1) = L + w - limitNum + j
      <4>1. j \in Nat /\ m \in Nat /\ m = k + w - limitNum + 1
        BY <2>1
      <4> QED BY <1>2, <4>1
    <3> QED BY <1>3, <3>1, <3>2
  <2>4. Push(points, w, t) = q
    BY <1>4, <1>5 DEF m, q
  <2>5. AreLastOf(q, a)
    BY <1>1, <1>2, <1>5, <2>1, <2>2, <2>3 DEF AreLastOf
  <2> QED BY <2>2, <2>4, <2>5 DEF a
<1>6. CASE ~(Len(p) > limitNum)
  <2>1. AreLastOf(p, a)
    BY <1>1, <1>2, <1>3, <1>6 DEF AreLastOf
  <2>2. Push(points, w, t) = p
    BY <1>4, <1>6
  <2> QED BY <1>1, <2>1, <2>2 DEF a
<1> QED BY <1>5, <1>6

\* A weight is at most the heaviest.
LEMMA HeaviestIs ==
  ASSUME NEW task \in DOMAIN Weight
  PROVE  Heaviest \in Nat /\ Weight[task] <= Heaviest
<1> DEFINE S == {Weight[t] : t \in DOMAIN Weight}
           B == {limitNum - v : v \in S}
<1>1. \A v \in S : v \in Nat /\ limitNum - v \in Nat
  BY FlowCtrlAssumption
<1>2. B \subseteq Nat /\ B # {} /\ Weight[task] \in S
  BY <1>1
<1>3. PICK b \in B : \A m \in B : b <= m
  BY <1>2, LeastOf
<1>4. PICK x \in S : b = limitNum - x
  OBVIOUS
<1>5. \A t \in DOMAIN Weight : Weight[t] <= x
  <2> SUFFICES ASSUME NEW t \in DOMAIN Weight PROVE Weight[t] <= x
    OBVIOUS
  <2>1. limitNum - Weight[t] \in B /\ Weight[t] \in Nat /\ x \in Nat /\ limitNum \in Nat
    BY <1>1, FlowCtrlAssumption
  <2>2. b <= limitNum - Weight[t]
    BY <1>3, <2>1
  <2> QED BY <1>4, <2>1, <2>2
<1>6. Heaviest \in S /\ \A t \in DOMAIN Weight : Weight[t] <= Heaviest
  <2>1. \E v \in S : \A t \in DOMAIN Weight : Weight[t] <= v
    BY <1>5
  <2> QED BY <2>1 DEF Heaviest
<1> QED BY <1>1, <1>6

\* When the rate since the oldest time kept is below the limit, that time is long past.
LEMMA RateIsBelow ==
  ASSUME NEW n \in Nat, NEW w \in Nat, NEW td \in Int, n + w >= limitNum, ~RateReached(n, w, td)
  PROVE  td > timeDur
<1> DEFINE d == n + w - limitNum
<1>1. d \in Nat /\ n + w = limitNum + d /\ timeDur \in Nat \ {0} /\ limitNum \in Nat \ {0}
  BY FlowCtrlAssumption
<1> HIDE DEF d
<1>2. (limitNum + d) * timeDur < limitNum * td
  BY <1>1 DEF RateReached
<1>3. limitNum * timeDur <= (limitNum + d) * timeDur
  <2>1. (limitNum + d) * timeDur = limitNum * timeDur + d * timeDur
    BY <1>1
  <2>2. d * timeDur \in Nat /\ limitNum * timeDur \in Nat
    BY <1>1
  <2> QED BY <2>1, <2>2
<1>4. limitNum * timeDur < limitNum * td
  BY <1>1, <1>2, <1>3
<1>5. SUFFICES ASSUME td <= timeDur PROVE FALSE
  BY <1>1
<1>6. limitNum * td <= limitNum * timeDur
  <2> DEFINE e == timeDur - td
  <2>1. e \in Nat /\ timeDur = td + e
    BY <1>1, <1>5
  <2>2. limitNum * (td + e) = limitNum * td + limitNum * e
    BY <1>1, <2>1
  <2>3. limitNum * e \in Nat
    BY <1>1, <2>1
  <2> HIDE DEF e
  <2>4. limitNum * td \in Int
    BY <1>1
  <2> QED BY <2>1, <2>2, <2>3, <2>4
<1>7. limitNum * td \in Int /\ limitNum * timeDur \in Int
  BY <1>1
<1> QED BY <1>4, <1>6, <1>7

\* A task that is let through, and what it leaves within the limit.
LEMMA exceedFlowCtrlKeeps ==
  ASSUME FlowInv, NEW task \in DOMAIN Weight, exceedFlowCtrl(task)
  PROVE  FlowInv'
<1> DEFINE w == Weight[task]
           L == Len(executed)
           k == Len(timePoints)
           all == executed \o [n \in 1 .. w |-> now]
<1>1. /\ now \in Nat /\ timePoints \in Seq(Nat) /\ executed \in Seq(Nat) /\ Ascends(executed)
      /\ \A n \in DOMAIN executed : executed[n] <= now
      /\ AreLastOf(timePoints, executed) /\ WithinLimit
  BY DEF FlowInv
<1>2. /\ w \in Nat \ {0} /\ w < limitNum /\ limitNum \in Nat \ {0} /\ timeDur \in Nat \ {0}
      /\ ~Exceeds(timePoints, w, now) /\ now' = now /\ executed' = all /\ timePoints' = Push(timePoints, w, now)
  BY FlowCtrlAssumption DEF exceedFlowCtrl
<1>3. Heaviest \in Nat /\ w <= Heaviest
  BY HeaviestIs
<1> HIDE DEF w
<1>4. timePoints' \in Seq(Nat) /\ AreLastOf(timePoints', executed')
  BY <1>1, <1>2, PushKeepsLast
<1>5. /\ all \in Seq(Nat) /\ Len(all) = L + w
      /\ \A j \in 1 .. L : all[j] = executed[j]
      /\ \A j \in L + 1 .. L + w : all[j] = now
  BY <1>1, <1>2, TimesCopied, Zenon
<1> HIDE DEF all
<1>6. L \in Nat /\ DOMAIN executed = 1 .. L /\ DOMAIN all = 1 .. L + w
      /\ \A j \in DOMAIN all : j \in 1 .. L \/ j \in L + 1 .. L + w
  BY <1>1, <1>2, <1>5
<1>0. /\ k \in Nat /\ k <= limitNum /\ k <= L /\ (k < limitNum => k = L)
      /\ \A j \in 1 .. k : timePoints[j] = executed[L - k + j]
      /\ k >= 1 => Head(timePoints) = timePoints[1]
  BY <1>1 DEF AreLastOf
<1> HIDE DEF L, k
<1>7. \A n \in DOMAIN all : all[n] <= now /\ all[n] \in Nat
  BY <1>1, <1>5, <1>6
<1>8. Ascends(all)
  <2> SUFFICES ASSUME NEW i \in DOMAIN all, NEW j \in DOMAIN all, i <= j PROVE all[i] <= all[j]
    BY DEF Ascends
  <2>1. CASE j \in 1 .. L
    <3>1. i \in 1 .. L
      BY <1>6, <2>1
    <3> QED BY <1>1, <1>5, <1>6, <2>1, <3>1 DEF Ascends
  <2>2. CASE j \in L + 1 .. L + w
    BY <1>5, <1>7, <2>2
  <2> QED BY <1>6, <2>1, <2>2
<1> DEFINE Window(n) == {m \in 1 .. n : all[n] - all[m] <= timeDur}
<1>9. ASSUME NEW n \in 1 .. L PROVE Cardinality(Window(n)) <= limitNum + Heaviest - 1
  <2>1. Window(n) = {m \in 1 .. n : executed[n] - executed[m] <= timeDur}
    BY <1>5, <1>6
  <2> QED BY <1>1, <1>6, <2>1 DEF WithinLimit
<1>10. ASSUME NEW n \in L + 1 .. L + w PROVE Cardinality(Window(n)) <= limitNum + Heaviest - 1
  <2> DEFINE a == IF k + w < limitNum THEN 1 ELSE L - k + 2
  <2>2. n \in Nat /\ a \in Nat \ {0} /\ a <= n + 1 /\ n - a + 1 <= limitNum + Heaviest - 1
    <3>1. n \in Nat /\ n >= L + 1 /\ n <= L + w
      BY <1>2, <1>6
    <3>2. CASE k + w < limitNum
      BY <1>0, <1>2, <1>3, <1>6, <3>1, <3>2
    <3>3. CASE ~(k + w < limitNum)
      BY <1>0, <1>2, <1>3, <1>6, <3>1, <3>3
    <3> QED BY <3>2, <3>3
  <2>3. Window(n) \subseteq a .. n
    <3>1. CASE k + w < limitNum
      BY <2>2, <3>1
    <3>2. CASE ~(k + w < limitNum)
      <4>1. k >= 1
        BY <1>2, <1>0, <3>2
      <4>2. Head(timePoints) = executed[L - k + 1] /\ L - k + 1 \in 1 .. L /\ Head(timePoints) \in Nat
        <5>1. Head(timePoints) = timePoints[1] /\ 1 \in 1 .. k
          BY <1>0, <4>1
        <5>2. L - k + 1 \in 1 .. L
          BY <1>6, <1>0, <4>1
        <5> QED BY <1>1, <1>6, <1>0, <5>1, <5>2
      <4> DEFINE h == Head(timePoints)
                 x == L - k + 1
      <4>3. ~RateReached(k, w, now - h)
        BY <1>2, <3>2 DEF Exceeds, Few, k
      <4>6. h = executed[x] /\ x \in 1 .. L /\ h \in Nat /\ x = L - k + 1
        BY <4>2
      <4> HIDE DEF h, x
      <4>4. now - h > timeDur
        <5>1. now - h \in Int /\ k + w >= limitNum
          BY <1>0, <1>1, <1>2, <3>2, <4>6
        <5> QED BY <1>2, <1>0, <4>3, <5>1, RateIsBelow
      <4>5. ASSUME NEW m \in Window(n) PROVE m \in a .. n
        <5>1. m \in 1 .. n /\ all[n] = now /\ now - all[m] <= timeDur
          BY <1>5, <4>5
        <5>2. SUFFICES ASSUME m <= x PROVE FALSE
          BY <1>0, <1>2, <1>6, <3>2, <4>6, <5>1
        <5>3. m \in 1 .. L /\ all[m] = executed[m]
          BY <1>5, <1>6, <4>6, <5>1, <5>2
        <5>4. executed[m] <= h /\ executed[m] \in Nat
          BY <1>1, <1>6, <4>6, <5>2, <5>3 DEF Ascends
        <5>5. all[m] <= h /\ all[m] \in Nat /\ h \in Nat
          BY <4>6, <5>3, <5>4
        <5>6. now \in Nat /\ timeDur \in Nat
          BY <1>1, <1>2
        <5> HIDE DEF a, Window
        <5>7. now - all[m] >= now - h
          BY <5>5, <5>6
        <5> QED BY <4>4, <5>1, <5>5, <5>6, <5>7
      <4> HIDE DEF a, Window
      <4> QED BY <4>5
    <3> QED BY <3>1, <3>2
  <2> HIDE DEF a, Window
  <2>4. IsFiniteSet(a .. n) /\ Cardinality(a .. n) = IF a > n THEN 0 ELSE n - a + 1
    <3>1. a \in Int /\ n \in Int
      BY <2>2
    <3> QED BY <3>1, FS_Interval
  <2>5. Cardinality(Window(n)) <= Cardinality(a .. n) /\ IsFiniteSet(Window(n))
    BY <2>3, <2>4, FS_Subset
  <2>6. Cardinality(Window(n)) \in Nat
    BY <2>5, FS_CardinalityType
  <2> QED BY <1>2, <1>3, <2>2, <2>4, <2>5, <2>6
<1>11. WithinLimit'
  <2>1. \A n \in DOMAIN all : Cardinality(Window(n)) <= limitNum + Heaviest - 1
    BY <1>6, <1>9, <1>10
  <2>2. Heaviest' = Heaviest
    BY DEF Heaviest
  <2> QED BY <1>2, <2>1, <2>2 DEF WithinLimit
<1>12. AreLastOf(timePoints, executed)' /\ Ascends(executed)'
  BY <1>2, <1>4, <1>8 DEF AreLastOf, Ascends
<1> QED BY <1>1, <1>2, <1>4, <1>5, <1>7, <1>11, <1>12 DEF FlowInv

LEMMA FlowKept == FlowInv /\ [FlowNext]_flowVars => FlowInv'
<1> SUFFICES ASSUME FlowInv, [FlowNext]_flowVars PROVE FlowInv'
  OBVIOUS
<1>1. ASSUME NEW task \in DOMAIN Weight, exceedFlowCtrl(task) PROVE FlowInv'
  BY <1>1, exceedFlowCtrlKeeps
<1>2. CASE reset
  <2>1. timePoints' = << >> /\ executed' = << >> /\ << >> \in Seq(Nat) /\ DOMAIN executed' = {} /\ now' = now
        /\ Len(timePoints') = 0 /\ Len(executed') = 0
    BY <1>2 DEF reset
  <2>2. limitNum \in Nat \ {0}
    BY FlowCtrlAssumption
  <2> QED BY <2>1, <2>2 DEF FlowInv, Ascends, AreLastOf, WithinLimit
<1>3. CASE Tick
  <2>1. now' = now + 1 /\ timePoints' = timePoints /\ executed' = executed
    BY <1>3 DEF Tick
  <2>2. now' \in Nat /\ \A n \in DOMAIN executed : executed[n] \in Nat /\ executed[n] <= now'
    BY <2>1 DEF FlowInv
  <2> QED BY <2>1, <2>2 DEF FlowInv, Ascends, AreLastOf, WithinLimit, Heaviest
<1>4. CASE UNCHANGED flowVars
  BY <1>4 DEF flowVars, FlowInv, Ascends, AreLastOf, WithinLimit, Heaviest
<1> QED BY <1>1, <1>2, <1>3, <1>4 DEF FlowNext

-----------------------------------------------------------------------------
(***************************************************************************)
(* The symbols.                                                            *)
(***************************************************************************)
\* Rows are never taken out of the table, and the monitor has first read and kept those of
\* its last poll.
SymbolInv ==
  /\ DOMAIN tblRecSet \subseteq DOMAIN baseSymbolInfo
  /\ DOMAIN firstRead = DOMAIN tblRecSet
  /\ \A r \in midxSymbolInfo : r.sym \in DOMAIN tblRecSet
  /\ LookedUpIsFirstRead

LEMMA SymbolFirst == SymbolInit => SymbolInv
BY DEF SymbolInit, SymbolInv, LookedUpIsFirstRead, NoRecs

\* What a poll adds to the cache.
LEMMA doMonitKeeps ==
  ASSUME SymbolInv, doMonit
  PROVE  SymbolInv'
<1> DEFINE new == Added(baseSymbolInfo, tblRecSet)
           recs == AsRecs(baseSymbolInfo, new)
           c == midxSymbolInfo'
           rec(s) == [sym |-> s, code |-> baseSymbolInfo[s].code, state |-> baseSymbolInfo[s].state,
                      isDel |-> baseSymbolInfo[s].isDel]
<1>1. /\ DOMAIN tblRecSet \subseteq DOMAIN baseSymbolInfo /\ DOMAIN firstRead = DOMAIN tblRecSet
      /\ \A r \in midxSymbolInfo : r.sym \in DOMAIN tblRecSet
      /\ LookedUpIsFirstRead
  BY DEF SymbolInv
<1>2. /\ tblRecSet' = baseSymbolInfo /\ baseSymbolInfo' = baseSymbolInfo
      /\ c \in InsertAll(midxSymbolInfo, recs)
      /\ firstRead' = [s \in DOMAIN baseSymbolInfo |-> IF s \in DOMAIN firstRead THEN firstRead[s] ELSE baseSymbolInfo[s]]
  BY DEF doMonit, handleTBLRecSetOfCompRet
<1>3. /\ midxSymbolInfo \subseteq c /\ c \subseteq midxSymbolInfo \cup recs
      /\ \A r, q \in c : (r.sym = q.sym \/ r.code = q.code) => r = q
      /\ \A r \in recs \ c : \E q \in c : r.sym = q.sym \/ r.code = q.code
  BY <1>2 DEF InsertAll
<1>4. new = DOMAIN baseSymbolInfo \ DOMAIN tblRecSet
  BY DEF Added
<1>5. \A r \in recs : r.sym \in new /\ r = rec(r.sym)
  BY DEF AsRecs
<1>6. \A s \in new : rec(s) \in recs /\ rec(s).sym = s /\ rec(s).code = baseSymbolInfo[s].code
  BY DEF AsRecs
<1> HIDE DEF new, recs, rec
<1>7. \A r \in c : r.sym \in DOMAIN tblRecSet'
  BY <1>1, <1>2, <1>3, <1>4, <1>5
<1>8. DOMAIN firstRead' = DOMAIN tblRecSet' /\ DOMAIN tblRecSet' \subseteq DOMAIN baseSymbolInfo'
  BY <1>2
<1>9. ASSUME NEW s \in DOMAIN firstRead'
      PROVE  \/ LookedUp(s)' = AsRecs(firstRead', {s})
             \/ \E r \in c : r.sym # s /\ r.code = firstRead'[s].code
  <2>1. CASE s \in DOMAIN firstRead
    <3>1. firstRead'[s] = firstRead[s]
      BY <1>2, <1>8, <2>1
    <3>2. LookedUp(s)' = LookedUp(s)
      BY <1>1, <1>3, <1>4, <1>5, <2>1 DEF LookedUp
    <3>3. AsRecs(firstRead', {s}) = AsRecs(firstRead, {s})
      BY <3>1 DEF AsRecs
    <3>4. \/ LookedUp(s) = AsRecs(firstRead, {s})
          \/ \E r \in midxSymbolInfo : r.sym # s /\ r.code = firstRead[s].code
      BY <1>1, <2>1 DEF LookedUpIsFirstRead
    <3> QED BY <1>3, <3>1, <3>2, <3>3, <3>4
  <2>2. CASE s \notin DOMAIN firstRead
    <3>1. firstRead'[s] = baseSymbolInfo[s] /\ s \in new
      BY <1>1, <1>2, <1>4, <2>2
    <3>2. AsRecs(firstRead', {s}) = {rec(s)}
      BY <3>1 DEF AsRecs, rec
    <3>3. rec(s) \in recs /\ rec(s).sym = s /\ rec(s).code = firstRead'[s].code
      BY <1>6, <3>1
    <3>4. CASE rec(s) \in c
      <4>1. LookedUp(s)' = {rec(s)}
        BY <1>3, <3>3, <3>4 DEF LookedUp
      <4> QED BY <3>2, <4>1
    <3>5. CASE rec(s) \notin c
      <4>1. PICK q \in c : rec(s).sym = q.sym \/ rec(s).code = q.code
        BY <1>3, <3>3, <3>5
      <4>2. q.sym # s
        BY <1>1, <1>3, <1>4, <1>5, <3>1, <3>5
      <4> QED BY <3>3, <4>1, <4>2
    <3> QED BY <3>4, <3>5
  <2> QED BY <2>1, <2>2
<1>10. LookedUpIsFirstRead'
  BY <1>9 DEF LookedUpIsFirstRead, AsRecs
<1> QED BY <1>7, <1>8, <1>10 DEF SymbolInv

LEMMA SymbolKept == SymbolInv /\ [SymbolNext]_symbolVars => SymbolInv'
<1> SUFFICES ASSUME SymbolInv, [SymbolNext]_symbolVars PROVE SymbolInv'
  OBVIOUS
<1>1. ASSUME DOMAIN baseSymbolInfo \subseteq DOMAIN baseSymbolInfo',
             tblRecSet' = tblRecSet, midxSymbolInfo' = midxSymbolInfo, firstRead' = firstRead
      PROVE  SymbolInv'
  BY <1>1 DEF SymbolInv, LookedUpIsFirstRead, LookedUp, AsRecs
<1>2. CASE EditListed
  BY <1>1, <1>2 DEF EditListed
<1>3. CASE execSymbolTableMaint
  BY <1>1, <1>3 DEF execSymbolTableMaint
<1>4. CASE syncRecToTable
  <2>1. \A s : ExecRecReplace(s) \/ ExecRecDelete(s) \/ ExecRecUpdate(s) => DOMAIN baseSymbolInfo \subseteq DOMAIN baseSymbolInfo'
    BY DEF ExecRecReplace, ExecRecDelete, ExecRecUpdate, With
  <2> QED BY <1>1, <1>4, <2>1 DEF syncRecToTable
<1>5. CASE syncRecToTableFails
  BY <1>1, <1>5 DEF syncRecToTableFails
<1>6. CASE doMonit
  BY <1>6, doMonitKeeps
<1>7. CASE UNCHANGED symbolVars
  BY <1>1, <1>7 DEF symbolVars
<1> QED BY <1>2, <1>3, <1>4, <1>5, <1>6, <1>7 DEF SymbolNext

-----------------------------------------------------------------------------
\* ServiceIsConsistent: what is taken to be subscribed is subscribed or asked for, but for
\* what AssumedIsRequested names (TopicGroupMustSubMaint, SubAndUnSubSvc); no more requests than
\* the limit are let through in any time of timeDur, but for the rest of the last task
\* (FlowCtrlSvc); and what is looked up is a row as the monitor first read it (TBLMonitor).
THEOREM ServiceIsRight == Spec => []ServiceIsConsistent
<1> DEFINE Inv == SubInv /\ FlowInv /\ SymbolInv
<1>1. Init => Inv
  <2>1. Init => conf \in MustSubOfConf
    BY DEF Init, InitOf, SubInit
  <2> QED BY <2>1, SubFirst, FlowFirst, SymbolFirst DEF Init, InitOf
<1>2. Inv /\ [Next]_vars => Inv'
  <2> SUFFICES ASSUME Inv, [Next]_vars PROVE Inv'
    OBVIOUS
  <2>1. [SubNext]_subVars /\ [FlowNext]_flowVars /\ [SymbolNext]_symbolVars
    BY DEF Next, vars, SubStep, BookStep, FlowStep, SymbolStep, HisStep
  <2> QED BY <2>1, SubKept, FlowKept, SymbolKept
<1>3. Inv => ServiceIsConsistent
  BY DEF ServiceIsConsistent, SubInv, FlowInv, SymbolInv
<1> QED BY <1>1, <1>2, <1>3, PTL DEF Spec

-----------------------------------------------------------------------------
(***************************************************************************)
(* The files.                                                              *)
(***************************************************************************)
\* The candle that waits to be written is that of the minute after the last one written.
NextIsWaiting ==
  minutesMade # << >> =>
    ~NoCandle /\ MinuteOf(candleTopic2CandleData) = minutesMade[Len(minutesMade)] + 1

HisInv ==
  /\ candleTopic2CandleData \in Nat /\ minutesMade \in Seq(Nat)
  /\ WholeMinutes /\ NextIsWaiting

\* A line of one of the days has a minute, and it is not the one no line is of.
LEMMA MinuteOfLine ==
  ASSUME NEW ts \in HisTs
  PROVE  ts \in Nat /\ MinuteOf(ts) \in Nat /\ ts # NoMinute * TicksOfMinute
<1>1. ts \in Nat /\ DayOf(ts) \in Day
  BY HisMDAssumption DEF HisTs
<1>2. MinuteOf(ts) \in Nat
  BY <1>1, HisMDAssumption DEF MinuteOf
<1>3. NoMinute * TicksOfMinute = 0 /\ 0 \notin Day
  BY HisMDAssumption DEF NoMinute, Day, MIN_DATE
<1>4. DayOf(0) = 0
  <2>1. MinuteOf(0) = 0
    BY HisMDAssumption DEF MinuteOf
  <2> QED BY <2>1, HisMDAssumption DEF DayOf
<1> QED BY <1>1, <1>2, <1>3, <1>4

LEMMA HisFirst == HisInit => HisInv
<1> SUFFICES ASSUME HisInit PROVE HisInv
  OBVIOUS
<1>1. candleTopic2CandleData \in Nat
  BY HisMDAssumption DEF HisInit, NoMinute
<1>2. minutesMade = << >> /\ << >> \in Seq(Nat)
  BY DEF HisInit
<1> QED BY <1>1, <1>2 DEF HisInv, WholeMinutes, NextIsWaiting

\* The minutes added when a candle ends the one that waits follow the ones written, the
\* last of them is the one before the minute of the candle.
LEMMA CandlesFollow ==
  ASSUME HisInv, NEW ts \in HisTs, CandlesOfMinutes(ts) # << >>
  PROVE  /\ ~NoCandle
         /\ minutesMade \o CandlesOfMinutes(ts) \in Seq(Nat)
         /\ \A i \in 2 .. Len(minutesMade \o CandlesOfMinutes(ts)) :
              (minutesMade \o CandlesOfMinutes(ts))[i] = (minutesMade \o CandlesOfMinutes(ts))[i - 1] + 1
         /\ (minutesMade \o CandlesOfMinutes(ts))[Len(minutesMade \o CandlesOfMinutes(ts))] + 1 = MinuteOf(ts)
<1> DEFINE old == minutesMade
           new == CandlesOfMinutes(ts)
           m == MinuteOf(candleTopic2CandleData)
           k == MinuteOf(ts) - m
<1>1. ~NoCandle /\ MinuteOf(ts) \in Nat /\ m \in Nat
  <2>1. MinuteOf(ts) \in Nat
    BY MinuteOfLine
  <2>2. candleTopic2CandleData \in Nat
    BY DEF HisInv
  <2>3. m \in Nat
    BY <2>2, HisMDAssumption DEF MinuteOf
  <2> QED BY <2>1, <2>3 DEF CandlesOfMinutes
<1>2. m < MinuteOf(ts) /\ new = [i \in 1 .. k |-> m + i - 1]
  BY <1>1 DEF CandlesOfMinutes
<1>3. k \in Nat /\ k > 0
  BY <1>1, <1>2
<1>4. /\ old \in Seq(Nat)
      /\ \A i \in 2 .. Len(old) : old[i] = old[i - 1] + 1
      /\ old # << >> => m = old[Len(old)] + 1
  BY DEF HisInv, WholeMinutes, NextIsWaiting
<1> HIDE DEF old, new, m, k
<1>5. new \in Seq(Nat) /\ Len(new) = k /\ \A i \in 1 .. k : new[i] = m + i - 1
  BY <1>1, <1>2, <1>3
<1> DEFINE both == old \o new
           n == Len(old)
<1>6. /\ both \in Seq(Nat) /\ n \in Nat /\ Len(both) = n + k
      /\ \A i \in 1 .. n : both[i] = old[i]
      /\ \A i \in 1 .. k : both[n + i] = new[i]
  <2>0. old \in Seq(Nat) /\ new \in Seq(Nat)
    BY <1>4, <1>5
  <2>1. n \in Nat /\ both \in Seq(Nat) /\ Len(both) = n + Len(new)
    BY <2>0, ConcatProperties, LenProperties
  <2>2. \A i \in 1 .. n : both[i] = old[i]
    BY <2>0, <2>1, LenProperties, ConcatProperties
  <2>3. ASSUME NEW i \in 1 .. k PROVE both[n + i] = new[i]
    <3>1. n + i \in 1 .. Len(old) + Len(new) /\ n + i > Len(old) /\ (n + i) - Len(old) = i
      BY <1>3, <1>5, <2>1
    <3> QED BY <2>0, <2>1, <3>1, ConcatProperties
  <2> QED BY <1>5, <2>1, <2>2, <2>3
<1>7. \A i \in 2 .. n : old[i] = old[i - 1] + 1
  BY <1>4 DEF n
<1>8. n > 0 => m = old[n] + 1
  BY <1>4
<1> HIDE DEF both, n
<1>9. ASSUME NEW i \in 2 .. Len(both)
      PROVE  both[i] = both[i - 1] + 1
  <2>1. CASE i <= n
    <3>1. both[i] = old[i] /\ both[i - 1] = old[i - 1]
      BY <1>6, <2>1
    <3> QED BY <1>6, <1>7, <2>1, <3>1
  <2>2. CASE i = n + 1
    <3>1. both[i] = m
      <4>1. both[n + 1] = new[1] /\ new[1] = m + 1 - 1
        BY <1>3, <1>5, <1>6
      <4> QED BY <1>1, <2>2, <4>1 DEF m
    <3>2. n > 0 /\ both[i - 1] = old[n]
      BY <1>6, <2>2
    <3> QED BY <1>8, <3>1, <3>2
  <2>3. CASE i > n + 1
    <3>1. PICK j \in 2 .. k : i = n + j
      <4>1. i - n \in 2 .. k /\ i = n + (i - n)
        BY <1>3, <1>6, <2>3
      <4> QED BY <4>1
    <3>2. both[n + j] = new[j] /\ both[n + (j - 1)] = new[j - 1]
      BY <1>3, <1>6, <3>1
    <3>3. new[j] = m + j - 1 /\ new[j - 1] = m + (j - 1) - 1
      BY <1>3, <1>5, <3>1
    <3>4. i - 1 = n + (j - 1) /\ m \in Nat
      BY <1>1, <1>6, <3>1 DEF m
    <3> QED BY <3>1, <3>2, <3>3, <3>4
  <2> QED BY <1>6, <2>1, <2>2, <2>3
<1>10. both[Len(both)] + 1 = MinuteOf(ts)
  <2>1. both[n + k] = new[k] /\ new[k] = m + k - 1
    BY <1>3, <1>5, <1>6
  <2>2. m \in Nat /\ k = MinuteOf(ts) - m
    BY <1>1 DEF m, k
  <2> QED BY <1>1, <1>6, <2>1, <2>2
<1> QED BY <1>1, <1>6, <1>9, <1>10 DEF both, old, new

LEMMA HisKept == HisInv /\ [HisNext]_hisVars => HisInv'
<1> SUFFICES ASSUME HisInv, [HisNext]_hisVars PROVE HisInv'
  OBVIOUS
<1>1. ASSUME candleTopic2CandleData' = candleTopic2CandleData, minutesMade' = minutesMade
      PROVE  HisInv'
  BY <1>1 DEF HisInv, WholeMinutes, NextIsWaiting, NoCandle
<1>2. ASSUME NEW ts \in HisTs, handleMDLine(ts)
      PROVE  HisInv'
  <2> DEFINE new == CandlesOfMinutes(ts)
  <2>1. /\ minutesMade' = minutesMade \o (IF isCandle THEN new ELSE << >>)
        /\ candleTopic2CandleData' = IF isCandle /\ (NoCandle \/ new # << >>) THEN ts ELSE candleTopic2CandleData
    BY <1>2 DEF handleMDLine
  <2>2. minutesMade \in Seq(Nat) /\ minutesMade \o << >> = minutesMade
    BY DEF HisInv
  <2>3. ts \in Nat /\ ts # NoMinute * TicksOfMinute
    BY MinuteOfLine
  <2>4. CASE isCandle /\ new # << >>
    <3>1. minutesMade' = minutesMade \o new /\ candleTopic2CandleData' = ts
      BY <2>1, <2>4
    <3>2. minutesMade' \in Seq(Nat) /\ WholeMinutes'
      BY <2>4, <3>1, CandlesFollow DEF WholeMinutes
    <3>3. minutesMade'[Len(minutesMade')] + 1 = MinuteOf(ts)
      BY <2>4, <3>1, CandlesFollow
    <3> QED BY <2>3, <3>1, <3>2, <3>3 DEF HisInv, NextIsWaiting, NoCandle, MinuteOf
  <2>5. CASE isCandle /\ new = << >> /\ NoCandle
    <3>1. minutesMade' = << >> /\ candleTopic2CandleData' = ts
      BY <2>1, <2>2, <2>5 DEF HisInv, NextIsWaiting
    <3>2. << >> \in Seq(Nat)
      OBVIOUS
    <3> QED BY <2>3, <3>1, <3>2 DEF HisInv, WholeMinutes, NextIsWaiting
  <2>6. CASE ~isCandle \/ (new = << >> /\ ~NoCandle)
    BY <1>1, <2>1, <2>2, <2>6
  <2> QED BY <2>4, <2>5, <2>6
<1>3. CASE RestartStorage
  <2>1. candleTopic2CandleData' \in Nat /\ minutesMade' = << >> /\ << >> \in Seq(Nat)
    BY <1>3, HisMDAssumption DEF RestartStorage, NoMinute
  <2> QED BY <2>1 DEF HisInv, WholeMinutes, NextIsWaiting
<1>4. CASE NextSecond
  BY <1>1, <1>4 DEF NextSecond
<1>5. ASSUME NEW q \in BetweenQuery, LoadHisMDBetweenTs(q[1], q[2])
      PROVE  HisInv'
  BY <1>1, <1>5 DEF LoadHisMDBetweenTs, Answer
<1>6. ASSUME NEW q \in NumQuery, LoadHisMDBeforeTs(q[1], q[2])
      PROVE  HisInv'
  BY <1>1, <1>6 DEF LoadHisMDBeforeTs, Answer
<1>7. ASSUME NEW q \in NumQuery, LoadHisMDAfterTs(q[1], q[2])
      PROVE  HisInv'
  BY <1>1, <1>7 DEF LoadHisMDAfterTs, Answer
<1>8. CASE UNCHANGED hisVars
  BY <1>1, <1>8 DEF hisVars
<1> QED BY <1>2, <1>3, <1>4, <1>5, <1>6, <1>7, <1>8 DEF HisNext

\* WholeMinutes, which is half of HistoryIsWhole: each minute from the first candle a service
\* takes to the last complete one is written once and in order
\* (handleLastRecOfCandleInOneMinute), for every order in which candles come.
THEOREM MinutesAreWhole == Spec => []WholeMinutes
<1>1. Init => HisInv
  BY HisFirst DEF Init, InitOf
<1>2. HisInv /\ [Next]_vars => HisInv'
  <2> SUFFICES ASSUME HisInv, [Next]_vars PROVE HisInv'
    OBVIOUS
  <2>1. [HisNext]_hisVars
    BY DEF Next, vars, SubStep, BookStep, FlowStep, SymbolStep, HisStep
  <2> QED BY <2>1, HisKept
<1>3. HisInv => WholeMinutes
  BY DEF HisInv
<1> QED BY <1>1, <1>2, <1>3, PTL DEF Spec
=============================================================================

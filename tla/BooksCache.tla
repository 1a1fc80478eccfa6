------------------------------ MODULE BooksCache ------------------------------
(***************************************************************************)
(* The order book a crypto market data service publishes: BooksCache keeps  *)
(* the updates the exchange sends, asks it for a snapshot by https while     *)
(* more come in, merges the updates that continue the snapshot into it and  *)
(* publishes the result.  The thread of the web socket empties both maps    *)
(* when a connection opens, without a lock.                                 *)
(***************************************************************************)
EXTENDS Naturals, FiniteSets, Sequences, SequencesExt, FiniteSetsExt

CONSTANTS
  Change,             \* the book's history: Change[id] = [price, size], size 0 removes
  MaxOfUpdate,        \* bound: update ids in one message
  MaxInQueue,         \* bound: messages queued for the thread of books
  MAX_BOOKS_CACHE_NUM_OF_EACH_SYM,
  MaxLag,             \* bound: ids the answer to a query may be behind
  MaxReopens,         \* bound: connections after the first, and subscriptions made again
  MaxQueryFailures    \* bound: queries that fail

ASSUME BooksAssumption ==
  /\ {MaxOfUpdate, MaxInQueue, MAX_BOOKS_CACHE_NUM_OF_EACH_SYM} \subseteq Nat \ {0}
  /\ {MaxLag, MaxReopens, MaxQueryFailures} \subseteq Nat /\ DOMAIN Change = 1 .. Len(Change)

VARIABLES
  exchId,      \* the exchange: the last update id
  exchSent,    \* the last id the connection has sent, exchId if it has just begun
  bookQueue,   \* messages [first, final] queued for the thread
  updates,     \* symbolCode2UpdateId2BooksDataOfUpdateData_, in the order of their ids
  snapshot,    \* symbolCode2BooksDataOfSnapshot_: NoBook, or [final, levels, fresh]
  pc,          \* the thread: "idle", "merge", "query"; "dead" if it read what was cleared
  book,        \* the last book published: NoBook, or [final, levels, behind, first]
  reopening,   \* the map of updates is cleared, that of snapshots is not yet
  reopens, queryFailures

bookVars == <<exchId, exchSent, bookQueue, updates, snapshot, pc, book, reopening, reopens, queryFailures>>

NoBook == [final |-> 0]

\* The levels the changes of a range of ids leave, by price; and the book at an id.
LevelsOf(first, final) ==
  [p \in {Change[n].price : n \in first .. final} |->
     Change[Max({n \in first .. final : Change[n].price = p})].size]
WithoutEmpty(levels) == [p \in {q \in DOMAIN levels : levels[q] # 0} |-> levels[p]]
BookAt(id) == WithoutEmpty(LevelsOf(1, id))

BookInit ==
  /\ exchId = 1 /\ exchSent = 1 /\ bookQueue = << >> /\ updates = << >> /\ snapshot = NoBook
  /\ pc = "idle" /\ book = NoBook /\ reopening = FALSE /\ reopens = 0 /\ queryFailures = 0

-----------------------------------------------------------------------------
\* The exchange, and the subscription.
Trade ==
  /\ exchId < Len(Change) /\ exchId' = exchId + 1
  /\ UNCHANGED <<exchSent, bookQueue, updates, snapshot, pc, book, reopening, reopens, queryFailures>>

SendUpdate(final) ==
  /\ ~reopening /\ final \in exchSent + 1 .. exchId /\ final <= exchSent + MaxOfUpdate /\ Len(bookQueue) < MaxInQueue
  /\ bookQueue' = Append(bookQueue, [first |-> exchSent + 1, final |-> final]) /\ exchSent' = final
  /\ UNCHANGED <<exchId, updates, snapshot, pc, book, reopening, reopens, queryFailures>>

\* A topic that was silent for too long is subscribed again: what came between is not sent.
SubAgain ==
  /\ reopens < MaxReopens /\ exchSent < exchId /\ exchSent' = exchId /\ reopens' = reopens + 1
  /\ UNCHANGED <<exchId, bookQueue, updates, snapshot, pc, book, reopening, queryFailures>>

\* onBeforeOpen, reset: two maps, cleared one after the other.  The thread may be at work on
\* what the old connection sent: clearing what it reads may end the process.
resetUpdates ==
  /\ reopens < MaxReopens /\ ~reopening /\ reopens' = reopens + 1 /\ reopening' = TRUE
  /\ exchSent' = exchId /\ updates' = << >>
  /\ pc' \in IF pc \in {"idle", "dead"} THEN {pc} ELSE {pc, "dead"}
  /\ UNCHANGED <<exchId, bookQueue, snapshot, book, queryFailures>>

resetSnapshot ==
  /\ reopening /\ reopening' = FALSE /\ snapshot' = NoBook
  /\ pc' \in IF pc \in {"idle", "dead"} THEN {pc} ELSE {pc, "dead"}
  /\ UNCHANGED <<exchId, exchSent, bookQueue, updates, book, reopens, queryFailures>>

-----------------------------------------------------------------------------
\* cacheUpdateData, and what handle does when it finds a gap.
Newest(s) == IF Len(s) > MAX_BOOKS_CACHE_NUM_OF_EACH_SYM
             THEN SubSeq(s, Len(s) - MAX_BOOKS_CACHE_NUM_OF_EACH_SYM + 1, Len(s)) ELSE s

cacheUpdateData ==
  /\ pc = "idle" /\ bookQueue # << >> /\ bookQueue' = Tail(bookQueue)
  /\ LET new == Head(bookQueue)
     IN  IF updates # << >> /\ Last(updates).final + 1 # new.first
         THEN updates' = <<new>> /\ snapshot' = NoBook /\ UNCHANGED pc
         ELSE updates' = Newest(Append(updates, new)) /\ pc' = "merge" /\ UNCHANGED snapshot
  /\ UNCHANGED <<exchId, exchSent, book, reopening, reopens, queryFailures>>

\* BooksData::merge: a level of the update replaces that of the snapshot, one of size zero
\* removes it.
merge(b, u) ==
  LET levels == LevelsOf(u.first, u.final)
  IN  [final |-> u.final, fresh |-> FALSE,
       levels |-> WithoutEmpty([p \in DOMAIN b.levels \cup DOMAIN levels |->
                                  IF p \in DOMAIN levels THEN levels[p] ELSE b.levels[p]])]

\* The id that must come next is that of the snapshot as it was, and no two updates share
\* an id; so of several updates one is merged.
Merges(b, u) == b.final + 1 >= u.first /\ b.final + 1 <= u.final

MergeAll(b, us) ==
  LET fitting == {n \in DOMAIN us : Merges(b, us[n])}
  IN  IF fitting = {} THEN b ELSE merge(b, us[CHOOSE n \in fitting : TRUE])

\* Whether the updates begin after the id that must come next.  (NeverTooLarge: that is
\* not looked at, and the snapshot stays.)
NeverTooLarge(b, us) == FALSE
TooLarge(b, us) == us[1].first > b.final + 1

\* mergeUpdateDataToSnapshot, by its answer.
SnapshotNotExists == snapshot = NoBook /\ pc' = "query" /\ UNCHANGED <<updates, snapshot, book>>

ReadsCleared == snapshot # NoBook /\ updates = << >> /\ pc' = "dead" /\ UNCHANGED <<updates, snapshot, book>>

FinalUpdateIdTooSmall ==
  /\ snapshot # NoBook /\ updates # << >> /\ Last(updates).final < snapshot.final + 1
  /\ updates' = << >> /\ pc' = "idle" /\ UNCHANGED <<snapshot, book>>

FirstUpdateIdTooLarge ==
  /\ snapshot # NoBook /\ updates # << >> /\ TooLarge(snapshot, updates)
  /\ snapshot' = NoBook /\ pc' = "idle" /\ UNCHANGED <<updates, book>>

\* The book handed on: handleMDBooks publishes it and saves it.
handleMDBooks(merged) ==
  book' = [final |-> merged.final, levels |-> merged.levels, first |-> snapshot.fresh,
           behind |-> Cardinality({n \in DOMAIN updates : updates[n].first > merged.final})]

Merged1 ==
  /\ snapshot # NoBook /\ updates # << >>
  /\ Last(updates).final >= snapshot.final + 1 /\ ~TooLarge(snapshot, updates)
  /\ LET merged == MergeAll(snapshot, updates)
     IN  snapshot' = merged /\ handleMDBooks(merged)
  /\ updates' = <<Last(updates)>> /\ pc' = "idle"

mergeUpdateDataToSnapshot ==
  /\ pc = "merge"
  /\ SnapshotNotExists \/ ReadsCleared \/ FinalUpdateIdTooSmall \/ FirstUpdateIdTooLarge \/ Merged1
  /\ UNCHANGED <<exchId, exchSent, bookQueue, reopening, reopens, queryFailures>>

\* createSnapshot: the thread waits for the answer, of an id that may be behind.
createSnapshot ==
  /\ pc = "query" /\ pc' = "idle"
  /\ \/ \E id \in 1 .. exchId :
          /\ id + MaxLag >= exchId /\ snapshot' = [final |-> id, levels |-> BookAt(id), fresh |-> TRUE]
          /\ UNCHANGED queryFailures
     \/ queryFailures < MaxQueryFailures /\ queryFailures' = queryFailures + 1 /\ UNCHANGED snapshot
  /\ UNCHANGED <<exchId, exchSent, bookQueue, updates, book, reopening, reopens>>

\* What the thread does with a message.
handle == cacheUpdateData \/ mergeUpdateDataToSnapshot \/ createSnapshot

BookNext ==
  \/ Trade
  \/ \E n \in 1 .. Len(Change) : SendUpdate(n)
  \/ SubAgain
  \/ resetUpdates
  \/ resetSnapshot
  \/ handle

-----------------------------------------------------------------------------
\* A book is published only as the exchange had it at its update id, whatever was missed,
\* cleared or asked for meanwhile; and it is at most one message older than the one it is
\* published for, but for the first made from a snapshot: if that left out more, the next
\* finds the gap.
BookIsTheExchanges ==
  book # NoBook => book.levels = BookAt(book.final) /\ (book.behind <= 1 \/ book.first)
=============================================================================

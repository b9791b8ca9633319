-------------------------------- MODULE Paging --------------------------------
(***************************************************************************)
(* Keyset paging (core/pagination and the list use cases): a client walks  *)
(* through a list page by page with the cursor of the last page, while the *)
(* rows come, go and move under it.                                        *)
(*                                                                         *)
(* A row has an id and, where the list has a sort column, a key; the ORDER *)
(* BY of the statement and the condition on the cursor are separate texts  *)
(* of every repository.                                                    *)
(***************************************************************************)
EXTENDS Integers, FiniteSets, Sequences

CONSTANTS Listing, \* the lists that are walked
          RowId,   \* ids, in their order
          SortKey, \* values of the sort column
          PageLimit

ASSUME PagingAssumption ==
  /\ Listing # {} /\ RowId \subseteq Nat /\ SortKey \subseteq Nat
  /\ IsFiniteSet(RowId) /\ IsFiniteSet(SortKey) /\ PageLimit \in Nat \ {0}

\* An asset without a rank.
Unranked == -1

(***************************************************************************)
(* The lists: how a list is sorted, and how the key of a row may change.   *)
(***************************************************************************)

Activities   == [sort |-> "newest", moves |-> "never"]
AuditLogs    == [sort |-> "newest", moves |-> "never"]
SystemLogs   == [sort |-> "newest", moves |-> "never"]
Transactions == [sort |-> "newest", moves |-> "anywhere"]
Sessions     == [sort |-> "oldest", moves |-> "later"]
Coins        == [sort |-> "oldest", moves |-> "anywhere"]
CoinsDown    == [sort |-> "newest", moves |-> "anywhere"]
\* Without a search, whose condition cursorCondition does not keep apart from
\* its own alternatives (see the README's known divergences).
Assets       == [sort |-> "ranked", moves |-> "anywhere"]
Alerts       == [sort |-> "id", moves |-> "never"]
Invitations  == [sort |-> "id", moves |-> "never"]
Accounts     == [sort |-> "id", moves |-> "never"]
Users        == [sort |-> "id", moves |-> "never"]

Keys(l) == CASE l.sort = "id"     -> {0}
             [] l.sort = "ranked" -> SortKey \cup {Unranked}
             [] OTHER             -> SortKey

\* ORDER BY key DESC, id DESC, and the positions after the cursor.
NewestFirst(p, q) == p.key > q.key \/ (p.key = q.key /\ p.id > q.id)
OlderThan(c, p)       == p.key < c.key \/ (p.key = c.key /\ p.id < c.id)

\* ORDER BY key ASC, id ASC.
OldestFirst(p, q) == p.key < q.key \/ (p.key = q.key /\ p.id < q.id)
YoungerThan(c, p)     == p.key > c.key \/ (p.key = c.key /\ p.id > c.id)

\* ORDER BY id ASC.
ById(p, q)     == p.id < q.id
GreaterId(c, p) == p.id > c.id

\* ORDER BY "marketCapRank" ASC NULLS LAST, id ASC.
NullsLast(p, q) ==
  IF q.key = Unranked THEN p.key = Unranked => p.id < q.id
  ELSE p.key # Unranked /\ OldestFirst(p, q)
RankedOnly(c, p) == c.key # Unranked /\ p.key # Unranked /\ YoungerThan(c, p)
LowerRanked(c, p) ==
  IF c.key = Unranked THEN p.key = Unranked /\ p.id > c.id
  ELSE p.key = Unranked \/ YoungerThan(c, p)

Precedes(l, p, q) ==
  CASE l.sort = "newest" -> NewestFirst(p, q)
    [] l.sort = "oldest" -> OldestFirst(p, q)
    [] l.sort = "id"     -> ById(p, q)
    [] l.sort = "ranked" -> NullsLast(p, q)

After(l, c, p) ==
  CASE l.sort = "newest" -> OlderThan(c, p)
    [] l.sort = "oldest" -> YoungerThan(c, p)
    [] l.sort = "id"     -> GreaterId(c, p)
    [] l.sort = "ranked" -> LowerRanked(c, p)

ASSUME ListingAssumption ==
  \A l \in Listing : /\ l.sort \in {"newest", "oldest", "id", "ranked"}
                     /\ l.moves \in {"never", "anywhere", "later"}
                     /\ l.moves = "later" => l.sort = "oldest"

\* ORDER BY: the n-th row is the one with n - 1 rows before it.
Sorted(l, rows) ==
  LET Before(p) == {q \in rows : Precedes(l, q, p)}
  IN [n \in 1..Cardinality(rows) |-> CHOOSE p \in rows : Cardinality(Before(p)) = n - 1]

(***************************************************************************)
(* State.                                                                  *)
(***************************************************************************)

WalkStart == [key |-> 0, id |-> -1]
WalkEnd   == [key |-> 0, id |-> -2]

VARIABLES
  listing, \* the list that is walked
  row,     \* per id, its key, or Missing where the list has no such row
  cursor,  \* where the walk is: WalkStart, WalkEnd, or the position of the row last seen
  times,   \* history: how often the walk has shown a row
  steady,  \* history: rows that have been there since its start, unmoved,
  present  \* and those that have only moved, where rows move to the end only

pagingVars == <<listing, row, cursor, times, steady, present>>

Missing  == -2
Shown == {i \in RowId : row[i] # Missing}

PagingInit ==
  /\ listing \in Listing
  /\ row \in [RowId -> Keys(listing) \cup {Missing}]
  /\ cursor = WalkStart
  /\ times = [i \in RowId |-> 0]
  /\ steady = Shown /\ present = Shown

Position(i) == [key |-> row[i], id |-> i]

\* One more than the page is asked for, to learn whether there is another.
Matching  == {Position(i) : i \in {j \in Shown : cursor = WalkStart \/ After(listing, cursor, Position(j))}}
InOrder   == Sorted(listing, Matching)
Fetched   == SubSeq(InOrder, 1, IF Len(InOrder) <= PageLimit THEN Len(InOrder) ELSE PageLimit + 1)

HasMore(items) == Len(items) > PageLimit

\* paginate.
NextPage ==
  /\ cursor # WalkEnd
  /\ LET page == SubSeq(Fetched, 1, IF HasMore(Fetched) THEN PageLimit ELSE Len(Fetched)) IN
       /\ cursor' = IF HasMore(Fetched) THEN page[Len(page)] ELSE WalkEnd
       /\ times' = [i \in RowId |->
                      times[i] + Cardinality({n \in DOMAIN page : page[n].id = i})]
  /\ UNCHANGED <<listing, row, steady, present>>

Becomes(i, key) ==
  /\ cursor # WalkEnd
  /\ row' = [row EXCEPT ![i] = key]
  /\ steady' = steady \ {i}
  /\ present' = IF key # Missing /\ listing.moves = "later" THEN present ELSE present \ {i}
  /\ UNCHANGED <<listing, cursor, times>>

\* A row is inserted, or begins to match.
Appears(i) == i \notin Shown /\ \E key \in Keys(listing) : Becomes(i, key)

\* A row is deleted, expires, or no longer matches.
Vanishes(i) == i \in Shown /\ Becomes(i, Missing)

Moves(i) ==
  /\ i \in Shown /\ listing.moves # "never"
  /\ \E key \in Keys(listing) \ {row[i]} : /\ listing.moves = "later" => key > row[i]
                                           /\ Becomes(i, key)

PagingNext == NextPage \/ \E i \in RowId : Appears(i) \/ Vanishes(i) \/ Moves(i)

PagingSpec == PagingInit /\ [][PagingNext]_pagingVars
-------------------------------------------------------------------------------
(***************************************************************************)
(* Properties.                                                             *)
(***************************************************************************)

PagingTypeOK ==
  /\ row \in [RowId -> Keys(listing) \cup {Missing}]
  /\ times \in [RowId -> Nat]
  /\ steady \subseteq present /\ present \subseteq Shown

\* A walk to the end shows every row that stays where it is exactly once,
\* whatever comes, goes and moves beside it, ties and missing ranks included;
\* where rows only move towards the end, it also shows every row that stays,
\* wherever it moves: a session that is used meanwhile is not missed.
WalksAreComplete ==
  cursor = WalkEnd =>
    /\ \A i \in steady : times[i] = 1
    /\ listing.moves = "later" => \A i \in present : times[i] >= 1
===============================================================================

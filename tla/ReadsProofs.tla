----------------------------- MODULE ReadsProofs -----------------------------
(***************************************************************************)
(* Proofs about module Reads, for any number of predictions, pages of any  *)
(* size and batches of any size.                                           *)
(*                                                                         *)
(* A walk is exact because what it has shown, matched and listed is one    *)
(* descending sequence (Sorted) at or above the cursor (AboveCursor), and  *)
(* what it could show all along is in that sequence or still to come       *)
(* (Covered).  Sort keys never change, so what others commit, resolve,     *)
(* quarantine or damage meanwhile leaves that order alone.                 *)
(***************************************************************************)
EXTENDS Reads, FiniteSetTheorems, TLAPS

(* Newer and Below of a given table of rows. *)
Before(ps, p, q) == ps[q].key < ps[p].key \/ (ps[q].key = ps[p].key /\ q < p)

Under(ps, p, c) == c # None => ps[p].key < c.key \/ (ps[p].key = c.key /\ p < c.id)

(* What a query lists, and what a page shows. *)
Entry == [id : Preds, row : Row]
Item == [id : Preds, verified : BOOLEAN, row : Row]

(* What the walk has gone through, newest first. *)
Sorted ==
    /\ \A i, j \in DOMAIN shown : i < j => Before(preds, shown[i], shown[j])
    /\ \A i, j \in DOMAIN matched : i < j => Before(preds, matched[i].id, matched[j].id)
    /\ \A i, j \in DOMAIN rows : i < j => Before(preds, rows[i].id, rows[j].id)
    /\ \A i \in DOMAIN shown, j \in DOMAIN matched : Before(preds, shown[i], matched[j].id)
    /\ \A i \in DOMAIN shown, j \in DOMAIN rows : Before(preds, shown[i], rows[j].id)
    /\ \A i \in DOMAIN matched, j \in DOMAIN rows : Before(preds, matched[i].id, rows[j].id)

(* It is committed. *)
ListedIsCommitted ==
    /\ \A i \in DOMAIN shown : preds[shown[i]] # None
    /\ \A i \in DOMAIN matched : preds[matched[i].id] # None
    /\ \A i \in DOMAIN rows : preds[rows[i].id] # None

(* Where the reader is, and what it then holds. *)
Phases ==
    /\ at \in {"verify", "files"} <=> rows # <<>>
    /\ at \in {"list", "verify", "files"} => Len(matched) <= Limit
    /\ mode = "detail" => /\ at \in {"verify", "files", "done"} /\ shown = <<>> /\ steady = {}
                          /\ at # "done" => matched = <<>> /\ Len(rows) = 1
    /\ at \in {"paged", "idle"} \/ (at = "done" /\ mode = "walk") => matched = <<>>
    /\ at = "idle" => shown = <<>>

(* A row that was read again may since have been quarantined, never the    *)
(* other way round.                                                        *)
SnapIsRecent ==
    at = "files" =>
        /\ snap \in Row
        /\ rows[1].id \in known => snap.status = "quarantined"
        /\ snap.status = "quarantined" => preds[rows[1].id].status = "quarantined"

(* Nothing the walk has gone through is below its cursor. *)
AboveCursor ==
    mode = "walk" /\ at \in {"list", "verify", "files", "paged"} =>
        /\ \A i \in DOMAIN shown : ~Under(preds, shown[i], after)
        /\ \A i \in DOMAIN matched : ~Under(preds, matched[i].id, after)
        /\ \A i \in DOMAIN rows : ~Under(preds, rows[i].id, after)

SteadyCanShow == \A p \in steady : CanShow(p, filter, preds, damaged)

(* What could be shown all along was gone through, or is still to come. *)
Covered(p) ==
    \/ \E i \in DOMAIN shown : shown[i] = p
    \/ \E i \in DOMAIN matched : matched[i].id = p
    \/ \E i \in DOMAIN rows : rows[i].id = p
    \/ at \in {"list", "paged"} /\ Under(preds, p, after)
    \/ at \in {"verify", "files"} /\ more /\ Under(preds, p, after)
    \/ at = "page" /\ Len(matched) > Limit /\ Before(preds, matched[Len(matched)].id, p)

SteadyIsCovered == \A p \in steady : Covered(p)

IInv ==
    /\ TypeOK /\ ListedIsCommitted /\ Phases /\ SnapIsRecent
    /\ Sorted /\ AboveCursor
    /\ SteadyCanShow /\ SteadyIsCovered

----------------------------------------------------------------------------
(* The order of the rows. *)

(* Identifiers whose rows are committed. *)
CommittedPreds == {p \in Preds : preds[p] # None}

(* They are ordered, strictly and totally, and they are finitely many. *)
LEMMA OrderIsTotal ==
  ASSUME TypeOK
  PROVE  /\ \A p \in CommittedPreds : ~Newer(p, p)
         /\ \A p, q \in CommittedPreds : p = q \/ Newer(p, q) \/ Newer(q, p)
         /\ \A p, q, r \in CommittedPreds : Newer(p, q) /\ Newer(q, r) => Newer(p, r)
<1>1. \A p \in CommittedPreds : p \in Nat /\ preds[p].key \in Nat
  BY ReadBounds DEF TypeOK, CommittedPreds, Preds, Row, Keys
<1> QED
  BY <1>1 DEF Newer

(* Only finitely many predictions are committed, so a page has a place for *)
(* each of them.                                                           *)
LEMMA CommittedIsFinite == IsFiniteSet(CommittedPreds)
<1>1. IsFiniteSet(Preds)
  BY ReadBounds, FS_Interval DEF Preds
<1> QED
  BY <1>1, FS_Subset DEF CommittedPreds

(* A newer row has fewer rows before it. *)
LEMMA RankIsOrder ==
  ASSUME TypeOK, NEW S \in SUBSET CommittedPreds, NEW p \in S, NEW q \in S, Newer(p, q)
  PROVE  Rank(p, S) \in Nat /\ Rank(q, S) \in Nat /\ Rank(p, S) < Rank(q, S)
<1> DEFINE P == {x \in S : Newer(x, p)}
           Q == {x \in S : Newer(x, q)}
<1>1. IsFiniteSet(S) /\ IsFiniteSet(Q)
  BY CommittedIsFinite, FS_Subset
<1>2. P \subseteq Q /\ p \in Q /\ p \notin P
  BY OrderIsTotal
<1>3. P # Q
  BY <1>2
<1> HIDE DEF P, Q
<1>4. Cardinality(P) \in Nat /\ Cardinality(Q) \in Nat /\ Cardinality(P) < Cardinality(Q)
  BY <1>1, <1>2, <1>3, FS_Subset, FS_CardinalityType
<1> QED
  BY <1>4 DEF Rank, P, Q

(* Every row has a rank of its own, and every rank its row. *)
LEMMA RankIsPlace ==
  ASSUME TypeOK, NEW S \in SUBSET CommittedPreds
  PROVE  /\ \A p \in S : Rank(p, S) \in 0..(Cardinality(S) - 1)
         /\ \A p, q \in S : Rank(p, S) = Rank(q, S) => p = q
         /\ \A n \in 0..(Cardinality(S) - 1) : \E p \in S : Rank(p, S) = n
<1>1. IsFiniteSet(S) /\ Cardinality(S) \in Nat
  BY CommittedIsFinite, FS_Subset, FS_CardinalityType
<1>2. ASSUME NEW p \in S PROVE Rank(p, S) \in 0..(Cardinality(S) - 1)
  <2> DEFINE P == {x \in S : Newer(x, p)}
  <2>1. P \subseteq S /\ P # S
    BY OrderIsTotal
  <2> HIDE DEF P
  <2>2. Cardinality(P) \in Nat /\ Cardinality(P) < Cardinality(S)
    BY <1>1, <2>1, FS_Subset, FS_CardinalityType
  <2> QED
    BY <1>1, <2>2 DEF Rank, P
<1>3. ASSUME NEW p \in S, NEW q \in S, p # q PROVE Rank(p, S) # Rank(q, S)
  <2>1. Newer(p, q) \/ Newer(q, p)
    BY <1>3, OrderIsTotal
  <2> QED
    BY <2>1, RankIsOrder
<1>4. ASSUME NEW n \in 0..(Cardinality(S) - 1), \A p \in S : Rank(p, S) # n PROVE FALSE
  <2> DEFINE T == (0..(Cardinality(S) - 1)) \ {n}
             f == [p \in S |-> Rank(p, S)]
  <2>1. /\ IsFiniteSet(0..(Cardinality(S) - 1))
        /\ Cardinality(0..(Cardinality(S) - 1)) = Cardinality(S)
    BY <1>1, FS_Interval
  <2>2. IsFiniteSet(T) /\ Cardinality(T) = Cardinality(S) - 1
    BY <1>1, <2>1, FS_RemoveElement
  <2>3. f \in [S -> T]
    BY <1>2, <1>4
  <2> HIDE DEF T, f
  <2>4. \E x, y \in S : x # y /\ f[x] = f[y]
    BY <1>1, <2>2, <2>3, FS_PigeonHole
  <2> QED
    BY <1>3, <2>4 DEF f
<1> QED
  BY <1>2, <1>3, <1>4

(* A query returns the newest rows it matches, in order; if it leaves any  *)
(* out it is full and they are older.                                      *)
LEMMA QueryIsRight ==
  ASSUME TypeOK, NEW f, NEW c
  PROVE  LET answer == Query(f, c)
         IN  /\ answer \in Seq(Preds) /\ Len(answer) <= Batch
             /\ \A i \in DOMAIN answer : answer[i] \in Matching(f, c)
             /\ \A i, j \in DOMAIN answer : i < j => Newer(answer[i], answer[j])
             /\ \A p \in Matching(f, c) :
                  \/ \E i \in DOMAIN answer : answer[i] = p
                  \/ Len(answer) = Batch /\ Newer(answer[Len(answer)], p)
<1> DEFINE S == Matching(f, c)
           n == IF Cardinality(S) < Batch THEN Cardinality(S) ELSE Batch
           answer == Query(f, c)
<1>1. S \subseteq CommittedPreds /\ S \subseteq Preds
  BY DEF Matching, Eligible, CommittedPreds
<1>2. Cardinality(S) \in Nat
  BY <1>1, CommittedIsFinite, FS_Subset, FS_CardinalityType
<1>3. n \in Nat /\ n <= Batch /\ n <= Cardinality(S) /\ (n = Cardinality(S) \/ n = Batch)
  BY <1>2, ReadBounds
<1>4. answer = [i \in 1..n |-> CHOOSE p \in S : Rank(p, S) = i - 1]
  BY DEF Query
<1> HIDE DEF S, n, answer
<1>5. ASSUME NEW i \in 1..n PROVE answer[i] \in S /\ Rank(answer[i], S) = i - 1
  <2>1. i - 1 \in 0..(Cardinality(S) - 1)
    BY <1>2, <1>3
  <2>2. \E p \in S : Rank(p, S) = i - 1
    BY <1>1, <2>1, RankIsPlace
  <2>3. answer[i] = CHOOSE p \in S : Rank(p, S) = i - 1
    BY <1>4
  <2> QED
    BY <2>2, <2>3
<1>6. DOMAIN answer = 1..n /\ answer \in Seq(Preds) /\ Len(answer) = n
  BY <1>1, <1>3, <1>4, <1>5
<1>7. ASSUME NEW i \in 1..n, NEW j \in 1..n, i < j PROVE Newer(answer[i], answer[j])
  <2>1. /\ answer[i] \in S /\ answer[j] \in S
        /\ Rank(answer[i], S) = i - 1 /\ Rank(answer[j], S) = j - 1
    BY <1>5
  <2>2. answer[i] # answer[j] /\ ~Newer(answer[j], answer[i])
    BY <1>1, <1>7, <2>1, RankIsOrder
  <2> QED
    BY <1>1, <2>1, <2>2, OrderIsTotal
<1>8. ASSUME NEW p \in S, \A i \in 1..n : answer[i] # p
      PROVE  n = Batch /\ Newer(answer[n], p)
  <2>1. Rank(p, S) \in 0..(Cardinality(S) - 1)
    BY <1>1, RankIsPlace
  <2>2. Rank(p, S) >= n
    <3>1. ASSUME Rank(p, S) < n PROVE FALSE
      <4>1. Rank(p, S) + 1 \in 1..n
        BY <1>3, <2>1, <3>1
      <4>2. Rank(answer[Rank(p, S) + 1], S) = Rank(p, S) /\ answer[Rank(p, S) + 1] \in S
        BY <1>5, <2>1, <4>1
      <4> QED
        BY <1>1, <1>8, <4>1, <4>2, RankIsPlace
    <3> QED
      BY <1>3, <2>1, <3>1
  <2>3. n = Batch /\ n \in 1..n
    BY <1>2, <1>3, <2>1, <2>2, ReadBounds
  <2>4. answer[n] \in S /\ Rank(answer[n], S) = n - 1
    BY <1>5, <2>3
  <2>5. answer[n] # p /\ ~Newer(p, answer[n])
    BY <1>1, <1>3, <1>8, <2>1, <2>2, <2>3, <2>4, RankIsOrder
  <2> QED
    BY <1>1, <2>3, <2>4, <2>5, OrderIsTotal
<1> QED
  BY <1>3, <1>5, <1>6, <1>7, <1>8 DEF S, answer

(* A position cuts the order in two: what is below it, and what is at or   *)
(* above it.                                                               *)
LEMMA Positions ==
  ASSUME TypeOK
  PROVE  /\ \A p, q : Newer(p, q) <=> Before(preds, p, q)
         /\ \A p, c : Below(p, c) <=> Under(preds, p, c)
         /\ \A p \in CommittedPreds : Position(p) \in Place \ {None}
         /\ \A p, q \in CommittedPreds :
              /\ Under(preds, q, Position(p)) <=> Before(preds, p, q)
              /\ Before(preds, p, q) => ~Under(preds, p, Position(q))
         /\ \A p \in CommittedPreds : ~Under(preds, p, Position(p))
         /\ \A p, q \in CommittedPreds, c \in Place :
              ~Under(preds, p, c) /\ Under(preds, q, c) => Before(preds, p, q)
         /\ \A p, q, r \in CommittedPreds :
              Before(preds, p, q) /\ Before(preds, q, r) => Before(preds, p, r)
<1>1. \A p \in CommittedPreds : p \in Nat /\ p \in Preds /\ preds[p].key \in Nat /\ preds[p].key \in Keys
  BY ReadBounds DEF TypeOK, CommittedPreds, Preds, Row, Keys
<1>2. \A p, q : Newer(p, q) <=> Before(preds, p, q)
  BY DEF Newer, Before
<1>3. \A p, c : Below(p, c) <=> Under(preds, p, c)
  BY DEF Below, Under
<1>4. \A p \in CommittedPreds :
        /\ Position(p) \in Place \ {None}
        /\ Position(p).key = preds[p].key /\ Position(p).id = p
  BY <1>1, NoneAssumption DEF Position, Place
<1>5. \A c \in Place : c = None \/ (c.key \in Nat /\ c.id \in Nat)
  BY ReadBounds DEF Place, Keys, Preds
<1> HIDE DEF Position, Place
<1>6. \A p, q \in CommittedPreds :
        /\ Under(preds, q, Position(p)) <=> Before(preds, p, q)
        /\ Before(preds, p, q) => ~Under(preds, p, Position(q))
  BY <1>1, <1>4 DEF Under, Before
<1>7. \A p \in CommittedPreds : ~Under(preds, p, Position(p))
  BY <1>1, <1>4 DEF Under
<1>8. \A p, q \in CommittedPreds, c \in Place :
        ~Under(preds, p, c) /\ Under(preds, q, c) => Before(preds, p, q)
  BY <1>1, <1>5 DEF Under, Before
<1>9. \A p, q, r \in CommittedPreds :
        Before(preds, p, q) /\ Before(preds, q, r) => Before(preds, p, r)
  BY <1>1 DEF Before
<1> QED
  BY <1>2, <1>3, <1>4, <1>6, <1>7, <1>8, <1>9

----------------------------------------------------------------------------
(* What the steps do. *)

(* A function on the first numbers is a sequence. *)
LEMMA FunctionIsSeq ==
  ASSUME NEW S, NEW n \in Nat, NEW f \in [1..n -> S]
  PROVE  f \in Seq(S) /\ Len(f) = n /\ DOMAIN f = 1..n
  OBVIOUS

(* The first element of a sequence that has one. *)
LEMMA HeadOfSeq ==
  ASSUME NEW S, NEW s \in Seq(S), s # <<>>
  PROVE  Len(s) \in Nat \ {0} /\ s[1] \in S /\ Head(s) = s[1] /\ 1 \in DOMAIN s
  OBVIOUS

(* Every element of a sequence over S is in S.                             *)
LEMMA ElementOfSeq ==
  ASSUME NEW S, NEW s \in Seq(S), NEW i \in DOMAIN s
  PROVE  s[i] \in S
  OBVIOUS

(* The first elements of a sequence over S are a sequence over S.          *)
LEMMA PrefixOfSeq ==
  ASSUME NEW S, NEW s \in Seq(S), NEW n \in Nat, n <= Len(s)
  PROVE  /\ SubSeq(s, 1, n) \in Seq(S)
         /\ Len(SubSeq(s, 1, n)) = n /\ DOMAIN SubSeq(s, 1, n) = 1..n
         /\ \A i \in 1..n : SubSeq(s, 1, n)[i] = s[i] /\ s[i] \in S
  OBVIOUS

(* The three sequences a walk keeps are sequences of entries and items.    *)
LEMMA WalkSequences ==
  ASSUME TypeOK
  PROVE  /\ shown \in Seq(Preds) /\ Len(shown) \in Nat
         /\ matched \in Seq(Item) /\ Len(matched) \in Nat
         /\ rows \in Seq(Entry) /\ Len(rows) \in Nat
<1>1. shown \in Seq(Preds) /\ matched \in Seq(Item) /\ rows \in Seq(Entry)
  BY DEF TypeOK, Item, Entry
<1> QED
  BY <1>1

(* What is listed, matched or shown is a committed prediction. *)
LEMMA ListedPreds ==
  ASSUME IInv
  PROVE  /\ \A i \in DOMAIN shown : shown[i] \in CommittedPreds
         /\ \A i \in DOMAIN matched : matched[i].id \in CommittedPreds
         /\ \A i \in DOMAIN rows : rows[i].id \in CommittedPreds
<1>1. TypeOK /\ ListedIsCommitted
  BY DEF IInv
<1>2. \A i \in DOMAIN shown : shown[i] \in Preds
  BY <1>1 DEF TypeOK
<1>3. \A i \in DOMAIN matched : matched[i] \in Item
  BY <1>1, WalkSequences
<1>4. \A i \in DOMAIN rows : rows[i] \in Entry
  BY <1>1, WalkSequences
<1> QED
  BY <1>1, <1>2, <1>3, <1>4 DEF ListedIsCommitted, CommittedPreds, Item, Entry

(* List replaces the empty list of rows by the newest rows below the       *)
(* cursor and moves the cursor to the last of them.                        *)
LEMMA ListEffect ==
  ASSUME IInv, List
  PROVE  /\ UNCHANGED <<preds, damaged, changes, mode, filter, snap, matched, shown, steady>>
         /\ at = "list" /\ mode = "walk" /\ rows = <<>>
         /\ rows' \in Seq(Entry) /\ Len(rows') <= Batch
         /\ \A i \in DOMAIN rows' :
              rows'[i].id \in CommittedPreds /\ Under(preds, rows'[i].id, after)
         /\ \A i, j \in DOMAIN rows' : i < j => Before(preds, rows'[i].id, rows'[j].id)
         /\ \A p \in Preds : Eligible(p, filter, preds) /\ Under(preds, p, after) =>
              \/ \E i \in DOMAIN rows' : rows'[i].id = p
              \/ rows' # <<>> /\ more' /\ Before(preds, rows'[Len(rows')].id, p)
         /\ rows' = <<>> => at' = "page" /\ after' = after
         /\ rows' # <<>> => at' = "verify" /\ after' = Position(rows'[Len(rows')].id)
         /\ known' \subseteq Preds
<1> DEFINE answer == Query(filter, after)
<1>1. /\ answer \in Seq(Preds) /\ Len(answer) <= Batch
      /\ \A i \in DOMAIN answer : answer[i] \in Matching(filter, after)
      /\ \A i, j \in DOMAIN answer : i < j => Newer(answer[i], answer[j])
      /\ \A p \in Matching(filter, after) :
           \/ \E i \in DOMAIN answer : answer[i] = p
           \/ Len(answer) = Batch /\ Newer(answer[Len(answer)], p)
  BY QueryIsRight DEF IInv
<1>2. rows' = [i \in DOMAIN answer |-> Listed(answer[i])]
  BY DEF List
<1>3. \A p : p \in Matching(filter, after) <=>
              p \in Preds /\ Eligible(p, filter, preds) /\ Below(p, after)
  BY DEF Matching
<1> HIDE DEF answer
<1>4. \A p \in Matching(filter, after) : p \in CommittedPreds /\ preds[p] \in Row
  BY <1>3 DEF IInv, TypeOK, Eligible, CommittedPreds
<1>5. \A i \in DOMAIN answer :
        rows'[i] \in Entry /\ rows'[i].id = answer[i]
  BY <1>1, <1>2, <1>4 DEF Listed, CommittedPreds, Entry
<1>6. /\ rows' \in Seq(Entry) /\ Len(rows') = Len(answer)
      /\ DOMAIN rows' = DOMAIN answer
  <2>1. Len(answer) \in Nat /\ DOMAIN answer = 1..Len(answer)
    BY <1>1
  <2>2. rows' \in [1..Len(answer) -> Entry]
    BY <1>2, <1>5, <2>1
  <2> QED
    BY <2>1, <2>2, FunctionIsSeq
<1>7. rows' = <<>> <=> Len(answer) = 0
  BY <1>1, <1>6
<1>8. TypeOK /\ Phases
  BY DEF IInv
<1>9. at = "list" /\ mode = "walk" /\ rows = <<>>
  BY <1>8 DEF List, Phases, TypeOK
<1>10. /\ UNCHANGED <<preds, damaged, changes, mode, filter, snap, matched, shown, steady>>
       /\ more' = (Len(rows') = Batch)
       /\ rows' = <<>> => at' = "page" /\ after' = after
       /\ rows' # <<>> => at' = "verify" /\ after' = Position(rows'[Len(rows')].id)
       /\ known' \subseteq Preds
  BY DEF List, ledger, Noticed, Quarantined, Last
<1>11. \A i \in DOMAIN rows' :
         rows'[i].id \in CommittedPreds /\ Under(preds, rows'[i].id, after)
  BY <1>1, <1>3, <1>4, <1>5, <1>6, <1>8, Positions
<1>12. \A i, j \in DOMAIN rows' : i < j => Before(preds, rows'[i].id, rows'[j].id)
  BY <1>1, <1>5, <1>6, <1>8, Positions
<1>13. ASSUME NEW p \in Preds, Eligible(p, filter, preds), Under(preds, p, after)
       PROVE  \/ \E i \in DOMAIN rows' : rows'[i].id = p
              \/ rows' # <<>> /\ more' /\ Before(preds, rows'[Len(rows')].id, p)
  <2>1. p \in Matching(filter, after)
    BY <1>3, <1>8, <1>13, Positions
  <2>2. CASE \E i \in DOMAIN answer : answer[i] = p
    BY <1>5, <1>6, <2>2
  <2>3. CASE Len(answer) = Batch /\ Newer(answer[Len(answer)], p)
    <3>1. Len(answer) # 0 /\ Len(answer) \in DOMAIN answer
      BY <1>1, <2>3, ReadBounds
    <3>2. Before(preds, rows'[Len(rows')].id, p)
      BY <1>5, <1>6, <1>8, <2>3, <3>1, Positions
    <3> QED
      BY <1>6, <1>7, <1>10, <2>3, <3>1, <3>2
  <2> QED
    BY <1>1, <2>1, <2>2, <2>3
<1> QED
  BY <1>1, <1>6, <1>9, <1>10, <1>11, <1>12, <1>13

(* Files takes the first row away; the summary of it is appended if it is  *)
(* wanted, which it is if the walk could show it all along; one item more  *)
(* than a page holds drops the rows that are left.                         *)
LEMMA FilesEffect ==
  ASSUME IInv, Files
  PROVE  /\ UNCHANGED <<preds, damaged, changes, mode, filter, after, more, shown, steady>>
         /\ at = "files" /\ snap' = None /\ known' \subseteq Preds
         /\ Len(rows) \in Nat \ {0} /\ Len(matched) <= Limit
         /\ \/ matched' = matched /\ rows[1].id \notin steady
            \/ /\ matched' \in Seq(Item)
               /\ Len(matched') = Len(matched) + 1
               /\ \A i \in 1..Len(matched) : matched'[i] = matched[i]
               /\ matched'[Len(matched')].id = rows[1].id
               /\ matched'[Len(matched')].verified =>
                    rows[1].id \notin known /\ rows[1].id \notin damaged
         /\ \/ Len(matched') > Limit /\ rows' = <<>>
            \/ /\ Len(matched') <= Limit
               /\ rows' \in Seq(Entry) /\ Len(rows') = Len(rows) - 1
               /\ \A i \in 1..Len(rows') : rows'[i] = rows[i + 1]
         /\ mode = "detail" => at' = "done" /\ rows' = <<>>
         /\ mode = "walk" /\ rows' # <<>> => at' = "verify"
         /\ mode = "walk" /\ rows' = <<>> /\ Len(matched') <= Limit /\ more => at' = "list"
         /\ mode = "walk" /\ rows' = <<>> /\ ~(Len(matched') <= Limit /\ more) => at' = "page"
<1>1. /\ TypeOK /\ Phases /\ SnapIsRecent /\ SteadyCanShow
      /\ at = "files"
  BY DEF IInv, Files
<1>2. /\ UNCHANGED <<preds, damaged, changes, mode, filter, after, more, shown, steady>>
      /\ snap' = None /\ known' \subseteq Preds
  BY DEF Files, ledger, Noticed, Quarantined
<1>3. /\ rows \in Seq(Entry) /\ rows # <<>>
      /\ Len(rows) \in Nat \ {0} /\ Len(matched) <= Limit
      /\ matched \in Seq(Item)
      /\ rows[1] \in Entry /\ Head(rows) = rows[1]
      /\ snap \in Row
  <2>1. rows \in Seq(Entry) /\ rows # <<>> /\ snap \in Row
    BY <1>1, WalkSequences DEF Phases, SnapIsRecent
  <2>2. /\ matched \in Seq(Item)
        /\ Len(matched) <= Limit
    BY <1>1, WalkSequences DEF Phases
  <2> QED
    BY <2>1, <2>2, HeadOfSeq
<1>4. /\ Summary \in Item
      /\ Summary.id = rows[1].id
      /\ Summary.verified <=> snap.status # "quarantined" /\ rows[1].id \notin damaged
  BY <1>3 DEF Summary, Verified, Intact, Item, Entry
<1>5. Summary.verified => rows[1].id \notin known /\ rows[1].id \notin damaged
  BY <1>1, <1>4 DEF SnapIsRecent
<1>6. rows[1].id \in steady => Wanted(Summary)
  <2> SUFFICES ASSUME rows[1].id \in steady PROVE Wanted(Summary)
    OBVIOUS
  <2>1. CanShow(rows[1].id, filter, preds, damaged)
    BY <1>1 DEF SteadyCanShow
  <2>2. Summary.verified
    BY <1>1, <1>4, <2>1 DEF SnapIsRecent, CanShow
  <2> QED
    BY <1>4, <2>1, <2>2 DEF Wanted, CanShow
<1>7. /\ matched' = IF Wanted(Summary) THEN Append(matched, Summary) ELSE matched
      /\ rows' = IF Len(matched') > Limit THEN <<>> ELSE Tail(rows)
      /\ mode = "detail" => at' = "done"
      /\ mode = "walk" /\ rows' # <<>> => at' = "verify"
      /\ mode = "walk" /\ rows' = <<>> /\ Len(matched') <= Limit /\ more => at' = "list"
      /\ mode = "walk" /\ rows' = <<>> /\ ~(Len(matched') <= Limit /\ more) => at' = "page"
  BY DEF Files
<1> HIDE DEF Summary, Wanted
<1>8. \/ matched' = matched /\ rows[1].id \notin steady
      \/ /\ matched' \in Seq(Item)
         /\ Len(matched') = Len(matched) + 1
         /\ \A i \in 1..Len(matched) : matched'[i] = matched[i]
         /\ matched'[Len(matched')] = Summary
  <2>1. CASE Wanted(Summary)
    <3>1. matched' = Append(matched, Summary)
      BY <1>7, <2>1
    <3> QED
      BY <1>3, <1>4, <3>1
  <2>2. CASE ~Wanted(Summary)
    BY <1>6, <1>7, <2>2
  <2> QED
    BY <2>1, <2>2
<1>9. Len(matched') \in Nat
  BY <1>3, <1>8
<1>10. \/ Len(matched') > Limit /\ rows' = <<>>
       \/ /\ Len(matched') <= Limit
          /\ rows' \in Seq(Entry) /\ Len(rows') = Len(rows) - 1
          /\ \A i \in 1..Len(rows') : rows'[i] = rows[i + 1]
  <2>1. CASE Len(matched') > Limit
    BY <1>7, <2>1
  <2>2. CASE ~(Len(matched') > Limit)
    <3>1. rows' = Tail(rows) /\ Len(matched') <= Limit
      BY <1>7, <1>9, <2>2, ReadBounds
    <3> QED
      BY <1>3, <3>1
  <2> QED
    BY <2>1, <2>2
<1>11. mode = "detail" => rows' = <<>>
  <2> SUFFICES ASSUME mode = "detail" PROVE rows' = <<>>
    OBVIOUS
  <2>1. Len(rows) = 1
    BY <1>1 DEF Phases
  <2> QED
    BY <1>10, <2>1
<1> QED
  BY <1>1, <1>2, <1>3, <1>4, <1>5, <1>7, <1>8, <1>10, <1>11

(* Page appends the identifiers of the matched items, as many as the page  *)
(* holds; an item more leaves the cursor at the page's last one.           *)
LEMMA PageEffect ==
  ASSUME IInv, Page
  PROVE  \E k \in Nat :
         /\ UNCHANGED <<preds, damaged, changes, mode, filter, rows, more, snap, steady>>
         /\ at = "page" /\ mode = "walk" /\ rows = <<>>
         /\ matched' = <<>> /\ known' \subseteq Preds
         /\ k <= Len(matched) /\ (k = Len(matched) \/ k = Limit)
         /\ shown' \in Seq(Preds) /\ Len(shown') = Len(shown) + k
         /\ \A i \in 1..Len(shown) : shown'[i] = shown[i]
         /\ \A i \in 1..k : shown'[Len(shown) + i] = matched[i].id
         /\ \/ Len(matched) > Limit /\ k = Limit /\ at' = "paged" /\ after' = Position(matched[k].id)
            \/ Len(matched) <= Limit /\ k = Len(matched) /\ at' = "done" /\ after' = None
<1> DEFINE n == IF Len(matched) < Limit THEN Len(matched) ELSE Limit
           items == SubSeq(matched, 1, n)
<1>1. TypeOK /\ Phases /\ at = "page"
  BY DEF IInv, Page
<1>2. /\ UNCHANGED <<preds, damaged, changes, mode, filter, rows, more, snap, steady>>
      /\ matched' = <<>> /\ known' \subseteq Preds
      /\ shown' = shown \o Ids(items)
      /\ Len(matched) > Limit => at' = "paged" /\ after' = Position(Last(items).id)
      /\ ~(Len(matched) > Limit) => at' = "done" /\ after' = None
  BY DEF Page, ledger, Noticed, Quarantined
<1>3. mode = "walk" /\ rows = <<>>
  BY <1>1 DEF Phases, TypeOK
<1>4. /\ matched \in Seq(Item) /\ Len(matched) \in Nat
      /\ shown \in Seq(Preds) /\ Len(shown) \in Nat
  BY <1>1, WalkSequences
<1>5. n \in Nat /\ n <= Len(matched) /\ (n = Len(matched) \/ n = Limit)
  BY <1>4, ReadBounds
<1>6. Len(matched) > Limit => n = Limit /\ n >= 1
  BY <1>4, ReadBounds
<1>7. Len(matched) <= Limit => n = Len(matched)
  BY <1>4, ReadBounds
<1> HIDE DEF n
<1>8. /\ items \in Seq(Item)
      /\ Len(items) = n /\ DOMAIN items = 1..n
      /\ \A i \in 1..n :
           /\ items[i] = matched[i]
           /\ items[i] \in Item
  BY <1>4, <1>5, PrefixOfSeq
<1> HIDE DEF items
<1>9. /\ Ids(items) \in Seq(Preds) /\ Len(Ids(items)) = n
      /\ \A i \in 1..n : Ids(items)[i] = matched[i].id
  <2>1. Ids(items) = [i \in 1..n |-> items[i].id]
    BY <1>8 DEF Ids
  <2>2. \A i \in 1..n : items[i].id \in Preds
    BY <1>8 DEF Item
  <2>3. Ids(items) \in [1..n -> Preds]
    BY <2>1, <2>2
  <2> QED
    BY <1>5, <1>8, <2>1, <2>3, FunctionIsSeq
<1>10. /\ shown' \in Seq(Preds) /\ Len(shown') = Len(shown) + n
       /\ \A i \in 1..Len(shown) : shown'[i] = shown[i]
       /\ \A i \in 1..n : shown'[Len(shown) + i] = matched[i].id
  BY <1>2, <1>4, <1>5, <1>9
<1>11. Len(matched) > Limit => Last(items) = matched[n]
  BY <1>5, <1>6, <1>8 DEF Last
<1>12. \/ Len(matched) > Limit /\ n = Limit /\ at' = "paged" /\ after' = Position(matched[n].id)
       \/ Len(matched) <= Limit /\ n = Len(matched) /\ at' = "done" /\ after' = None
  BY <1>2, <1>4, <1>6, <1>7, <1>11, ReadBounds
<1> QED
  BY <1>1, <1>2, <1>3, <1>5, <1>10, <1>12

(* Rows are never uncommitted, sort keys never change, and quarantine is   *)
(* final.                                                                  *)
OthersChange ==
    /\ UNCHANGED reader
    /\ preds' \in [Preds -> Row \cup {None}] /\ damaged' \subseteq Preds
    /\ changes' \in 0..MaxChanges
    /\ \A p \in Preds : preds[p] # None =>
         /\ preds'[p] # None /\ preds'[p].key = preds[p].key
         /\ preds[p].status = "quarantined" => preds'[p].status = "quarantined"
    /\ steady' = {p \in steady : CanShow(p, filter, preds', damaged')}

(* That is all that captures, resolutions, results, quarantines and damage *)
(* do to a walk.                                                           *)
LEMMA OthersEffect ==
  ASSUME TypeOK, NEW p \in Preds,
         \/ Resolve(p) \/ Ingest(p) \/ Quarantine(p) \/ Damage(p)
         \/ \E k \in Keys : Commit(p, k)
  PROVE  OthersChange
<1> DEFINE Fits(ps) ==
      /\ ps \in [Preds -> Row \cup {None}]
      /\ \A q \in Preds : preds[q] # None =>
           /\ ps[q] # None /\ ps[q].key = preds[q].key
           /\ preds[q].status = "quarantined" => ps[q].status = "quarantined"
<1>1. /\ preds \in [Preds -> Row \cup {None}] /\ damaged \subseteq Preds
      /\ changes \in 0..MaxChanges
  BY DEF TypeOK
<1>2. ASSUME NEW ps, NEW broken, Change(ps, broken), Fits(ps), broken \subseteq Preds
      PROVE  OthersChange
  <2>1. /\ preds' = ps /\ damaged' = broken /\ changes' = changes + 1 /\ changes < MaxChanges
        /\ steady' = {q \in steady : CanShow(q, filter, ps, broken)} /\ UNCHANGED reader
    BY <1>2 DEF Change
  <2>2. changes' \in 0..MaxChanges
    BY <1>1, <2>1, ReadBounds
  <2> QED
    BY <1>2, <2>1, <2>2 DEF OthersChange
<1>3. \A q \in Preds : preds[q] # None => preds[q] \in Row
  BY <1>1
<1>4. ASSUME NEW row \in Row, preds[p] = None \/ row.key = preds[p].key,
             preds[p] # None /\ preds[p].status = "quarantined" => row.status = "quarantined"
      PROVE  Fits([preds EXCEPT ![p] = row])
  <2>1. row # None
    BY NoneAssumption
  <2> HIDE DEF Row
  <2> QED
    BY <1>1, <1>4, <2>1
<1> HIDE DEF Fits
<1>5. CASE Resolve(p)
  <2>1. preds[p] \in Row /\ preds[p].status = "open"
    BY <1>3, <1>5 DEF Resolve
  <2>2. /\ [preds[p] EXCEPT !.status = "resolved"] \in Row
        /\ [preds[p] EXCEPT !.status = "resolved"].key = preds[p].key
        /\ [preds[p] EXCEPT !.status = "resolved"].status = "resolved"
    BY <2>1 DEF Row, Statuses
  <2>3. Fits([preds EXCEPT ![p] = [preds[p] EXCEPT !.status = "resolved"]])
    BY <1>4, <2>1, <2>2
  <2>4. Change([preds EXCEPT ![p] = [preds[p] EXCEPT !.status = "resolved"]], damaged)
    BY <1>1, <1>5 DEF Resolve
  <2> QED
    BY <1>1, <1>2, <2>3, <2>4
<1>6. CASE Ingest(p)
  <2>1. preds[p] \in Row
    BY <1>3, <1>6 DEF Ingest
  <2>2. /\ [preds[p] EXCEPT !.result = TRUE] \in Row
        /\ [preds[p] EXCEPT !.result = TRUE].key = preds[p].key
        /\ [preds[p] EXCEPT !.result = TRUE].status = preds[p].status
    BY <2>1 DEF Row
  <2>3. Fits([preds EXCEPT ![p] = [preds[p] EXCEPT !.result = TRUE]])
    BY <1>4, <2>1, <2>2
  <2>4. Change([preds EXCEPT ![p] = [preds[p] EXCEPT !.result = TRUE]], damaged)
    BY <1>1, <1>6 DEF Ingest
  <2> QED
    BY <1>1, <1>2, <2>3, <2>4
<1>7. CASE Quarantine(p)
  <2>1. preds[p] \in Row
    BY <1>3, <1>7 DEF Quarantine
  <2>2. /\ [preds[p] EXCEPT !.status = "quarantined"] \in Row
        /\ [preds[p] EXCEPT !.status = "quarantined"].key = preds[p].key
        /\ [preds[p] EXCEPT !.status = "quarantined"].status = "quarantined"
    BY <2>1 DEF Row, Statuses
  <2>3. Fits([preds EXCEPT ![p] = [preds[p] EXCEPT !.status = "quarantined"]])
    BY <1>4, <2>1, <2>2
  <2>4. Change([preds EXCEPT ![p] = [preds[p] EXCEPT !.status = "quarantined"]], damaged)
    BY <1>1, <1>7 DEF Quarantine
  <2> QED
    BY <1>1, <1>2, <2>3, <2>4
<1>8. CASE Damage(p)
  <2>1. Change(preds, damaged \cup {p}) /\ Fits(preds)
    BY <1>1, <1>8 DEF Damage, Fits
  <2> QED
    BY <1>1, <1>2, <2>1
<1>9. ASSUME NEW k \in Keys, Commit(p, k) PROVE OthersChange
  <2> DEFINE row == [key |-> k, status |-> "open", result |-> FALSE]
  <2>1. row \in Row /\ preds[p] = None /\ Change([preds EXCEPT ![p] = row], damaged)
    BY <1>9 DEF Commit, Row, Statuses
  <2> HIDE DEF row
  <2>2. Fits([preds EXCEPT ![p] = row])
    BY <1>4, <2>1
  <2> QED
    BY <1>1, <1>2, <2>1, <2>2
<1> QED
  BY <1>5, <1>6, <1>7, <1>8, <1>9

----------------------------------------------------------------------------
(* Every step keeps the invariant. *)

(* List reads the next rows below the cursor. *)
LEMMA ListStep == IInv /\ List => IInv'
<1> SUFFICES ASSUME IInv, List PROVE IInv'
  OBVIOUS
<1>1. /\ TypeOK /\ ListedIsCommitted /\ Phases /\ SnapIsRecent /\ Sorted
      /\ AboveCursor /\ SteadyCanShow /\ SteadyIsCovered
  BY DEF IInv
<1>2. /\ UNCHANGED <<preds, damaged, changes, mode, filter, snap, matched, shown, steady>>
      /\ at = "list" /\ mode = "walk" /\ rows = <<>> /\ known' \subseteq Preds
  BY ListEffect
<1>3. /\ rows' \in Seq(Entry) /\ Len(rows') <= Batch
      /\ \A i \in DOMAIN rows' :
           rows'[i].id \in CommittedPreds /\ Under(preds, rows'[i].id, after)
      /\ \A i, j \in DOMAIN rows' : i < j => Before(preds, rows'[i].id, rows'[j].id)
  BY ListEffect
<1>4. \A p \in Preds : Eligible(p, filter, preds) /\ Under(preds, p, after) =>
        \/ \E i \in DOMAIN rows' : rows'[i].id = p
        \/ rows' # <<>> /\ more' /\ Before(preds, rows'[Len(rows')].id, p)
  BY ListEffect
<1>5. /\ rows' = <<>> => at' = "page" /\ after' = after
      /\ rows' # <<>> => /\ at' = "verify" /\ after' = Position(rows'[Len(rows')].id)
                         /\ Len(rows') \in DOMAIN rows'
                         /\ \A i \in DOMAIN rows' : i = Len(rows') \/ i < Len(rows')
  BY <1>3, ListEffect
<1>6. /\ \A i \in DOMAIN shown : shown[i] \in CommittedPreds
      /\ \A i \in DOMAIN matched : matched[i].id \in CommittedPreds
  BY ListedPreds
<1>7. TypeOK'
  <2>1. after' \in Place
    BY <1>1, <1>3, <1>5, Positions DEF TypeOK
  <2>2. at' \in {"page", "verify"}
    BY <1>5
  <2> QED
    BY <1>1, <1>2, <1>3, <2>1, <2>2 DEF TypeOK, Entry
<1>8. ListedIsCommitted'
  BY <1>1, <1>2, <1>3 DEF ListedIsCommitted, CommittedPreds
<1>9. Phases' /\ SnapIsRecent'
  BY <1>1, <1>2, <1>5 DEF Phases, SnapIsRecent
<1>10. Sorted'
  <2>1. /\ \A i \in DOMAIN shown, j \in DOMAIN rows' : Before(preds, shown[i], rows'[j].id)
        /\ \A i \in DOMAIN matched, j \in DOMAIN rows' :
             Before(preds, matched[i].id, rows'[j].id)
    <3>1. /\ \A i \in DOMAIN shown : ~Under(preds, shown[i], after)
          /\ \A i \in DOMAIN matched : ~Under(preds, matched[i].id, after)
          /\ after \in Place
      BY <1>1, <1>2 DEF AboveCursor, TypeOK
    <3> QED
      BY <1>1, <1>3, <1>6, <3>1, Positions
  <2> QED
    BY <1>1, <1>2, <1>3, <2>1 DEF Sorted
<1>11. AboveCursor'
  <2> SUFFICES ASSUME rows' # <<>> PROVE AboveCursor'
    BY <1>5 DEF AboveCursor
  <2> DEFINE last == rows'[Len(rows')].id
  <2>1. last \in CommittedPreds /\ after' = Position(last)
    BY <1>3, <1>5
  <2>2. /\ \A i \in DOMAIN shown : Before(preds, shown[i], last)
        /\ \A i \in DOMAIN matched : Before(preds, matched[i].id, last)
        /\ \A i \in DOMAIN rows' : rows'[i].id = last \/ Before(preds, rows'[i].id, last)
    BY <1>2, <1>3, <1>5, <1>10 DEF Sorted
  <2> HIDE DEF last
  <2>3. /\ \A i \in DOMAIN shown : ~Under(preds, shown[i], after')
        /\ \A i \in DOMAIN matched : ~Under(preds, matched[i].id, after')
        /\ \A i \in DOMAIN rows' : ~Under(preds, rows'[i].id, after')
    BY <1>1, <1>3, <1>6, <2>1, <2>2, Positions
  <2> QED
    BY <1>2, <2>3 DEF AboveCursor
<1>12. SteadyCanShow'
  BY <1>1, <1>2 DEF SteadyCanShow
<1>13. SteadyIsCovered'
  <2> SUFFICES ASSUME NEW p \in steady PROVE Covered(p)'
    BY <1>2 DEF SteadyIsCovered
  <2>1. p \in Preds /\ Eligible(p, filter, preds) /\ p \in CommittedPreds
    BY <1>1 DEF SteadyCanShow, CanShow, Eligible, TypeOK, CommittedPreds
  <2>2. \/ \E i \in DOMAIN shown : shown[i] = p
        \/ \E i \in DOMAIN matched : matched[i].id = p
        \/ Under(preds, p, after)
    BY <1>1, <1>2 DEF SteadyIsCovered, Covered
  <2>3. CASE Under(preds, p, after)
    <3>1. CASE \E i \in DOMAIN rows' : rows'[i].id = p
      BY <3>1 DEF Covered
    <3>2. CASE rows' # <<>> /\ more' /\ Before(preds, rows'[Len(rows')].id, p)
      <4>1. at' = "verify" /\ Under(preds, p, after')
        BY <1>1, <1>3, <1>5, <2>1, <3>2, Positions
      <4> QED
        BY <1>2, <3>2, <4>1 DEF Covered
    <3> QED
      BY <1>4, <2>1, <2>3, <3>1, <3>2
  <2> QED
    BY <1>2, <2>2, <2>3 DEF Covered
<1> QED
  BY <1>7, <1>8, <1>9, <1>10, <1>11, <1>12, <1>13 DEF IInv

(* Snapshot reads the head of the rows again. *)
LEMMA SnapshotStep == IInv /\ Snapshot => IInv'
<1> SUFFICES ASSUME IInv, Snapshot PROVE IInv'
  OBVIOUS
<1>1. /\ TypeOK /\ ListedIsCommitted /\ Phases /\ Sorted
      /\ AboveCursor /\ SteadyCanShow /\ SteadyIsCovered
  BY DEF IInv
<1>2. /\ UNCHANGED <<preds, damaged, changes, mode, filter, after, rows, more, matched,
                     shown, steady>>
      /\ at = "verify" /\ at' = "files" /\ known' = Quarantined(preds)
      /\ snap' = preds[Head(rows).id]
  BY DEF Snapshot, ledger, Noticed
<1>3. /\ rows \in Seq(Entry) /\ rows # <<>>
      /\ Head(rows) = rows[1] /\ rows[1] \in Entry /\ 1 \in DOMAIN rows
  <2>1. rows \in Seq(Entry) /\ rows # <<>>
    BY <1>1, <1>2, WalkSequences DEF Phases
  <2> QED
    BY <2>1, HeadOfSeq
<1>4. snap' = preds[rows[1].id] /\ snap' \in Row /\ rows[1].id \in Preds
  BY <1>1, <1>2, <1>3 DEF TypeOK, ListedIsCommitted, Entry
<1>5. known' \subseteq Preds
  BY <1>2 DEF Quarantined
<1>6. TypeOK'
  BY <1>1, <1>2, <1>4, <1>5 DEF TypeOK
<1>7. ListedIsCommitted' /\ Phases'
  BY <1>1, <1>2 DEF ListedIsCommitted, Phases
<1>8. SnapIsRecent'
  BY <1>2, <1>4 DEF SnapIsRecent, Quarantined
<1>9. Sorted' /\ AboveCursor'
  BY <1>1, <1>2 DEF Sorted, AboveCursor
<1>10. SteadyCanShow' /\ SteadyIsCovered'
  BY <1>1, <1>2 DEF SteadyCanShow, SteadyIsCovered, Covered
<1> QED
  BY <1>6, <1>7, <1>8, <1>9, <1>10 DEF IInv

(* Files moves the head of the rows to the items of the page, or drops it. *)
LEMMA FilesStep == IInv /\ Files => IInv'
<1> SUFFICES ASSUME IInv, Files PROVE IInv'
  OBVIOUS
<1>1. /\ TypeOK /\ ListedIsCommitted /\ Phases /\ SnapIsRecent /\ Sorted
      /\ AboveCursor /\ SteadyCanShow /\ SteadyIsCovered
  BY DEF IInv
<1>2. /\ UNCHANGED <<preds, damaged, changes, mode, filter, after, more, shown, steady>>
      /\ at = "files" /\ snap' = None /\ known' \subseteq Preds
      /\ Len(rows) \in Nat \ {0} /\ Len(matched) <= Limit
  BY FilesEffect
<1>3. \/ matched' = matched /\ rows[1].id \notin steady
      \/ /\ matched' \in Seq(Item)
         /\ Len(matched') = Len(matched) + 1
         /\ \A i \in 1..Len(matched) : matched'[i] = matched[i]
         /\ matched'[Len(matched')].id = rows[1].id
  BY FilesEffect
<1>4. \/ Len(matched') > Limit /\ rows' = <<>>
      \/ /\ Len(matched') <= Limit
         /\ rows' \in Seq(Entry) /\ Len(rows') = Len(rows) - 1
         /\ \A i \in 1..Len(rows') : rows'[i] = rows[i + 1]
  BY FilesEffect
<1>5. /\ mode = "detail" => at' = "done" /\ rows' = <<>>
      /\ mode = "walk" /\ rows' # <<>> => at' = "verify"
      /\ mode = "walk" /\ rows' = <<>> /\ Len(matched') <= Limit /\ more => at' = "list"
      /\ mode = "walk" /\ rows' = <<>> /\ ~(Len(matched') <= Limit /\ more) => at' = "page"
  BY FilesEffect
<1>6. /\ Len(matched) \in Nat
      /\ matched \in Seq(Item)
      /\ rows \in Seq(Entry) /\ Len(rows) <= Batch
      /\ mode \in {"walk", "detail"} /\ 1 \in DOMAIN rows
  BY <1>1, <1>2, WalkSequences DEF TypeOK
<1>7. /\ Len(matched') \in Nat
      /\ matched' \in Seq(Item)
      /\ Len(matched') = Len(matched) \/ Len(matched') = Len(matched) + 1
  BY <1>3, <1>6
<1>8. /\ rows' \in Seq(Entry) /\ Len(rows') \in Nat
      /\ Len(rows') <= Batch
      /\ rows' # <<>> => Len(matched') <= Limit
  <2>1. CASE rows' = <<>>
    <3>1. Len(rows') = 0
      BY <2>1
    <3> QED
      BY <2>1, <3>1, ReadBounds
  <2>2. CASE Len(matched') <= Limit /\ rows' \in Seq(Entry) /\ Len(rows') = Len(rows) - 1
    <3>1. Len(rows) - 1 \in Nat /\ Len(rows) - 1 <= Batch
      BY <1>2, <1>6, ReadBounds
    <3> QED
      BY <2>2, <3>1
  <2> QED
    BY <1>4, <2>1, <2>2
<1>9. \A i \in DOMAIN matched' :
        \/ i \in DOMAIN matched /\ matched'[i] = matched[i]
        \/ /\ i = Len(matched) + 1 /\ i = Len(matched') /\ matched'[i].id = rows[1].id
  BY <1>3, <1>6, <1>7
<1>10. \A i \in DOMAIN rows' : i + 1 \in DOMAIN rows /\ i + 1 > 1 /\ rows'[i] = rows[i + 1]
  BY <1>2, <1>4, <1>6, <1>8
<1>11. TypeOK'
  <2>1. at' \in {"verify", "list", "page", "done"}
    BY <1>5, <1>6
  <2>2. Len(matched') <= Limit + 1
    BY <1>2, <1>6, <1>7, ReadBounds
  <2> QED
    BY <1>1, <1>2, <1>7, <1>8, <2>1, <2>2 DEF TypeOK, Item, Entry
<1>12. ListedIsCommitted'
  BY <1>1, <1>2, <1>6, <1>9, <1>10 DEF ListedIsCommitted
<1>13. Phases'
  <2>1. mode = "detail" => Len(matched') <= Limit
    <3>1. mode = "detail" => Len(matched) = 0
      BY <1>1, <1>2 DEF Phases
    <3> QED
      BY <1>7, <3>1, ReadBounds
  <2>2. at' \in {"verify", "files"} <=> rows' # <<>>
    BY <1>5, <1>6
  <2>3. at' \in {"list", "verify", "files"} => Len(matched') <= Limit
    BY <1>5, <1>6, <1>8
  <2>4. mode = "detail" => shown = <<>> /\ steady = {}
    BY <1>1 DEF Phases
  <2>5. ~(at' \in {"paged", "idle"} \/ (at' = "done" /\ mode' = "walk"))
    BY <1>2, <1>5, <1>6
  <2> QED
    BY <1>2, <1>5, <2>2, <2>3, <2>4, <2>5 DEF Phases
<1>14. SnapIsRecent'
  BY <1>5, <1>6 DEF SnapIsRecent
<1>15. Sorted'
  <2>1. \A i, j \in DOMAIN matched' : i < j => Before(preds, matched'[i].id, matched'[j].id)
    BY <1>1, <1>6, <1>7, <1>9 DEF Sorted
  <2>2. \A i, j \in DOMAIN rows' : i < j => Before(preds, rows'[i].id, rows'[j].id)
    BY <1>1, <1>6, <1>8, <1>10 DEF Sorted
  <2>3. \A i \in DOMAIN shown, j \in DOMAIN matched' : Before(preds, shown[i], matched'[j].id)
    BY <1>1, <1>6, <1>9 DEF Sorted
  <2>4. \A i \in DOMAIN shown, j \in DOMAIN rows' : Before(preds, shown[i], rows'[j].id)
    BY <1>1, <1>10 DEF Sorted
  <2>5. \A i \in DOMAIN matched', j \in DOMAIN rows' :
          Before(preds, matched'[i].id, rows'[j].id)
    BY <1>1, <1>6, <1>9, <1>10 DEF Sorted
  <2> QED
    BY <1>1, <1>2, <2>1, <2>2, <2>3, <2>4, <2>5 DEF Sorted
<1>16. AboveCursor'
  <2> SUFFICES ASSUME mode = "walk" PROVE AboveCursor'
    BY <1>2 DEF AboveCursor
  <2>1. /\ \A i \in DOMAIN shown : ~Under(preds, shown[i], after)
        /\ \A i \in DOMAIN matched : ~Under(preds, matched[i].id, after)
        /\ \A i \in DOMAIN rows : ~Under(preds, rows[i].id, after)
    BY <1>1, <1>2 DEF AboveCursor
  <2>2. \A i \in DOMAIN matched' : ~Under(preds, matched'[i].id, after)
    BY <1>6, <1>9, <2>1
  <2>3. \A i \in DOMAIN rows' : ~Under(preds, rows'[i].id, after)
    BY <1>10, <2>1
  <2> QED
    BY <1>2, <2>1, <2>2, <2>3 DEF AboveCursor
<1>17. SteadyCanShow'
  BY <1>1, <1>2 DEF SteadyCanShow
<1>18. SteadyIsCovered'
  <2> SUFFICES ASSUME NEW p \in steady PROVE Covered(p)'
    BY <1>2 DEF SteadyIsCovered
  <2>1. p \in CommittedPreds /\ mode = "walk"
    BY <1>1 DEF SteadyCanShow, CanShow, Eligible, TypeOK, CommittedPreds, Phases
  <2>2. \/ \E i \in DOMAIN shown : shown[i] = p
        \/ \E i \in DOMAIN matched : matched[i].id = p
        \/ \E i \in DOMAIN rows : rows[i].id = p
        \/ more /\ Under(preds, p, after)
    BY <1>1, <1>2 DEF SteadyIsCovered, Covered
  <2>3. ASSUME Len(matched') > Limit, Before(preds, rows[1].id, p)
        PROVE  Covered(p)'
    <3>1. at' = "page"
      BY <1>4, <1>5, <1>7, <2>1, <2>3, ReadBounds
    <3>2. matched'[Len(matched')].id = rows[1].id
      BY <1>2, <1>3, <1>6, <2>3, ReadBounds
    <3> QED
      BY <1>2, <2>3, <3>1, <3>2 DEF Covered
  <2>4. CASE \E i \in DOMAIN shown : shown[i] = p
    BY <1>2, <2>4 DEF Covered
  <2>5. CASE \E i \in DOMAIN matched : matched[i].id = p
    <3>1. PICK i \in DOMAIN matched : matched[i].id = p
      BY <2>5
    <3>2. i \in DOMAIN matched' /\ matched'[i] = matched[i]
      BY <1>3, <1>6, <1>7, <3>1
    <3> QED
      BY <3>1, <3>2 DEF Covered
  <2>6. CASE rows[1].id = p
    <3>1. Len(matched') \in DOMAIN matched' /\ matched'[Len(matched')].id = p
      BY <1>3, <1>6, <1>7, <2>6
    <3> QED
      BY <3>1 DEF Covered
  <2>7. ASSUME NEW i \in DOMAIN rows, rows[i].id = p, i # 1 PROVE Covered(p)'
    <3>1. CASE Len(matched') > Limit
      <4>1. Before(preds, rows[1].id, p)
        BY <1>1, <1>6, <2>7 DEF Sorted
      <4> QED
        BY <2>3, <3>1, <4>1
    <3>2. CASE ~(Len(matched') > Limit)
      <4>1. i - 1 \in 1..Len(rows') /\ rows'[i - 1] = rows[(i - 1) + 1] /\ (i - 1) + 1 = i
        <5>1. /\ Len(rows') = Len(rows) - 1
              /\ \A j \in 1..Len(rows') : rows'[j] = rows[j + 1]
          BY <1>4, <3>2
        <5>2. i \in 1..Len(rows)
          BY <1>6
        <5>3. i - 1 \in 1..(Len(rows) - 1) /\ (i - 1) + 1 = i
          BY <1>2, <2>7, <5>2
        <5> QED
          BY <5>1, <5>3
      <4> QED
        BY <1>8, <2>7, <4>1 DEF Covered
    <3> QED
      BY <3>1, <3>2
  <2>8. CASE more /\ Under(preds, p, after)
    <3>1. CASE Len(matched') > Limit
      <4>1. ~Under(preds, rows[1].id, after) /\ after \in Place /\ rows[1].id \in CommittedPreds
        BY <1>1, <1>2, <1>6, <2>1, ListedPreds DEF AboveCursor, TypeOK
      <4> QED
        BY <1>1, <2>1, <2>3, <2>8, <3>1, <4>1, Positions
    <3>2. CASE ~(Len(matched') > Limit)
      <4>1. at' \in {"verify", "list"}
        BY <1>5, <1>7, <2>1, <2>8, <3>2, ReadBounds
      <4> QED
        BY <1>2, <2>8, <4>1 DEF Covered
    <3> QED
      BY <3>1, <3>2
  <2> QED
    BY <2>2, <2>4, <2>5, <2>6, <2>7, <2>8
<1> QED
  BY <1>11, <1>12, <1>13, <1>14, <1>15, <1>16, <1>17, <1>18 DEF IInv

(* Page moves the items of the page behind those shown before. *)
LEMMA PageStep == IInv /\ Page => IInv'
<1> SUFFICES ASSUME IInv, Page PROVE IInv'
  OBVIOUS
<1>1. /\ TypeOK /\ ListedIsCommitted /\ Phases /\ SnapIsRecent /\ Sorted
      /\ AboveCursor /\ SteadyCanShow /\ SteadyIsCovered
  BY DEF IInv
<1>2. PICK k \in Nat :
         /\ UNCHANGED <<preds, damaged, changes, mode, filter, rows, more, snap, steady>>
         /\ at = "page" /\ mode = "walk" /\ rows = <<>>
         /\ matched' = <<>> /\ known' \subseteq Preds
         /\ k <= Len(matched) /\ (k = Len(matched) \/ k = Limit)
         /\ shown' \in Seq(Preds) /\ Len(shown') = Len(shown) + k
         /\ \A i \in 1..Len(shown) : shown'[i] = shown[i]
         /\ \A i \in 1..k : shown'[Len(shown) + i] = matched[i].id
         /\ \/ Len(matched) > Limit /\ k = Limit /\ at' = "paged" /\ after' = Position(matched[k].id)
            \/ Len(matched) <= Limit /\ k = Len(matched) /\ at' = "done" /\ after' = None
  BY PageEffect
<1>3. /\ shown \in Seq(Preds) /\ Len(shown) \in Nat
      /\ matched \in Seq(Item) /\ Len(matched) \in Nat
  BY <1>1, WalkSequences
<1>4. /\ \A i \in DOMAIN shown : shown[i] \in CommittedPreds
      /\ \A i \in DOMAIN matched : matched[i].id \in CommittedPreds
  BY ListedPreds
<1>5. \A i \in DOMAIN shown' :
        \/ i \in DOMAIN shown /\ shown'[i] = shown[i]
        \/ /\ i - Len(shown) \in DOMAIN matched /\ i - Len(shown) <= k
           /\ shown'[i] = matched[i - Len(shown)].id
  <2> SUFFICES ASSUME NEW i \in DOMAIN shown'
               PROVE  \/ i \in DOMAIN shown /\ shown'[i] = shown[i]
                      \/ /\ i - Len(shown) \in DOMAIN matched /\ i - Len(shown) <= k
                         /\ shown'[i] = matched[i - Len(shown)].id
    OBVIOUS
  <2>1. i \in 1..(Len(shown) + k)
    BY <1>2
  <2>2. CASE i <= Len(shown)
    BY <1>2, <1>3, <2>1, <2>2
  <2>3. CASE ~(i <= Len(shown))
    <3>1. i - Len(shown) \in 1..k /\ Len(shown) + (i - Len(shown)) = i
      BY <1>2, <1>3, <2>1, <2>3
    <3>2. i - Len(shown) \in 1..Len(matched)
      BY <1>2, <1>3, <3>1
    <3>3. shown'[Len(shown) + (i - Len(shown))] = matched[i - Len(shown)].id
      BY <1>2, <3>1
    <3> QED
      BY <1>2, <1>3, <3>1, <3>2, <3>3
  <2> QED
    BY <2>2, <2>3
<1>6. Len(matched) > Limit => k \in DOMAIN matched /\ matched[k].id \in CommittedPreds
  <2> SUFFICES ASSUME Len(matched) > Limit
               PROVE  k \in DOMAIN matched /\ matched[k].id \in CommittedPreds
    OBVIOUS
  <2>1. k \in 1..Len(matched)
    BY <1>2, <1>3, ReadBounds
  <2> QED
    BY <1>3, <1>4, <2>1
<1>7. TypeOK'
  <2>1. after' \in Place
    BY <1>1, <1>2, <1>6, Positions DEF Place
  <2>2. at' \in {"paged", "done"} /\ Len(matched') <= Limit + 1
    BY <1>2, ReadBounds
  <2>3. matched' \in Seq(Item)
    BY <1>2
  <2> QED
    BY <1>1, <1>2, <2>1, <2>2, <2>3 DEF TypeOK, Item
<1>8. ListedIsCommitted'
  <2>1. \A i \in DOMAIN shown' : shown'[i] \in CommittedPreds
    BY <1>4, <1>5
  <2> QED
    BY <1>2, <2>1 DEF ListedIsCommitted, CommittedPreds
<1>9. Phases' /\ SnapIsRecent'
  BY <1>2 DEF Phases, SnapIsRecent
<1>10. Sorted'
  <2> SUFFICES ASSUME NEW i \in DOMAIN shown', NEW j \in DOMAIN shown', i < j
               PROVE  Before(preds, shown'[i], shown'[j])
    BY <1>2 DEF Sorted
  <2>1. i \in Nat /\ j \in Nat
    BY <1>2
  <2>2. CASE j \in DOMAIN shown /\ shown'[j] = shown[j]
    <3>1. i \in DOMAIN shown /\ shown'[i] = shown[i]
      <4>1. i \in 1..Len(shown)
        BY <1>2, <1>3, <2>1, <2>2
      <4> QED
        BY <1>2, <1>3, <4>1
    <3> QED
      BY <1>1, <2>2, <3>1 DEF Sorted
  <2>3. CASE j - Len(shown) \in DOMAIN matched /\ shown'[j] = matched[j - Len(shown)].id
    <3>1. CASE i \in DOMAIN shown /\ shown'[i] = shown[i]
      BY <1>1, <2>3, <3>1 DEF Sorted
    <3>2. CASE i - Len(shown) \in DOMAIN matched /\ shown'[i] = matched[i - Len(shown)].id
      <4>1. i - Len(shown) < j - Len(shown)
        BY <1>3, <2>1
      <4> QED
        BY <1>1, <2>3, <3>2, <4>1 DEF Sorted
    <3> QED
      BY <1>5, <3>1, <3>2
  <2> QED
    BY <1>5, <2>2, <2>3
<1>11. AboveCursor'
  <2> SUFFICES ASSUME Len(matched) > Limit, NEW i \in DOMAIN shown'
               PROVE  ~Under(preds, shown'[i], after')
    BY <1>2 DEF AboveCursor
  <2>1. /\ after' = Position(matched[k].id) /\ k \in DOMAIN matched
        /\ matched[k].id \in CommittedPreds
    BY <1>2, <1>3, <1>6, ReadBounds
  <2>2. shown'[i] \in CommittedPreds
    BY <1>4, <1>5
  <2>3. shown'[i] = matched[k].id \/ Before(preds, shown'[i], matched[k].id)
    <3>1. CASE i \in DOMAIN shown /\ shown'[i] = shown[i]
      BY <1>1, <2>1, <3>1 DEF Sorted
    <3>2. ASSUME i - Len(shown) \in DOMAIN matched, i - Len(shown) <= k,
                 shown'[i] = matched[i - Len(shown)].id
          PROVE  shown'[i] = matched[k].id \/ Before(preds, shown'[i], matched[k].id)
      <4>1. PICK j \in DOMAIN matched : j = i - Len(shown)
        BY <3>2
      <4>2. j \in Nat /\ (j = k \/ j < k)
        BY <1>2, <1>3, <3>2, <4>1
      <4> QED
        BY <1>1, <2>1, <3>2, <4>1, <4>2 DEF Sorted
    <3> QED
      BY <1>5, <3>1, <3>2
  <2> QED
    BY <1>1, <2>1, <2>2, <2>3, Positions
<1>12. SteadyCanShow'
  BY <1>1, <1>2 DEF SteadyCanShow
<1>13. SteadyIsCovered'
  <2> SUFFICES ASSUME NEW p \in steady PROVE Covered(p)'
    BY <1>2 DEF SteadyIsCovered
  <2>1. p \in CommittedPreds
    BY <1>1 DEF SteadyCanShow, CanShow, Eligible, TypeOK, CommittedPreds
  <2>2. \/ \E i \in DOMAIN shown : shown[i] = p
        \/ \E i \in DOMAIN matched : matched[i].id = p
        \/ Len(matched) > Limit /\ Before(preds, matched[Len(matched)].id, p)
    BY <1>1, <1>2 DEF SteadyIsCovered, Covered
  <2>3. ASSUME Len(matched) > Limit, Before(preds, matched[k].id, p)
        PROVE  Covered(p)'
    <3>1. at' = "paged" /\ after' = Position(matched[k].id) /\ matched[k].id \in CommittedPreds
      BY <1>2, <1>3, <1>6, <2>3, ReadBounds
    <3>2. Under(preds, p, after')
      BY <1>1, <2>1, <2>3, <3>1, Positions
    <3> QED
      BY <1>2, <3>1, <3>2 DEF Covered
  <2>4. CASE \E i \in DOMAIN shown : shown[i] = p
    <3>1. PICK i \in DOMAIN shown : shown[i] = p
      BY <2>4
    <3>2. i \in 1..Len(shown) /\ i \in 1..(Len(shown) + k)
      BY <1>2, <1>3
    <3>3. i \in DOMAIN shown' /\ shown'[i] = p
      BY <1>2, <3>1, <3>2
    <3> QED
      BY <3>3 DEF Covered
  <2>5. ASSUME NEW i \in DOMAIN matched, matched[i].id = p PROVE Covered(p)'
    <3>1. i \in 1..Len(matched)
      BY <1>3
    <3>2. CASE i <= k
      <4>1. i \in 1..k /\ Len(shown) + i \in 1..(Len(shown) + k)
        BY <1>2, <1>3, <3>1, <3>2
      <4>2. Len(shown) + i \in DOMAIN shown' /\ shown'[Len(shown) + i] = p
        BY <1>2, <2>5, <4>1
      <4> QED
        BY <4>2 DEF Covered
    <3>3. CASE ~(i <= k)
      <4>1. k < i /\ Len(matched) > Limit
        BY <1>2, <1>3, <3>1, <3>3, ReadBounds
      <4>2. Before(preds, matched[k].id, p)
        BY <1>1, <1>6, <2>5, <4>1 DEF Sorted
      <4> QED
        BY <2>3, <4>1, <4>2
    <3> QED
      BY <3>2, <3>3
  <2>6. CASE Len(matched) > Limit /\ Before(preds, matched[Len(matched)].id, p)
    <3>1. k < Len(matched) /\ Len(matched) \in 1..Len(matched)
      BY <1>2, <1>3, <2>6, ReadBounds
    <3>2. Len(matched) \in DOMAIN matched
      BY <1>3, <3>1
    <3>3. Before(preds, matched[k].id, matched[Len(matched)].id)
      BY <1>1, <1>6, <2>6, <3>1, <3>2 DEF Sorted
    <3>4. Before(preds, matched[k].id, p)
      BY <1>1, <1>4, <1>6, <2>1, <2>6, <3>2, <3>3, Positions
    <3> QED
      BY <2>3, <2>6, <3>4
  <2> QED
    BY <2>2, <2>4, <2>5, <2>6
<1> QED
  BY <1>7, <1>8, <1>9, <1>10, <1>11, <1>12, <1>13 DEF IInv

(* Begin starts a walk from the newest row: everything is still to come. *)
LEMMA BeginStep == \A f \in Filters : IInv /\ Begin(f) => IInv'
<1> SUFFICES ASSUME NEW f \in Filters, IInv, Begin(f) PROVE IInv'
  OBVIOUS
<1>1. /\ TypeOK /\ ListedIsCommitted /\ Phases /\ SnapIsRecent /\ Sorted
      /\ AboveCursor /\ SteadyCanShow /\ SteadyIsCovered
  BY DEF IInv
<1>2. /\ UNCHANGED <<preds, damaged, changes, rows, more, snap>>
      /\ at \in {"idle", "done"} /\ mode' = "walk" /\ at' = "list" /\ filter' = f
      /\ after' = None /\ matched' = <<>> /\ shown' = <<>> /\ known' \subseteq Preds
      /\ steady' = {p \in Preds : CanShow(p, f, preds, damaged)}
  BY DEF Begin, ledger, Noticed, Quarantined
<1>3. rows = <<>>
  BY <1>1, <1>2 DEF Phases
<1>4. TypeOK'
  <2>1. matched' \in Seq([id : Preds, verified : BOOLEAN, row : Row]) /\ Len(matched') <= Limit + 1
    BY <1>2, ReadBounds
  <2>2. shown' \in Seq(Preds) /\ steady' \subseteq Preds /\ after' \in Place
    BY <1>2 DEF Place
  <2> QED
    BY <1>1, <1>2, <2>1, <2>2 DEF TypeOK
<1>5. ListedIsCommitted' /\ Sorted' /\ AboveCursor'
  BY <1>2, <1>3 DEF ListedIsCommitted, Sorted, AboveCursor
<1>6. Phases' /\ SnapIsRecent'
  BY <1>2, <1>3, ReadBounds DEF Phases, SnapIsRecent
<1>7. SteadyCanShow'
  BY <1>2 DEF SteadyCanShow
<1>8. SteadyIsCovered'
  BY <1>2 DEF SteadyIsCovered, Covered, Under
<1> QED
  BY <1>4, <1>5, <1>6, <1>7, <1>8 DEF IInv

(* NextPage goes on below the cursor. *)
LEMMA NextPageStep == \A f \in Filters : IInv /\ NextPage(f) => IInv'
<1> SUFFICES ASSUME NEW f \in Filters, IInv, NextPage(f) PROVE IInv'
  OBVIOUS
<1>1. /\ TypeOK /\ ListedIsCommitted /\ Phases /\ SnapIsRecent /\ Sorted
      /\ AboveCursor /\ SteadyCanShow /\ SteadyIsCovered
  BY DEF IInv
<1>2. /\ UNCHANGED <<preds, damaged, changes, mode, filter, after, rows, more, snap, matched,
                     shown, steady>>
      /\ at = "paged" /\ at' = "list" /\ known' \subseteq Preds
  BY DEF NextPage, ledger, Noticed, Quarantined
<1>3. rows = <<>> /\ matched = <<>> /\ mode = "walk"
  BY <1>1, <1>2 DEF Phases, TypeOK
<1>4. TypeOK' /\ ListedIsCommitted'
  BY <1>1, <1>2 DEF TypeOK, ListedIsCommitted
<1>5. Phases' /\ SnapIsRecent'
  BY <1>2, <1>3, ReadBounds DEF Phases, SnapIsRecent
<1>6. Sorted' /\ AboveCursor'
  BY <1>1, <1>2, <1>3 DEF Sorted, AboveCursor
<1>7. SteadyCanShow' /\ SteadyIsCovered'
  BY <1>1, <1>2, <1>3 DEF SteadyCanShow, SteadyIsCovered, Covered
<1> QED
  BY <1>4, <1>5, <1>6, <1>7 DEF IInv

(* Detail lists the one row it was asked for. *)
LEMMA DetailStep == \A p \in Preds : IInv /\ Detail(p) => IInv'
<1> SUFFICES ASSUME NEW p \in Preds, IInv, Detail(p) PROVE IInv'
  OBVIOUS
<1>1. /\ TypeOK /\ ListedIsCommitted /\ Phases /\ SnapIsRecent /\ Sorted
      /\ AboveCursor /\ SteadyCanShow /\ SteadyIsCovered
  BY DEF IInv
<1>2. /\ UNCHANGED <<preds, damaged, changes, more, snap>>
      /\ preds[p] # None /\ mode' = "detail" /\ at' = "verify" /\ filter' = NoFilter
      /\ after' = None /\ matched' = <<>> /\ shown' = <<>> /\ steady' = {}
      /\ rows' = <<Listed(p)>> /\ known' \subseteq Preds
  BY DEF Detail, ledger, Noticed, Quarantined
<1>3. Listed(p) \in Entry /\ Listed(p).id = p
  BY <1>1, <1>2 DEF Listed, Entry, TypeOK
<1>4. /\ rows' \in Seq(Entry) /\ Len(rows') = 1 /\ rows' # <<>> /\ rows'[1] = Listed(p)
      /\ \A i \in DOMAIN rows' : i = 1
  BY <1>2, <1>3
<1>5. TypeOK'
  <2>1. matched' \in Seq([id : Preds, verified : BOOLEAN, row : Row]) /\ Len(matched') <= Limit + 1
    BY <1>2, ReadBounds
  <2>2. shown' \in Seq(Preds) /\ after' \in Place
    BY <1>2 DEF Place
  <2>3. Len(rows') <= Batch
    BY <1>4, ReadBounds
  <2> QED
    BY <1>1, <1>2, <1>4, <2>1, <2>2, <2>3 DEF TypeOK, Entry
<1>6. ListedIsCommitted' /\ Sorted' /\ AboveCursor'
  BY <1>2, <1>3, <1>4 DEF ListedIsCommitted, Sorted, AboveCursor
<1>7. Phases' /\ SnapIsRecent'
  BY <1>2, <1>4, ReadBounds DEF Phases, SnapIsRecent
<1>8. SteadyCanShow' /\ SteadyIsCovered'
  BY <1>2 DEF SteadyCanShow, SteadyIsCovered
<1> QED
  BY <1>5, <1>6, <1>7, <1>8 DEF IInv

(* What others change leaves the walk's order alone, and takes what it     *)
(* spoils out of what the walk must show.                                  *)
LEMMA OthersStep == IInv /\ OthersChange => IInv'
<1> SUFFICES ASSUME IInv, OthersChange PROVE IInv'
  OBVIOUS
<1>1. /\ TypeOK /\ ListedIsCommitted /\ Phases /\ SnapIsRecent /\ Sorted
      /\ AboveCursor /\ SteadyCanShow /\ SteadyIsCovered
  BY DEF IInv
<1>2. /\ UNCHANGED <<mode, at, filter, after, rows, more, snap, matched, shown, known>>
      /\ preds' \in [Preds -> Row \cup {None}] /\ damaged' \subseteq Preds
      /\ changes' \in 0..MaxChanges
      /\ steady' \subseteq steady
      /\ \A p \in steady' : CanShow(p, filter, preds', damaged')
  BY DEF OthersChange, reader
<1>3. \A p \in CommittedPreds :
        /\ preds'[p] # None /\ preds'[p].key = preds[p].key
        /\ preds[p].status = "quarantined" => preds'[p].status = "quarantined"
  BY DEF OthersChange, CommittedPreds
<1>4. /\ \A p, q \in CommittedPreds : Before(preds, p, q) => Before(preds', p, q)
      /\ \A p \in CommittedPreds : \A c : Under(preds, p, c) <=> Under(preds', p, c)
  BY <1>3 DEF Before, Under
<1>5. /\ \A i \in DOMAIN shown : shown[i] \in CommittedPreds
      /\ \A i \in DOMAIN matched : matched[i].id \in CommittedPreds
      /\ \A i \in DOMAIN rows : rows[i].id \in CommittedPreds
  BY ListedPreds
<1>6. TypeOK'
  BY <1>1, <1>2 DEF TypeOK
<1>7. ListedIsCommitted' /\ Phases'
  BY <1>1, <1>2, <1>3, <1>5 DEF ListedIsCommitted, Phases
<1>8. SnapIsRecent'
  <2>1. at = "files" => rows[1].id \in CommittedPreds
    <3>1. at = "files" => rows # <<>>
      BY <1>1 DEF Phases
    <3> QED
      BY <1>1, <1>5, <3>1, WalkSequences, HeadOfSeq
  <2> QED
    BY <1>1, <1>2, <1>3, <2>1 DEF SnapIsRecent
<1>9. Sorted' /\ AboveCursor'
  BY <1>1, <1>2, <1>4, <1>5 DEF Sorted, AboveCursor
<1>10. SteadyCanShow'
  BY <1>2 DEF SteadyCanShow
<1>11. SteadyIsCovered'
  <2> SUFFICES ASSUME NEW p \in steady' PROVE Covered(p)'
    BY DEF SteadyIsCovered
  <2>1. p \in CommittedPreds /\ Covered(p)
    BY <1>1, <1>2
    DEF SteadyCanShow, SteadyIsCovered, CanShow, Eligible, TypeOK, CommittedPreds
  <2>2. Len(matched) > Limit => matched[Len(matched)].id \in CommittedPreds
    <3> SUFFICES ASSUME Len(matched) > Limit PROVE Len(matched) \in DOMAIN matched
      BY <1>5
    <3>1. Len(matched) \in 1..Len(matched)
      BY <1>1, WalkSequences, ReadBounds
    <3> QED
      BY <1>1, <3>1, WalkSequences
  <2> QED
    BY <1>2, <1>4, <2>1, <2>2 DEF Covered
<1> QED
  BY <1>6, <1>7, <1>8, <1>9, <1>10, <1>11 DEF IInv

(* Nothing has been listed, matched or shown to begin with. *)
LEMMA InitIInv == Init => IInv
<1> SUFFICES ASSUME Init PROVE IInv
  OBVIOUS
<1>1. preds \in [Preds -> Row \cup {None}]
  BY DEF Init, Row, Statuses
<1>2. rows = <<>> /\ matched = <<>> /\ shown = <<>> /\ steady = {} /\ at = "idle"
  BY DEF Init
<1>3. TypeOK
  BY <1>1, ReadBounds DEF Init, TypeOK, Place
<1>4. ListedIsCommitted /\ Sorted /\ AboveCursor
  BY <1>2 DEF ListedIsCommitted, Sorted, AboveCursor
<1>5. Phases /\ SnapIsRecent
  BY DEF Init, Phases, SnapIsRecent
<1>6. SteadyCanShow /\ SteadyIsCovered
  BY <1>2 DEF SteadyCanShow, SteadyIsCovered
<1> QED
  BY <1>3, <1>4, <1>5, <1>6 DEF IInv

(* IInv is an inductive invariant of the read service. *)
THEOREM IInvariant == Spec => []IInv
<1>1. IInv /\ [Next]_vars => IInv'
  <2> SUFFICES ASSUME IInv, [Next]_vars PROVE IInv'
    OBVIOUS
  <2>1. CASE List \/ Snapshot \/ Files \/ Page
    BY <2>1, ListStep, SnapshotStep, FilesStep, PageStep
  <2>2. CASE \E f \in Filters : Begin(f) \/ NextPage(f)
    BY <2>2, BeginStep, NextPageStep
  <2>3. CASE \E p \in Preds : Detail(p)
    BY <2>3, DetailStep
  <2>4. ASSUME NEW p \in Preds,
               \/ Resolve(p) \/ Ingest(p) \/ Quarantine(p) \/ Damage(p)
               \/ \E k \in Keys : Commit(p, k)
        PROVE  IInv'
    <3>1. OthersChange
      BY <2>4, OthersEffect DEF IInv
    <3> QED
      BY <3>1, OthersStep
  <2>5. CASE UNCHANGED vars
    BY <2>5 DEF vars, ledger, IInv, TypeOK, ListedIsCommitted, Phases, SnapIsRecent, Sorted,
            AboveCursor, SteadyCanShow, SteadyIsCovered, Covered
  <2> QED
    BY <2>1, <2>2, <2>3, <2>4, <2>5 DEF Next
<1> QED
  BY InitIInv, <1>1, PTL DEF Spec

(* The read service keeps its types; no query returns more than its batch  *)
(* and no page holds more than one item over its limit.                    *)
THEOREM TypeCorrect == Spec => []TypeOK
<1>1. IInv => TypeOK
  BY DEF IInv
<1> QED
  BY IInvariant, <1>1, PTL

(* A walk shows every prediction it could show all along exactly once.     *)
THEOREM WalksAreExact == Spec => []WalkIsExact
<1>1. IInv => WalkIsExact
  <2> SUFFICES ASSUME IInv PROVE WalkIsExact
    OBVIOUS
  <2>1. TypeOK /\ Phases /\ Sorted /\ SteadyIsCovered
    BY DEF IInv
  <2>2. ASSUME NEW i \in DOMAIN shown, NEW j \in DOMAIN shown, i < j, shown[i] = shown[j]
        PROVE  FALSE
    <3>1. shown[i] \in CommittedPreds /\ Before(preds, shown[i], shown[i])
      BY <2>1, <2>2, ListedPreds DEF Sorted
    <3> QED
      BY <2>1, <3>1, OrderIsTotal DEF Newer, Before
  <2>3. \A i, j \in DOMAIN shown : shown[i] = shown[j] => i = j
    <3>1. \A i, j \in DOMAIN shown : i = j \/ i < j \/ j < i
      BY <2>1, WalkSequences
    <3> QED
      BY <2>2, <3>1
  <2>4. ASSUME at = "done", mode = "walk", NEW p \in steady PROVE p \in Range(shown)
    <3>1. rows = <<>> /\ matched = <<>>
      BY <2>1, <2>4 DEF Phases
    <3>2. \E i \in DOMAIN shown : shown[i] = p
      BY <2>1, <2>4, <3>1 DEF SteadyIsCovered, Covered
    <3> QED
      BY <3>2 DEF Range
  <2> QED
    BY <2>3, <2>4 DEF WalkIsExact
<1> QED
  BY IInvariant, <1>1, PTL

(* The steps VerifiedIsCurrent allows. *)
VerifiesCurrent ==
    \A i \in DOMAIN matched' : i \notin DOMAIN matched /\ matched'[i].verified =>
        matched'[i].id \notin known

(* Nothing that was quarantined by the reader's previous step is shown as  *)
(* verified by the next.                                                   *)
THEOREM VerifiedRowsAreCurrent == Spec => VerifiedIsCurrent
<1>1. IInv /\ [Next]_vars => [VerifiesCurrent]_vars
  <2> SUFFICES ASSUME IInv, [Next]_vars PROVE [VerifiesCurrent]_vars
    OBVIOUS
  <2>1. CASE Files
    <3>1. /\ matched \in Seq(Item) /\ Len(matched) \in Nat
      BY WalkSequences DEF IInv
    <3>2. CASE matched' = matched
      BY <3>2 DEF VerifiesCurrent
    <3>3. CASE /\ matched' \in Seq(Item)
               /\ Len(matched') = Len(matched) + 1
               /\ matched'[Len(matched')].id = rows[1].id
               /\ matched'[Len(matched')].verified => rows[1].id \notin known
      <4>1. \A i \in DOMAIN matched' : i \notin DOMAIN matched => i = Len(matched')
        BY <3>1, <3>3
      <4> QED
        BY <3>3, <4>1 DEF VerifiesCurrent
    <3> QED
      BY <2>1, <3>2, <3>3, FilesEffect
  <2>2. CASE matched' = matched \/ matched' = <<>>
    BY <2>2 DEF VerifiesCurrent
  <2>3. CASE List \/ Snapshot \/ Page
    BY <2>2, <2>3 DEF List, Snapshot, Page
  <2>4. CASE \E f \in Filters : Begin(f) \/ NextPage(f)
    BY <2>2, <2>4 DEF Begin, NextPage
  <2>5. CASE \E p \in Preds : Detail(p)
    BY <2>2, <2>5 DEF Detail
  <2>6. ASSUME NEW p \in Preds,
               \/ Resolve(p) \/ Ingest(p) \/ Quarantine(p) \/ Damage(p)
               \/ \E k \in Keys : Commit(p, k)
        PROVE  [VerifiesCurrent]_vars
    <3>1. OthersChange
      BY <2>6, OthersEffect DEF IInv
    <3> QED
      BY <2>2, <3>1 DEF OthersChange, reader
  <2>7. CASE UNCHANGED vars
    BY <2>7
  <2> QED
    BY <2>1, <2>3, <2>4, <2>5, <2>6, <2>7 DEF Next
<1>2. Spec => [][VerifiesCurrent]_vars
  BY IInvariant, <1>1, PTL DEF Spec
<1> QED
  BY <1>2 DEF VerifiedIsCurrent, VerifiesCurrent
==============================================================================

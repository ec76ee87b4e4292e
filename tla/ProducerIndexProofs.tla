------------------------ MODULE ProducerIndexProofs -------------------------
(***************************************************************************)
(* Proofs about Producer, continued: the index of an implicit producer     *)
(* grows, is published and taken back, and blocks are requisitioned; then  *)
(* the invariant of the list, and what holds of both kinds of sub-queue:   *)
(* however often the index has grown since a consumer loaded it, it finds  *)
(* the block of its item, and a block has one owner.                       *)
(***************************************************************************)
EXTENDS ProducerListProofs

-----------------------------------------------------------------------------
(* The index grows.                                                        *)

LEMMA FunSeq ==
  ASSUME NEW S, NEW n \in Nat, NEW s \in [1..n -> S]
  PROVE  s \in Seq(S) /\ Len(s) = n
OBVIOUS

Joins(S, s, t, n) ==
  /\ s \o t \in Seq(S) /\ Len(s \o t) = n + n
  /\ \A i \in Nat : 1 <= i /\ i <= n => (s \o t)[i] = s[i]
  /\ \A i \in Nat : n < i /\ i <= n + n => (s \o t)[i] = t[i - n]

LEMMA JoinSeq ==
  ASSUME NEW S, NEW n \in Nat, NEW s \in Seq(S), NEW t \in Seq(S), Len(s) = n, Len(t) = n
  PROVE  Joins(S, s, t, n)
BY DEF Joins

(* The index has become twice as large: w is the number of the old one, z  *)
(* its size.                                                               *)
Doubled(w, z) ==
  /\ headers' \in Seq(Indices) /\ entries' \in Seq(Stored)
  /\ Newest' = w + 1 /\ Len(entries)' = z + z
  /\ \A v \in Nat : 1 <= v /\ v <= w =>
       /\ Places(v)' = Places(v) /\ TailOf(v)' = TailOf(v)
       /\ \A p : PointsTo(v, p)' = PointsTo(v, p)
  /\ Places(w + 1)' = z + z /\ TailOf(w + 1)' = z - 1
  /\ \A p \in Nat : p < z => PointsTo(w + 1, p)' = PointsTo(w, (TailOf(w) + (p + 1)) % z)
  /\ \A p \in Nat : z <= p /\ p < z + z => PointsTo(w + 1, p)' = p + 1
  /\ \A e \in Nat : 1 <= e /\ e <= z =>
       KeyOf(e)' = KeyOf(e) /\ ValueOf(e)' = ValueOf(e) /\ (Keyed(e)' <=> Keyed(e))
  /\ \A e \in Nat : z < e /\ e <= z + z => ~ Keyed(e)' /\ ValueOf(e)' = 0

LEMMA GrowHeaderDoubles ==
  ASSUME ListTyped, NEW w \in Nat, NEW z \in Nat \ {0}, w = Newest, z = Places(w), 1 <= w,
         I!GrowHeader
  PROVE  Doubled(w, z)
<1>1. PICK t \in Nat : t = TailOf(w)
  BY NewestIs
<1>2. PICK r : r = [i \in 1..z |-> [key |-> 1, value |-> 0]]
  OBVIOUS
<1>3. r \in Seq(Stored) /\ Len(r) = z
  <2>1. r \in [1..z -> Stored]
    BY <1>2 DEF Stored
  <2> QED
    BY <2>1, FunSeq
<1>4. entries \in Seq(Stored) /\ Len(entries) = z /\ headers \in Seq(Indices) /\ Len(headers) = w
  BY NewestIs DEF ListTyped, Newest
<1>5. entries' = entries \o r
  <2>1. entries' = entries \o I!NewEntries(I!Size(I!header))
    BY DEF I!GrowHeader
  <2>2. I!Size(I!header) = z
    BY HeaderEntry
  <2> QED
    BY <1>2, <2>1, <2>2 DEF I!NewEntries, I!Invalid, I!NoBlock
<1>6. /\ entries' \in Seq(Stored) /\ Len(entries') = z + z
      /\ \A i \in Nat : 1 <= i /\ i <= z => entries'[i] = entries[i]
      /\ \A i \in Nat : z < i /\ i <= z + z => entries'[i] = r[i - z]
  <2>1. PICK l : l = entries
    OBVIOUS
  <2>2. l \in Seq(Stored) /\ Len(l) = z
    BY <1>4, <2>1
  <2>3. /\ l \o r \in Seq(Stored) /\ Len(l \o r) = z + z
        /\ \A i \in Nat : 1 <= i /\ i <= z => (l \o r)[i] = l[i]
        /\ \A i \in Nat : z < i /\ i <= z + z => (l \o r)[i] = r[i - z]
    <3>1. z \in Nat
      OBVIOUS
    <3>2. Joins(Stored, l, r, z)
      BY <1>3, <2>2, <3>1, JoinSeq
    <3> QED
      BY <3>2 DEF Joins
  <2> QED
    BY <1>5, <2>1, <2>3, Zenon
<1>7. \A e \in Nat : 1 <= e /\ e <= z =>
        KeyOf(e)' = KeyOf(e) /\ ValueOf(e)' = ValueOf(e) /\ (Keyed(e)' <=> Keyed(e))
  BY <1>6 DEF KeyOf, ValueOf, Keyed
<1>8. ASSUME NEW e \in Nat, z < e, e <= z + z PROVE ~ Keyed(e)' /\ ValueOf(e)' = 0
  <2>1. e - z \in 1..z
    BY <1>8
  <2>2. entries'[e] = [key |-> 1, value |-> 0]
    BY <1>2, <1>6, <1>8, <2>1
  <2> QED
    BY <2>2 DEF Keyed, KeyOf, ValueOf
<1>9. PICK a, b : /\ a = [i \in 1..z |-> headers[w].index[((t + i) % z) + 1]]
                  /\ b = [i \in 1..z |-> z + i]
  OBVIOUS
<1>10. \A i \in 1..z : a[i] = PointsTo(w, (t + i) % z) /\ a[i] \in Nat
  <2>1. ASSUME NEW i \in 1..z PROVE PointsTo(w, (t + i) % z) \in Nat
    <3>1. t + i \in Int
      OBVIOUS
    <3>2. PICK p \in Nat : p = (t + i) % z /\ p < z
      BY <3>1, PlaceTyped
    <3> QED
      BY <3>2, ListIs
  <2>2. \A i \in 1..z : a[i] = PointsTo(w, (t + i) % z)
    BY <1>9 DEF PointsTo
  <2> QED
    BY <2>1, <2>2
<1>11. a \in Seq(Nat) /\ Len(a) = z /\ b \in Seq(Nat) /\ Len(b) = z
  <2>1. a \in [1..z -> Nat] /\ b \in [1..z -> Nat]
    BY <1>9, <1>10
  <2> QED
    BY <2>1, FunSeq
<1>12. PICK x \in Seq(Nat) : x = a \o b
  <2>1. z \in Nat
    OBVIOUS
  <2>2. Joins(Nat, a, b, z)
    BY <1>11, <2>1, JoinSeq
  <2> QED
    BY <2>2 DEF Joins
<1>13. /\ Len(x) = z + z
       /\ \A i \in Nat : 1 <= i /\ i <= z => x[i] = a[i]
       /\ \A i \in Nat : z < i /\ i <= z + z => x[i] = b[i - z]
  <2>1. /\ Len(a \o b) = z + z
        /\ \A i \in Nat : 1 <= i /\ i <= z => (a \o b)[i] = a[i]
        /\ \A i \in Nat : z < i /\ i <= z + z => (a \o b)[i] = b[i - z]
    <3>1. z \in Nat
      OBVIOUS
    <3>2. Joins(Nat, a, b, z)
      BY <1>11, <3>1, JoinSeq
    <3> QED
      BY <3>2 DEF Joins
  <2> QED
    BY <1>12, <2>1, Zenon
<1>14. PICK h \in Indices : h = [tail |-> z - 1, index |-> x]
  <2>1. z - 1 \in Nat
    OBVIOUS
  <2> QED
    BY <2>1 DEF Indices
<1>15. headers' = Append(headers, h)
  <2>1. headers' = Append(headers, I!NewHeader(I!header, I!Size(I!header)))
    BY DEF I!GrowHeader
  <2>2. I!Size(I!header) = z /\ I!header = headers[w] /\ Len(headers[w].index) = z
    BY HeaderEntry DEF Places
  <2>3. I!NewHeader(headers[w], z) = h
    BY <1>1, <1>4, <1>9, <1>12, <1>14, <2>2 DEF I!NewHeader, TailOf
  <2> QED
    BY <2>1, <2>2, <2>3
<1>16. /\ headers' \in Seq(Indices) /\ Len(headers') = w + 1
       /\ \A j \in 1..w : headers'[j] = headers[j]
       /\ headers'[w + 1] = h
  BY <1>4, <1>14, <1>15, AppendSeq
<1>17. \A v \in Nat : 1 <= v /\ v <= w =>
         /\ Places(v)' = Places(v) /\ TailOf(v)' = TailOf(v)
         /\ \A p : PointsTo(v, p)' = PointsTo(v, p)
  <2>1. ASSUME NEW v \in Nat, 1 <= v, v <= w PROVE headers'[v] = headers[v]
    <3>1. v \in 1..w
      BY <2>1
    <3> QED
      BY <1>16, <3>1
  <2> QED
    BY <2>1 DEF Places, TailOf, PointsTo
<1>18. Places(w + 1)' = z + z /\ TailOf(w + 1)' = z - 1
  BY <1>13, <1>14, <1>16 DEF Places, TailOf
<1>19. \A p : PointsTo(w + 1, p)' = x[p + 1]
  BY <1>14, <1>16 DEF PointsTo
<1>20. ASSUME NEW p \in Nat, p < z PROVE PointsTo(w + 1, p)' = PointsTo(w, (TailOf(w) + (p + 1)) % z)
  <2>1. PICK i \in Nat : i = p + 1 /\ 1 <= i /\ i <= z
    BY <1>20
  <2>2. x[i] = PointsTo(w, (t + i) % z)
    BY <1>10, <1>13, <2>1
  <2> QED
    BY <1>1, <1>19, <2>1, <2>2
<1>21. ASSUME NEW p \in Nat, z <= p, p < z + z PROVE PointsTo(w + 1, p)' = p + 1
  <2>1. PICK i \in Nat : i = p + 1 /\ z < i /\ i <= z + z /\ i - z \in 1..z
    BY <1>21
  <2>2. PICK j \in Nat : j = i - z /\ j \in 1..z /\ z + j = i
    BY <2>1
  <2>3. x[i] = b[j] /\ b[j] = z + j
    BY <1>9, <1>13, <2>1, <2>2
  <2>4. x[i] = i
    BY <2>2, <2>3
  <2> QED
    BY <1>19, <2>1, <2>4
<1>22. Newest' = w + 1 /\ Len(entries)' = z + z
  BY <1>6, <1>16 DEF Newest
<1> QED
  BY <1>6, <1>7, <1>8, <1>16, <1>17, <1>18, <1>20, <1>21, <1>22 DEF Doubled

(* The index grows when all its entries are in use; the numbers of the     *)
(* newest one are then those of all entries.                               *)
HeaderGrown(shift, s2, n, w, z) ==
  /\ ppc = "idle" /\ Begun = n /\ Reached = n /\ Begun' = n /\ Reached' = n
  /\ UNCHANGED <<tailIndex, headIndex, cons, tailBlock, dequeued, free, ppc>>
  /\ w = Newest /\ z = Places(w) /\ 1 <= w /\ Doubled(w, z) /\ n - z \in Nat
  /\ s2 = [shift EXCEPT ![w + 1] = z - n]
  /\ \A m \in Int : n - z <= m /\ m < n => KeyOf(EntryOf(shift, w, m)) = Start(m)

LEMMA GrowHeaderGrows ==
  ASSUME CountInv, NEW ent, NEW blk, NEW shift, NEW low,
         ImplicitWell(ent, blk, shift, low), I!GrowHeader
  PROVE  \E n \in Nat, w \in Nat, z \in Nat \ {0}, s2 \in [Nat -> Int] : HeaderGrown(shift, s2, n, w, z)
<1>1. /\ ListTyped /\ KeysCongruent(shift) /\ EntriesRight(ent, blk, shift)
      /\ KeysLatest(shift, low) /\ shift \in [Nat -> Int]
  BY DEF ImplicitWell, KeysInv, KeysCongruent
<1>2. ppc = "idle" /\ Off(tailIndex) = 0 /\ tailIndex \in Nat /\ Begun \in Nat
  BY BegunTyped DEF I!GrowHeader, I!NeedsBlock, Off
<1>3. PICK n \in Nat : n = Num(tailIndex)
  BY <1>2, NumNat
<1>4. Begun = n /\ Reached = n
  BY <1>2, <1>3 DEF Begun, Reached
<1>5. I!Entry(I!header, I!header.tail + 1) = EntryOf(shift, Newest, n)
  <2>1. I!Entry(I!header, I!header.tail + 1) = PointsTo(Newest, (TailOf(Newest) + 1) % Places(Newest))
    BY HeaderEntry DEF TailOf
  <2> QED
    BY <1>1, <1>4, <2>1, TailPlace
<1>6. PICK e \in Nat : e = EntryOf(shift, Newest, n) /\ 1 <= e /\ e <= Len(entries)
  <2>1. Newest \in Nat /\ 1 <= Newest /\ Newest <= Newest /\ n \in Int
    BY <1>1, NewestIs
  <2>2. /\ EntryOf(shift, Newest, n) \in Nat /\ 1 <= EntryOf(shift, Newest, n)
        /\ EntryOf(shift, Newest, n) <= Len(entries)
    BY <1>1, <2>1, PlaceIs
  <2> QED
    BY <2>2
<1>7. /\ UNCHANGED <<tailIndex, headIndex, cons, tailBlock, dequeued, free, ppc>>
      /\ KeyOf(e) # 1 /\ ValueOf(e) # 0
  BY <1>5, <1>6 DEF I!GrowHeader, I!IsFree, I!counters, I!Invalid, I!NoBlock, KeyOf, ValueOf
<1>8. PICK w \in Nat, z \in Nat \ {0} : w = Newest /\ z = Places(w) /\ 1 <= w
  BY <1>1, NewestIs
<1>9. Doubled(w, z)
  BY <1>1, <1>8, GrowHeaderDoubles
<1>10. PICK m \in Nat : m < n /\ KeyOf(e) = Start(m) /\ n - z <= m /\ e = EntryOf(shift, w, m)
  BY <1>1, <1>4, <1>6, <1>7, <1>8, ValueEntered
<1>11. PICK o \in Int : o = n - z
  BY <1>8
<1>12. EntryOf(shift, w, o) = e
  <2>1. n \in Int
    OBVIOUS
  <2>2. EntryOf(shift, Newest, n - Places(Newest)) = EntryOf(shift, Newest, n)
    BY <1>1, <2>1, EntryAgain
  <2> QED
    BY <1>6, <1>8, <1>11, <2>2
<1>13. m = o
  <2>1. m \in Int /\ EntryOf(shift, Newest, m) = EntryOf(shift, Newest, o)
    BY <1>8, <1>10, <1>12
  <2>2. m - o < Places(Newest) /\ o - m < Places(Newest)
    BY <1>8, <1>10, <1>11
  <2> QED
    BY <1>1, <2>1, <2>2, EntriesApart
<1>14. ASSUME NEW j \in Int, o <= j, j < n PROVE NumberedAs(low, j, EntryOf(shift, w, j))
  BY <1>1, <1>4, <1>8, <1>11, <1>14 DEF KeysLatest
<1>15. low <= o /\ low \in Nat
  <2>1. NumberedAs(low, o, e)
    BY <1>8, <1>10, <1>12, <1>13, <1>14
  <2> QED
    BY <1>1, <1>7, <2>1 DEF NumberedAs, Keyed, KeysLatest
<1>16. ASSUME NEW j \in Int, o <= j, j < n PROVE KeyOf(EntryOf(shift, w, j)) = Start(j)
  <2>1. NumberedAs(low, j, EntryOf(shift, w, j))
    BY <1>14, <1>16
  <2>2. ~ (j < low)
    BY <1>15, <1>16
  <2>3. ~ (j = Reached - Places(Newest) /\ ValueOf(EntryOf(shift, w, j)) = 0)
    BY <1>4, <1>7, <1>8, <1>11, <1>12
  <2> QED
    BY <2>1, <2>2, <2>3 DEF NumberedAs
<1>17. PICK s2 : s2 = [shift EXCEPT ![w + 1] = z - n]
  OBVIOUS
<1>18. s2 \in [Nat -> Int]
  BY <1>1, <1>17
<1>19. Begun' = n /\ Reached' = n
  <2>1. Begun' = n
    BY <1>2, <1>3, <1>7 DEF Begun, Off, Num
  <2> QED
    BY <1>2, <1>7, <2>1 DEF Reached
<1>20. HeaderGrown(shift, s2, n, w, z)
  BY <1>2, <1>4, <1>7, <1>8, <1>9, <1>10, <1>11, <1>13, <1>16, <1>17, <1>19 DEF HeaderGrown
<1> QED
  BY <1>18, <1>20

(* Each place of the index was the place of one of its latest numbers.     *)
WasReached(shift, w, n, z, p) ==
  \E m \in Int : n - z <= m /\ m < n /\ PointsTo(w, p) = EntryOf(shift, w, m)

LEMMA PlaceReached ==
  ASSUME ListTyped, NEW shift, shift \in [Nat -> Int], NEW w \in Nat, NEW z \in Nat \ {0},
         w = Newest, z = Places(w), NEW n \in Nat, NEW p \in Nat, p < z
  PROVE  WasReached(shift, w, n, z, p)
<1>1. PICK s \in Int : s = shift[w]
  OBVIOUS
<1>2. PICK a \in Int : a = p - s - n
  BY <1>1
<1>3. PICK r \in Nat : r = a % z /\ r < z
  BY <1>2, PlaceTyped
<1>4. PICK m \in Int : m = n - z + r
  BY <1>3
<1>5. PICK c \in Int : c = s + n
  BY <1>1
<1>6. r % z = a % z
  BY <1>3, ModMod
<1>7. Shifts(r, a, c, z)
  BY ModShifts
<1>8. (r + c) % z = (a + c) % z
  BY <1>6, <1>7 DEF Shifts
<1>9. a + c = p
  BY <1>2, <1>5
<1>10. p % z = p
  <2>1. p \in 0..(z - 1)
    OBVIOUS
  <2> QED
    BY <2>1, ModSmall
<1>11. PICK x \in Int : x = r + c
  OBVIOUS
<1>12. (x - z) % z = x % z
  BY <1>11, ModSelf
<1>13. s + m = x - z
  BY <1>4, <1>5, <1>11
<1>14. (s + m) % z = p
  BY <1>8, <1>9, <1>10, <1>11, <1>12, <1>13
<1>15. PointsTo(w, p) = EntryOf(shift, w, m)
  BY <1>1, <1>14 DEF EntryOf
<1> QED
  BY <1>3, <1>4, <1>15 DEF WasReached

(* The old ones have what they had.                                        *)
OldKept(shift, s2, w) ==
  \A v \in Nat : 1 <= v /\ v <= w =>
    /\ s2[v] = shift[v] /\ Places(v)' = Places(v) /\ TailOf(v)' = TailOf(v)
    /\ \A p \in Nat : p < Places(v) =>
         /\ PointsTo(v, p)' = PointsTo(v, p)
         /\ KeyOf(PointsTo(v, p))' = KeyOf(PointsTo(v, p))
         /\ ValueOf(PointsTo(v, p))' = ValueOf(PointsTo(v, p))
         /\ Keyed(PointsTo(v, p))' <=> Keyed(PointsTo(v, p))

LEMMA GrownKeepsOld ==
  ASSUME ListTyped, NEW shift, shift \in [Nat -> Int], NEW s2 \in [Nat -> Int],
         NEW n \in Nat, NEW w \in Nat, NEW z \in Nat \ {0}, HeaderGrown(shift, s2, n, w, z)
  PROVE  OldKept(shift, s2, w)
<1>1. w = Newest /\ z = Places(w) /\ Doubled(w, z) /\ s2 = [shift EXCEPT ![w + 1] = z - n]
  BY DEF HeaderGrown
<1>2. z = Len(entries)
  BY <1>1, NewestIs
<1>3. ASSUME NEW v \in Nat, 1 <= v, v <= w, NEW p \in Nat, p < Places(v)
      PROVE  /\ PointsTo(v, p)' = PointsTo(v, p)
             /\ KeyOf(PointsTo(v, p))' = KeyOf(PointsTo(v, p))
             /\ ValueOf(PointsTo(v, p))' = ValueOf(PointsTo(v, p))
             /\ Keyed(PointsTo(v, p))' <=> Keyed(PointsTo(v, p))
  <2>1. PICK f \in Nat : f = PointsTo(v, p) /\ 1 <= f /\ f <= z
    BY <1>1, <1>2, <1>3, ListIs
  <2>2. PointsTo(v, p)' = f
    BY <1>1, <1>3, <2>1 DEF Doubled
  <2>3. KeyOf(f)' = KeyOf(f) /\ ValueOf(f)' = ValueOf(f) /\ (Keyed(f)' <=> Keyed(f))
    BY <1>1, <2>1 DEF Doubled
  <2> QED
    BY <2>1, <2>2, <2>3 DEF KeyOf, ValueOf, Keyed
<1>4. ASSUME NEW v \in Nat, 1 <= v, v <= w
      PROVE  s2[v] = shift[v] /\ Places(v)' = Places(v) /\ TailOf(v)' = TailOf(v)
  <2>1. Places(v)' = Places(v) /\ TailOf(v)' = TailOf(v)
    BY <1>1, <1>4 DEF Doubled
  <2>2. s2[v] = shift[v]
    BY <1>1, <1>4
  <2> QED
    BY <2>1, <2>2
<1> QED
  BY <1>3, <1>4 DEF OldKept

(* The new index has the latest numbers first, then its new entries.       *)
LEMMA GrownPlace ==
  ASSUME ListTyped, NEW shift, KeysCongruent(shift), NEW s2 \in [Nat -> Int],
         NEW n \in Nat, NEW w \in Nat, NEW z \in Nat \ {0}, HeaderGrown(shift, s2, n, w, z),
         NEW m \in Int, m < n
  PROVE  /\ n - z <= m => /\ EntryOf(s2, w + 1, m)' = EntryOf(shift, w, m)
                          /\ EntryOf(s2, w + 1, m)' = PointsTo(w + 1, m - (n - z))'
         /\ n - (z + z) <= m /\ m < n - z => \E f \in Nat : /\ EntryOf(s2, w + 1, m)' = f
                                                            /\ z < f /\ f <= z + z
<1>1. /\ w = Newest /\ z = Places(w) /\ Doubled(w, z) /\ s2 = [shift EXCEPT ![w + 1] = z - n]
      /\ shift \in [Nat -> Int] /\ Reached = n
  BY DEF HeaderGrown, KeysCongruent
<1>2. PICK s \in Int, t \in Nat, y \in Nat \ {0} : s = shift[w] /\ t = TailOf(w) /\ t < z /\ y = z + z
  BY <1>1, NewestIs
<1>3. s % z = (t - (n - 1)) % z
  BY <1>1, <1>2 DEF KeysCongruent
<1>4. s2[w + 1] = z - n /\ Places(w + 1)' = y
  BY <1>1, <1>2 DEF Doubled
<1>5. PICK a \in Int : a = z - n + m
  OBVIOUS
<1>6. EntryOf(s2, w + 1, m)' = PointsTo(w + 1, a % y)'
  BY <1>4, <1>5 DEF EntryOf, Places, PointsTo
<1>7. ASSUME n - z <= m
      PROVE  /\ EntryOf(s2, w + 1, m)' = EntryOf(shift, w, m)
             /\ EntryOf(s2, w + 1, m)' = PointsTo(w + 1, m - (n - z))'
  <2>1. a \in Nat /\ a < z /\ a \in 0..(y - 1) /\ a = m - (n - z)
    BY <1>2, <1>5, <1>7
  <2>2. a % y = a
    BY <2>1, ModSmall
  <2>3. PointsTo(w + 1, a)' = PointsTo(w, (t + (a + 1)) % z)
    BY <1>1, <1>2, <2>1 DEF Doubled
  <2>4. PICK b \in Int, x \in Int : b = t - (n - 1) /\ x = b + m
    BY <1>2
  <2>5. Shifts(s, b, m, z)
    BY ModShifts
  <2>6. (s + m) % z = x % z
    BY <1>3, <2>4, <2>5 DEF Shifts
  <2>7. (x + z) % z = x % z
    BY <2>4, ModSelf
  <2>8. x + z = t + (a + 1)
    BY <1>5, <2>4
  <2>9. (s + m) % z = (t + (a + 1)) % z
    BY <2>6, <2>7, <2>8
  <2>10. EntryOf(shift, w, m) = PointsTo(w, (t + (a + 1)) % z)
    BY <1>1, <1>2, <2>9 DEF EntryOf
  <2> QED
    BY <1>6, <2>1, <2>2, <2>3, <2>10
<1>8. ASSUME n - (z + z) <= m, m < n - z
      PROVE  \E f \in Nat : EntryOf(s2, w + 1, m)' = f /\ z < f /\ f <= z + z
  <2>1. PICK p \in Nat : p = a + y /\ z <= p /\ p < z + z /\ p \in 0..(y - 1)
    BY <1>2, <1>5, <1>8
  <2>2. p % y = p
    BY <2>1, ModSmall
  <2>3. (a + y) % y = a % y
    BY ModSelf
  <2>4. a % y = p
    BY <2>1, <2>2, <2>3
  <2>5. PointsTo(w + 1, p)' = p + 1
    BY <1>1, <2>1 DEF Doubled
  <2>6. PICK f \in Nat : f = p + 1 /\ z < f /\ f <= z + z
    BY <2>1
  <2> QED
    BY <1>6, <2>4, <2>5, <2>6
<1> QED
  BY <1>7, <1>8

LEMMA GrownListTyped ==
  ASSUME ListTyped, NEW shift, KeysCongruent(shift), NEW s2 \in [Nat -> Int],
         NEW n \in Nat, NEW w \in Nat, NEW z \in Nat \ {0}, HeaderGrown(shift, s2, n, w, z)
  PROVE  ListTyped'
<1>1. /\ w = Newest /\ z = Places(w) /\ 1 <= w /\ Doubled(w, z) /\ shift \in [Nat -> Int]
      /\ UNCHANGED <<tailIndex, ppc>>
  BY DEF HeaderGrown, KeysCongruent
<1>0. OldKept(shift, s2, w)
  BY <1>1, GrownKeepsOld
<1>2. z = Len(entries)
  BY <1>1, NewestIs
<1>3. PICK y \in Nat \ {0}, x \in Nat, t \in Nat : y = z + z /\ x = w + 1 /\ t = TailOf(w)
  <2>1. z + z \in Nat \ {0} /\ w + 1 \in Nat /\ TailOf(w) \in Nat
    BY <1>1, NewestIs
  <2> QED
    BY <2>1
<1>4. /\ headers' \in Seq(Indices) /\ entries' \in Seq(Stored) /\ Newest' = x /\ Len(entries)' = y
      /\ Places(x)' = y /\ TailOf(x)' = z - 1
      /\ \A p \in Nat : p < z => PointsTo(x, p)' = PointsTo(w, (t + (p + 1)) % z)
      /\ \A p \in Nat : z <= p /\ p < y => PointsTo(x, p)' = p + 1
  BY <1>1, <1>3 DEF Doubled
<1>5. Places(Newest)' = y
  BY <1>4 DEF Places, Newest
<1>6. ListStaged'
  BY <1>1 DEF ListTyped, ListStaged, Off
<1>7. ASSUME NEW e \in Nat, 1 <= e, e <= y PROVE ValueOf(e)' \in Blocks \cup {0}
  <2>1. CASE e <= z
    BY <1>1, <1>2, <1>7, <2>1, EntryIs DEF Doubled
  <2>2. CASE z < e
    BY <1>1, <1>3, <1>7, <2>2 DEF Doubled
  <2> QED
    BY <2>1, <2>2
<1>8. ASSUME NEW v \in Nat, 1 <= v, v <= w
      PROVE  /\ Places(v)' > 0 /\ TailOf(v)' < Places(v)'
             /\ \A p \in Nat : p < Places(v)' => 1 <= PointsTo(v, p)' /\ PointsTo(v, p)' <= y
             /\ \E k \in Nat \ {0} : y = Places(v)' * k
  <2>1. PICK q \in Nat \ {0} : q = Places(v) /\ TailOf(v) < q
    BY <1>1, <1>8, ListIs
  <2>2. Places(v)' = q /\ TailOf(v)' = TailOf(v)
    BY <1>0, <1>8, <2>1 DEF OldKept
  <2>3. PICK k \in Nat \ {0} : z = q * k
    BY <1>1, <1>8, <2>1 DEF ListTyped
  <2>4. PICK j \in Nat \ {0} : j = k + k
    OBVIOUS
  <2>5. y = q * j
    <3>1. q * (k + k) = q * k + q * k
      OBVIOUS
    <3> QED
      BY <1>3, <2>3, <2>4, <3>1
  <2>6. ASSUME NEW p \in Nat, p < q PROVE 1 <= PointsTo(v, p)' /\ PointsTo(v, p)' <= y
    <3>1. PointsTo(v, p)' = PointsTo(v, p)
      BY <1>0, <1>8, <2>1, <2>6 DEF OldKept
    <3>2. PointsTo(v, p) \in Nat /\ 1 <= PointsTo(v, p) /\ PointsTo(v, p) <= z
      BY <1>1, <1>2, <1>8, <2>1, <2>6, ListIs
    <3> QED
      BY <1>3, <3>1, <3>2
  <2> QED
    BY <2>1, <2>2, <2>5, <2>6
<1>9. ASSUME NEW p \in Nat, p < z
      PROVE  \E q \in Nat : /\ q < z /\ q = (t + (p + 1)) % z /\ PointsTo(x, p)' = PointsTo(w, q)
                            /\ PointsTo(w, q) \in Nat /\ 1 <= PointsTo(w, q) /\ PointsTo(w, q) <= z
  <2>1. PICK u \in Int : u = t + (p + 1)
    OBVIOUS
  <2>2. PICK q \in Nat : q = u % z /\ q < z
    BY PlaceTyped
  <2>3. PointsTo(x, p)' = PointsTo(w, q)
    BY <1>4, <1>9, <2>1, <2>2
  <2>4. w <= Newest /\ q < Places(w)
    BY <1>1, <2>2
  <2>5. PointsTo(w, q) \in Nat /\ 1 <= PointsTo(w, q) /\ PointsTo(w, q) <= Len(entries)
    BY <1>1, <2>4, ListIs
  <2> QED
    BY <1>2, <2>1, <2>2, <2>3, <2>5
<1>10. ASSUME NEW p \in Nat, p < y PROVE 1 <= PointsTo(x, p)' /\ PointsTo(x, p)' <= y
  <2>1. CASE p < z
    BY <1>3, <1>9, <2>1
  <2>2. CASE z <= p
    <3>1. PICK g \in Nat : g = p + 1 /\ 1 <= g /\ g <= y
      BY <1>10
    <3>2. PointsTo(x, p)' = g
      BY <1>4, <1>10, <2>2, <3>1
    <3> QED
      BY <3>1, <3>2
  <2> QED
    BY <2>1, <2>2
<1>11. ASSUME NEW p \in Nat, NEW q \in Nat, p < y, q < y, PointsTo(x, p)' = PointsTo(x, q)' PROVE p = q
  <2>1. CASE p < z /\ q < z
    <3>1. PICK a \in Nat : a < z /\ a = (t + (p + 1)) % z /\ PointsTo(x, p)' = PointsTo(w, a)
      BY <1>9, <2>1
    <3>2. PICK b \in Nat : b < z /\ b = (t + (q + 1)) % z /\ PointsTo(x, q)' = PointsTo(w, b)
      BY <1>9, <2>1
    <3>3. a = b
      BY <1>1, <1>11, <3>1, <3>2 DEF ListTyped
    <3>4. PICK c \in Int, d \in Int : c = t + (p + 1) /\ d = t + (q + 1)
      OBVIOUS
    <3>5. Separates(c, d, z)
      BY ModSeparates
    <3>6. c % z = d % z /\ c - d < z /\ d - c < z
      BY <2>1, <3>1, <3>2, <3>3, <3>4
    <3>7. c = d
      BY <3>5, <3>6 DEF Separates
    <3> QED
      BY <3>4, <3>7
  <2>2. CASE z <= p /\ z <= q
    <3>1. p + 1 = q + 1
      BY <1>4, <1>11, <2>2
    <3> QED
      BY <3>1
  <2>3. CASE p < z /\ z <= q
    <3>1. PointsTo(x, p)' \in Nat /\ PointsTo(x, p)' <= z
      BY <1>9, <2>3
    <3>2. PointsTo(x, q)' = q + 1
      BY <1>4, <1>11, <2>3
    <3> QED
      BY <1>11, <2>3, <3>1, <3>2
  <2>4. CASE z <= p /\ q < z
    <3>1. PointsTo(x, q)' \in Nat /\ PointsTo(x, q)' <= z
      BY <1>9, <2>4
    <3>2. PointsTo(x, p)' = p + 1
      BY <1>4, <1>11, <2>4
    <3> QED
      BY <1>11, <2>4, <3>1, <3>2
  <2> QED
    BY <2>1, <2>2, <2>3, <2>4
<1>12. ASSUME NEW v \in Nat, 1 <= v, v <= x
       PROVE  /\ Places(v)' > 0 /\ TailOf(v)' < Places(v)'
              /\ \A p \in Nat : p < Places(v)' => 1 <= PointsTo(v, p)' /\ PointsTo(v, p)' <= y
              /\ \E k \in Nat \ {0} : y = Places(v)' * k
  <2>1. CASE v <= w
    BY <1>8, <1>12, <2>1
  <2>2. CASE v = x
    <3>1. Places(v)' = y /\ TailOf(v)' = z - 1
      BY <1>4, <2>2
    <3>2. y = y * 1 /\ 1 \in Nat \ {0}
      OBVIOUS
    <3>3. \A p \in Nat : p < y => 1 <= PointsTo(v, p)' /\ PointsTo(v, p)' <= y
      BY <1>10, <2>2
    <3> QED
      BY <1>3, <3>1, <3>2, <3>3
  <2> QED
    BY <1>3, <1>12, <2>1, <2>2
<1>13. x >= 1
  BY <1>3
<1>14. /\ \A e \in Nat : 1 <= e /\ e <= Len(entries)' => ValueOf(e)' \in Blocks' \cup {0}
  BY <1>4, <1>7 DEF Blocks
<1>15. \A p, q \in Nat : p < Places(Newest)' /\ q < Places(Newest)'
                           /\ PointsTo(Newest, p)' = PointsTo(Newest, q)' => p = q
  BY <1>4, <1>5, <1>11 DEF PointsTo, Newest
<1> QED
  BY <1>4, <1>5, <1>6, <1>12, <1>13, <1>14, <1>15 DEF ListTyped

(* The latest numbers, in the new index.                                   *)
NumberKept(shift, s2, w, m) ==
  /\ EntryOf(s2, w + 1, m)' = EntryOf(shift, w, m)
  /\ KeyOf(EntryOf(shift, w, m))' = Start(m) /\ Keyed(EntryOf(shift, w, m))'
  /\ ValueOf(EntryOf(shift, w, m))' = ValueOf(EntryOf(shift, w, m))
  /\ KeyOf(EntryOf(s2, w + 1, m))' = Start(m) /\ Keyed(EntryOf(s2, w + 1, m))'

LEMMA GrownNumber ==
  ASSUME ListTyped, NEW shift, KeysCongruent(shift), NEW s2 \in [Nat -> Int],
         NEW n \in Nat, NEW w \in Nat, NEW z \in Nat \ {0}, HeaderGrown(shift, s2, n, w, z),
         NEW m \in Int, n - z <= m, m < n
  PROVE  NumberKept(shift, s2, w, m)
<1>1. /\ w = Newest /\ z = Places(w) /\ 1 <= w /\ w <= Newest /\ shift \in [Nat -> Int]
      /\ KeyOf(EntryOf(shift, w, m)) = Start(m)
  BY DEF HeaderGrown, KeysCongruent
<1>0. OldKept(shift, s2, w)
  BY <1>1, GrownKeepsOld
<1>2. EntryOf(s2, w + 1, m)' = EntryOf(shift, w, m)
  BY GrownPlace
<1>3. PICK p \in Nat : p = (shift[w] + m) % Places(w) /\ p < Places(w)
  BY <1>1, PlaceIs
<1>4. EntryOf(shift, w, m) = PointsTo(w, p)
  BY <1>3 DEF EntryOf
<1>5. PICK f : f = PointsTo(w, p)
  OBVIOUS
<1>6. PointsTo(w, p)' = f /\ KeyOf(f)' = Start(m) /\ ValueOf(f)' = ValueOf(f)
  <2>1. PointsTo(w, p)' = PointsTo(w, p) /\ KeyOf(PointsTo(w, p))' = KeyOf(PointsTo(w, p))
        /\ ValueOf(PointsTo(w, p))' = ValueOf(PointsTo(w, p))
    BY <1>0, <1>1, <1>3 DEF OldKept
  <2> QED
    BY <1>1, <1>4, <1>5, <2>1 DEF KeyOf, ValueOf
<1>7. Keyed(f)'
  BY <1>6, StartNotOne DEF Keyed, KeyOf
<1>8. EntryOf(shift, w, m) = f
  BY <1>4, <1>5
<1>9. EntryOf(shift, w, m)' = f
  <2>1. Places(w)' = Places(w)
    BY <1>0, <1>1 DEF OldKept
  <2> QED
    BY <1>3, <1>6, <2>1 DEF EntryOf, PointsTo, Places
<1> QED
  BY <1>2, <1>6, <1>7, <1>8, <1>9 DEF NumberKept, KeyOf, Keyed, ValueOf

LEMMA GrownCongruent ==
  ASSUME ListTyped, NEW shift, KeysCongruent(shift), NEW s2 \in [Nat -> Int],
         NEW n \in Nat, NEW w \in Nat, NEW z \in Nat \ {0}, HeaderGrown(shift, s2, n, w, z)
  PROVE  KeysCongruent(s2)'
<1>1. /\ w = Newest /\ z = Places(w) /\ 1 <= w /\ Doubled(w, z) /\ shift \in [Nat -> Int]
      /\ Reached' = n /\ Reached = n /\ s2 = [shift EXCEPT ![w + 1] = z - n]
  BY DEF HeaderGrown, KeysCongruent
<1>0. OldKept(shift, s2, w)
  BY <1>1, GrownKeepsOld
<1>2. PICK x \in Nat, y \in Nat \ {0} : x = w + 1 /\ y = z + z
  OBVIOUS
<1>3. Newest' = x /\ Places(x)' = y /\ TailOf(x)' = z - 1 /\ s2[x] = z - n
  BY <1>1, <1>2 DEF Doubled
<1>4. s2[x] % y = ((z - 1) - (n - 1)) % y
  <2>1. z - n = (z - 1) - (n - 1)
    OBVIOUS
  <2> QED
    BY <1>3, <2>1
<1>5. ASSUME NEW p \in Nat, p < z
      PROVE  \E m \in Int : /\ n - z <= m /\ m < n /\ p - m = z - n
                            /\ PointsTo(x, p)' = EntryOf(s2, x, m)'
                            /\ KeyOf(PointsTo(x, p))' = Start(m) /\ Keyed(PointsTo(x, p))'
  <2>1. PICK m \in Int : m = p + (n - z) /\ n - z <= m /\ m < n /\ m - (n - z) = p /\ p - m = z - n
    BY <1>5
  <2>2. EntryOf(s2, x, m)' = PointsTo(x, m - (n - z))'
    BY <1>2, <2>1, GrownPlace
  <2>3. PointsTo(x, p)' = EntryOf(s2, x, m)'
    BY <2>1, <2>2
  <2>4. KeyOf(EntryOf(s2, x, m))' = Start(m) /\ Keyed(EntryOf(s2, x, m))'
    <3>1. NumberKept(shift, s2, w, m)
      BY <2>1, GrownNumber
    <3> QED
      BY <1>2, <3>1 DEF NumberKept
  <2> QED
    BY <2>1, <2>3, <2>4 DEF KeyOf, Keyed
<1>6. ASSUME NEW p \in Nat, z <= p, p < y PROVE ~ Keyed(PointsTo(x, p))'
  <2>1. PICK g \in Nat : g = p + 1 /\ z < g /\ g <= z + z
    BY <1>2, <1>6
  <2>2. PointsTo(x, p)' = g
    BY <1>1, <1>2, <1>6, <2>1 DEF Doubled
  <2>3. ~ Keyed(g)'
    BY <1>1, <2>1 DEF Doubled
  <2> QED
    BY <2>2, <2>3 DEF Keyed, KeyOf
<1>7. ASSUME NEW v \in Nat, NEW p \in Nat, 1 <= v, v <= x, p < Places(v)', Keyed(PointsTo(v, p))'
      PROVE  /\ Off(KeyOf(PointsTo(v, p)))' = 0
             /\ (p - Num(KeyOf(PointsTo(v, p)))') % Places(v)' = s2[v] % Places(v)'
  <2>1. CASE v <= w
    <3>1. s2[v] = shift[v] /\ Places(v)' = Places(v)
      BY <1>0, <1>1, <1>7, <2>1 DEF OldKept
    <3>2. p < Places(v)
      BY <1>7, <3>1
    <3>3. KeyOf(PointsTo(v, p))' = KeyOf(PointsTo(v, p)) /\ (Keyed(PointsTo(v, p))' <=> Keyed(PointsTo(v, p)))
      BY <1>0, <1>1, <1>7, <2>1, <3>2 DEF OldKept
    <3>4. PICK j : j = KeyOf(PointsTo(v, p)) /\ j = KeyOf(PointsTo(v, p))'
      BY <3>3
    <3>5. Off(j) = 0 /\ (p - Num(j)) % Places(v) = shift[v] % Places(v)
      BY <1>1, <1>7, <2>1, <3>2, <3>3, <3>4 DEF KeysCongruent
    <3> QED
      BY <3>1, <3>4, <3>5 DEF Off, Num
  <2>2. CASE v = x
    <3>1. p < z
      <4>1. p < y
        BY <1>3, <1>7, <2>2
      <4> QED
        BY <1>2, <1>6, <1>7, <2>2, <4>1
    <3>2. PICK m \in Int : p - m = z - n /\ KeyOf(PointsTo(x, p))' = Start(m)
      BY <1>5, <3>1
    <3>3. Off(Start(m)) = 0 /\ Num(Start(m)) = m
      <4>1. 0 \in Offsets
        BY SizeIs DEF Offsets
      <4>2. Start(m) \in Int
        BY StartIs
      <4>3. Num(Start(m) + 0) = m /\ Off(Start(m) + 0) = 0
        BY <4>1, ItemOf
      <4>4. Start(m) + 0 = Start(m)
        BY <4>2
      <4> QED
        BY <4>3, <4>4
    <3>4. PICK j : j = Start(m)
      OBVIOUS
    <3>5. KeyOf(PointsTo(v, p))' = j /\ Off(j) = 0 /\ Num(j) = m
      BY <2>2, <3>2, <3>3, <3>4
    <3>6. (p - m) % y = s2[x] % y
      BY <1>3, <3>2
    <3> QED
      BY <1>3, <2>2, <3>5, <3>6 DEF Off, Num
  <2> QED
    BY <1>2, <1>7, <2>1, <2>2
<1>8. ASSUME NEW v \in Nat, NEW p \in Nat, 1 <= v, v < x, p < Places(v)' PROVE Keyed(PointsTo(v, p))'
  <2>1. v <= w
    BY <1>2, <1>8
  <2>2. Places(v)' = Places(v)
    BY <1>0, <1>1, <1>8, <2>1 DEF OldKept
  <2>3. Keyed(PointsTo(v, p))' <=> Keyed(PointsTo(v, p))
    BY <1>0, <1>1, <1>8, <2>1, <2>2 DEF OldKept
  <2>4. Keyed(PointsTo(v, p))
    <3>1. CASE v < w
      BY <1>1, <1>8, <2>2, <3>1 DEF KeysCongruent
    <3>2. CASE v = w
      <4>1. PICK m \in Int : n - z <= m /\ m < n /\ PointsTo(w, p) = EntryOf(shift, w, m)
        <5>1. p < z
          BY <1>1, <1>8, <2>2, <3>2
        <5>2. WasReached(shift, w, n, z, p)
          BY <1>1, <5>1, PlaceReached
        <5> QED
          BY <5>2 DEF WasReached
      <4>2. KeyOf(PointsTo(w, p)) = Start(m)
        BY <4>1 DEF HeaderGrown
      <4> QED
        BY <3>2, <4>2, StartNotOne DEF Keyed
    <3> QED
      BY <2>1, <3>1, <3>2
  <2> QED
    BY <2>3, <2>4
<1>9. Keyed(PointsTo(Newest, TailOf(Newest)))'
  <2>1. PICK t \in Nat : t = z - 1 /\ t < z
    OBVIOUS
  <2>2. Keyed(PointsTo(x, t))'
    BY <1>5, <2>1
  <2> QED
    BY <1>3, <2>1, <2>2 DEF Keyed, KeyOf, PointsTo, TailOf, Newest
<1>10. /\ (Reached' > 0 => Keyed(PointsTo(Newest, TailOf(Newest)))') /\ TailOf(Newest)' = z - 1
       /\ Places(Newest)' = y
  BY <1>3, <1>9 DEF TailOf, Places, Newest
<1> QED
  BY <1>1, <1>3, <1>4, <1>7, <1>8, <1>10 DEF KeysCongruent

LEMMA GrownLatest ==
  ASSUME ListTyped, NEW shift, KeysCongruent(shift), NEW s2 \in [Nat -> Int],
         NEW n \in Nat, NEW w \in Nat, NEW z \in Nat \ {0}, HeaderGrown(shift, s2, n, w, z)
  PROVE  KeysLatest(s2, n - z)'
<1>1. /\ w = Newest /\ z = Places(w) /\ Doubled(w, z) /\ Reached' = n /\ Begun' = n /\ n - z \in Nat
  BY DEF HeaderGrown
<1>2. PICK x \in Nat, y \in Nat \ {0}, o \in Nat : x = w + 1 /\ y = z + z /\ o = n - z
  <2>1. w + 1 \in Nat /\ z + z \in Nat \ {0}
    OBVIOUS
  <2> QED
    BY <1>1, <2>1
<1>3. Newest' = x /\ Places(x)' = y
  BY <1>1, <1>2 DEF Doubled
<1>4. ASSUME NEW m \in Int, n - y <= m, m < n PROVE NumberedAs(o, m, EntryOf(s2, x, m))'
  <2>1. CASE o <= m
    <3>1. KeyOf(EntryOf(s2, x, m))' = Start(m)
      <4>1. n - z <= m
        BY <1>2, <2>1
      <4>2. NumberKept(shift, s2, w, m)
        BY <1>4, <4>1, GrownNumber
      <4> QED
        BY <1>2, <4>2 DEF NumberKept
    <3> QED
      BY <2>1, <3>1 DEF NumberedAs, Start
  <2>2. CASE m < o
    <3>1. n - (z + z) <= m /\ m < n - z
      BY <1>2, <1>4, <2>2
    <3>2. PICK f \in Nat : EntryOf(s2, w + 1, m)' = f /\ z < f /\ f <= z + z
      BY <1>4, <3>1, GrownPlace
    <3>3. ~ Keyed(f)'
      BY <1>1, <3>2 DEF Doubled
    <3>4. ~ Keyed(EntryOf(s2, x, m))'
      BY <1>2, <3>2, <3>3 DEF Keyed, KeyOf
    <3> QED
      BY <2>2, <3>4 DEF NumberedAs
  <2> QED
    BY <1>2, <1>4, <2>1, <2>2
<1>5. o \in Nat /\ (o = 0 \/ o < Begun')
  BY <1>1, <1>2
<1>6. \A m \in Int : (Reached - Places(Newest) <= m)' /\ (m < Reached)'
                       => NumberedAs(o, m, EntryOf(s2, Newest, m))'
  BY <1>1, <1>3, <1>4 DEF Places, EntryOf, Newest, PointsTo
<1>7. KeysLatest(s2, o)'
  BY <1>5, <1>6 DEF KeysLatest
<1> QED
  BY <1>2, <1>7

LEMMA ListByGrowHeader ==
  ASSUME CountInv, RangeInv, NEW ent, NEW blk, NEW shift, NEW low,
         ImplicitWell(ent, blk, shift, low), I!GrowHeader
  PROVE  \E s2, low2 : ImplicitWell(ent, blk, s2, low2)'
<1>1. PICK n \in Nat, w \in Nat, z \in Nat \ {0}, s2 \in [Nat -> Int] : HeaderGrown(shift, s2, n, w, z)
  BY GrowHeaderGrows
<1>2. PICK o \in Nat : o = n - z
  BY <1>1 DEF HeaderGrown
<1>3. /\ ent \in [Nat -> Nat] /\ blk \in [Nat -> Nat] /\ BlocksRight(blk)
      /\ ListTyped /\ KeysCongruent(shift) /\ shift \in [Nat -> Int] /\ EntriesRight(ent, blk, shift)
      /\ AllSeek(ent, blk, shift) /\ CountsRight(blk) /\ BlocksTyped /\ EmptiedByOne
  BY DEF ImplicitWell, KeysInv, KeysCongruent
<1>4. /\ ppc = "idle" /\ Begun = n /\ Reached = n /\ Begun' = n /\ Reached' = n
      /\ UNCHANGED <<tailIndex, headIndex, cons, tailBlock, dequeued, free, ppc>>
      /\ w = Newest /\ z = Places(w) /\ 1 <= w /\ Doubled(w, z)
  BY <1>1 DEF HeaderGrown
<1>0. OldKept(shift, s2, w)
  BY <1>1, <1>3, GrownKeepsOld
<1>5. ListTyped'
  BY <1>1, <1>3, GrownListTyped
<1>6. KeysInv(ent, s2, o)'
  <2>1. KeysCongruent(s2)'
    BY <1>1, <1>3, GrownCongruent
  <2>2. KeysLatest(s2, n - z)'
    BY <1>1, <1>3, GrownLatest
  <2>3. KeyInserted(ent, s2)'
    BY <1>4 DEF KeyInserted
  <2> QED
    BY <1>2, <1>5, <2>1, <2>2, <2>3 DEF KeysInv
<1>7. /\ BlocksLike /\ \A m \in Nat : Entered(m)' <=> Entered(m)
  <2>1. BlocksLike
    BY <1>4, ProducerKeeps DEF BlocksLike, KeepsSame
  <2> QED
    BY <2>1, BlocksNames
<1>8. BlocksRight(blk)' /\ CountsRight(blk)' /\ BlocksTyped'
  BY <1>3, <1>4, <1>7, BlocksStay
<1>9. EmptiedByOne'
  BY <1>3, <1>4, ProducerKeeps
<1>10. EntriesRight(ent, blk, s2)'
  <2>1. PICK x \in Nat, y \in Nat \ {0} : x = w + 1 /\ y = z + z
    OBVIOUS
  <2>2. Newest' = x /\ Places(x)' = y /\ Len(entries)' = y
    BY <1>4, <2>1 DEF Doubled
  <2>3. ASSUME NEW m \in Nat, Entered(m)'
        PROVE  /\ n - y <= m /\ ent[m] = EntryOf(s2, x, m)'
               /\ KeyOf(ent[m])' = Start(m) /\ ValueOf(ent[m])' = blk[m]
    <3>1. Entered(m) /\ m < n
      BY <1>4, <1>7, <2>3 DEF Entered
    <3>2. n - z <= m /\ ent[m] = EntryOf(shift, w, m) /\ ValueOf(ent[m]) = blk[m]
      BY <1>3, <1>4, <3>1 DEF EntriesRight
    <3>3. /\ EntryOf(s2, w + 1, m)' = EntryOf(shift, w, m)
          /\ KeyOf(EntryOf(s2, w + 1, m))' = Start(m)
          /\ ValueOf(EntryOf(shift, w, m))' = ValueOf(EntryOf(shift, w, m))
      <4>1. m \in Int
        OBVIOUS
      <4>2. n - z <= m /\ m < n
        BY <3>1, <3>2
      <4>3. NumberKept(shift, s2, w, m)
        BY <1>1, <1>3, <4>1, <4>2, GrownNumber
      <4> QED
        BY <4>3 DEF NumberKept
    <3>4. PICK f : f = EntryOf(shift, w, m)
      OBVIOUS
    <3>5. EntryOf(s2, x, m)' = f /\ ent[m] = f /\ KeyOf(f)' = Start(m)
      BY <2>1, <3>2, <3>3, <3>4 DEF KeyOf
    <3>6. ValueOf(f)' = blk[m]
      <4>1. EntryOf(shift, w, m)' = f
        <5>1. PICK p \in Nat : p = (shift[w] + m) % Places(w) /\ p < Places(w)
          <6>1. w \in Nat /\ w <= Newest /\ m \in Int
            BY <1>4
          <6> QED
            BY <1>3, <1>4, <6>1, PlaceIs
        <5>2. PointsTo(w, p)' = PointsTo(w, p) /\ Places(w)' = Places(w)
          BY <1>0, <1>1, <1>3, <1>4, <5>1 DEF OldKept
        <5> QED
          BY <3>4, <5>1, <5>2 DEF EntryOf, PointsTo, Places
      <4> QED
        BY <3>2, <3>3, <3>4, <4>1 DEF ValueOf
    <3> QED
      BY <2>1, <3>2, <3>5, <3>6 DEF KeyOf, ValueOf
  <2>4. ASSUME NEW e \in Nat, 1 <= e, e <= y, ValueOf(e)' # 0 PROVE \E m \in Nat : Entered(m)' /\ ent[m] = e
    <3>1. e <= z
      BY <1>4, <2>1, <2>4 DEF Doubled
    <3>2. ValueOf(e)' = ValueOf(e) /\ e <= Len(entries)
      <4>1. z = Len(entries)
        BY <1>3, <1>4, NewestIs
      <4> QED
        BY <1>4, <2>4, <3>1, <4>1 DEF Doubled
    <3>3. PICK m \in Nat : Entered(m) /\ ent[m] = e
      BY <1>3, <2>4, <3>2 DEF EntriesRight
    <3> QED
      BY <1>7, <3>3
  <2>5. Places(Newest)' = y
    BY <2>2 DEF Places, Newest
  <2> QED
    BY <1>4, <2>2, <2>3, <2>4, <2>5 DEF EntriesRight, EntryOf, KeyOf, ValueOf, Newest, PointsTo, Places, Start
<1>11. AllSeek(ent, blk, s2)'
  <2>1. ListGrows(shift, s2)
    <3>1. Newest \in Nat /\ Newest' = w + 1
      BY <1>4 DEF Doubled
    <3>2. ASSUME NEW v \in Nat, 1 <= v, v <= Newest
          PROVE  /\ Places(v)' = Places(v) /\ s2[v] = shift[v]
                 /\ \A p \in Nat : p < Places(v) =>
                      /\ PointsTo(v, p)' = PointsTo(v, p)
                      /\ Keyed(PointsTo(v, p)) => Keyed(PointsTo(v, p))'
                 /\ Keyed(PointsTo(v, TailOf(v))) => Keyed(PointsTo(v, TailOf(v)))'
      <4>1. /\ Places(v)' = Places(v) /\ s2[v] = shift[v] /\ TailOf(v)' = TailOf(v)
            /\ \A p \in Nat : p < Places(v) =>
                 /\ PointsTo(v, p)' = PointsTo(v, p)
                 /\ Keyed(PointsTo(v, p))' <=> Keyed(PointsTo(v, p))
        BY <1>0, <1>1, <1>3, <1>4, <3>2 DEF OldKept
      <4>2. PICK t \in Nat : t = TailOf(v) /\ t < Places(v)
        BY <1>3, <3>2, ListIs
      <4>3. Keyed(PointsTo(v, t))' <=> Keyed(PointsTo(v, t))
        BY <4>1, <4>2
      <4>4. TailOf(v)' = t
        BY <4>1, <4>2
      <4> QED
        BY <4>1, <4>2, <4>3, <4>4 DEF Keyed, KeyOf, PointsTo
    <3> QED
      BY <1>4, <3>1, <3>2 DEF ListGrows
  <2> QED
    BY <1>3, <1>4, <2>1, ProducerSeeks
<1>12. ImplicitWell(ent, blk, s2, o)'
  BY <1>3, <1>6, <1>8, <1>9, <1>10, <1>11 DEF ImplicitWell
<1> QED
  BY <1>12

(* The tail of the newest index moves.                                     *)
TailMoved(t) ==
  /\ UNCHANGED entries /\ headers' \in Seq(Indices) /\ Newest' = Newest
  /\ \A v \in Nat : 1 <= v /\ v <= Newest =>
       /\ Places(v)' = Places(v) /\ TailOf(v)' = (IF v = Newest THEN t ELSE TailOf(v))
       /\ \A p : PointsTo(v, p)' = PointsTo(v, p)

LEMMA TailIsMoved ==
  ASSUME ListTyped, NEW w \in Nat, w = Newest, 1 <= w, NEW t \in Nat, UNCHANGED entries,
         headers' = [headers EXCEPT ![w].tail = t]
  PROVE  TailMoved(t)
<1>1. PICK h \in Indices : h = headers[w]
  BY SeqAt DEF ListTyped, Newest
<1>2. PICK r : r = [h EXCEPT !.tail = t]
  OBVIOUS
<1>3. h.index \in Seq(Nat) /\ h = [tail |-> h.tail, index |-> h.index]
  BY DEF Indices
<1>4. r = [tail |-> t, index |-> h.index]
  BY <1>2, <1>3
<1>5. r \in Indices
  BY <1>3, <1>4 DEF Indices
<1>6. headers' = [headers EXCEPT ![w] = r]
  BY <1>1, <1>2
<1>7. headers \in Seq(Indices) /\ Len(headers) = w /\ w \in 1..Len(headers)
  BY DEF ListTyped, Newest
<1>8. /\ headers' \in Seq(Indices) /\ Len(headers') = Len(headers)
      /\ \A j \in 1..Len(headers) : headers'[j] = IF j = w THEN r ELSE headers[j]
  BY <1>5, <1>6, <1>7, ExceptSeq
<1>9. ASSUME NEW v \in Nat, 1 <= v, v <= Newest
      PROVE  /\ Places(v)' = Places(v) /\ TailOf(v)' = (IF v = Newest THEN t ELSE TailOf(v))
             /\ \A p : PointsTo(v, p)' = PointsTo(v, p)
  <2>1. v \in 1..Len(headers)
    BY <1>7, <1>9 DEF Newest
  <2>2. headers'[v] = IF v = w THEN r ELSE headers[v]
    BY <1>8, <2>1
  <2> QED
    BY <1>1, <1>4, <2>2 DEF Places, TailOf, PointsTo
<1> QED
  BY <1>8, <1>9 DEF TailMoved, Newest

LEMMA TailNames ==
  ASSUME ListTyped, NEW t, TailMoved(t), NEW shift
  PROVE  /\ Newest' = Newest /\ Places(Newest)' = Places(Newest) /\ TailOf(Newest)' = t
         /\ \A n : EntryOf(shift, Newest, n)' = EntryOf(shift, Newest, n)
         /\ \A e : /\ KeyOf(e)' = KeyOf(e) /\ ValueOf(e)' = ValueOf(e)
                   /\ Keyed(e)' <=> Keyed(e)
<1>1. PICK w \in Nat : w = Newest /\ 1 <= w
  BY NewestIs
<1>2. /\ Newest' = w /\ Places(w)' = Places(w) /\ TailOf(w)' = t
      /\ \A p : PointsTo(w, p)' = PointsTo(w, p)
  BY <1>1 DEF TailMoved
<1>3. \A n : EntryOf(shift, w, n)' = EntryOf(shift, w, n)
  BY <1>2 DEF EntryOf
<1>4. \A e : KeyOf(e)' = KeyOf(e) /\ ValueOf(e)' = ValueOf(e) /\ (Keyed(e)' <=> Keyed(e))
  BY DEF TailMoved, KeyOf, ValueOf, Keyed
<1> QED
  BY <1>1, <1>2, <1>3, <1>4 DEF Places, TailOf, EntryOf, PointsTo, Newest

LEMMA TailListTyped ==
  ASSUME ListTyped, NEW t \in Nat, TailMoved(t), t < Places(Newest), ListStaged'
  PROVE  ListTyped'
<1>1. /\ Newest' = Newest /\ Places(Newest)' = Places(Newest)
      /\ \A e : ValueOf(e)' = ValueOf(e)
  BY TailNames
<1>2. ASSUME NEW v \in Nat, 1 <= v, v <= Newest
      PROVE  /\ Places(v)' > 0 /\ TailOf(v)' < Places(v)'
             /\ \A p \in Nat : p < Places(v)' => 1 <= PointsTo(v, p)' /\ PointsTo(v, p)' <= Len(entries)
             /\ \E k \in Nat \ {0} : Places(Newest) = Places(v)' * k
  <2>1. /\ Places(v)' = Places(v) /\ TailOf(v)' = (IF v = Newest THEN t ELSE TailOf(v))
        /\ \A p : PointsTo(v, p)' = PointsTo(v, p)
    BY <1>2 DEF TailMoved
  <2> QED
    BY <1>2, <2>1 DEF ListTyped
<1>3. entries' = entries /\ headers' \in Seq(Indices)
  BY DEF TailMoved
<1>4. \A p, q \in Nat : p < Places(Newest)' /\ q < Places(Newest)'
                          /\ PointsTo(Newest, p)' = PointsTo(Newest, q)' => p = q
  <2>1. PICK w \in Nat : w = Newest /\ 1 <= w
    BY NewestIs
  <2>2. \A p : PointsTo(w, p)' = PointsTo(w, p)
    BY <2>1 DEF TailMoved
  <2>3. \A p : PointsTo(Newest, p)' = PointsTo(Newest, p)
    BY <1>1, <2>1, <2>2 DEF PointsTo, Newest
  <2> QED
    BY <1>1, <2>3 DEF ListTyped
<1> QED
  BY <1>1, <1>2, <1>3, <1>4 DEF ListTyped, Blocks

LEMMA TailCongruent ==
  ASSUME ListTyped, NEW shift, KeysCongruent(shift), NEW t \in Nat, TailMoved(t), t < Places(Newest),
         NEW r \in Nat, Reached' = r,
         shift[Newest] % Places(Newest) = (t - (r - 1)) % Places(Newest),
         r > 0 => Keyed(PointsTo(Newest, t))
  PROVE  KeysCongruent(shift)'
<1>1. /\ Newest' = Newest /\ Places(Newest)' = Places(Newest) /\ TailOf(Newest)' = t
      /\ \A e : KeyOf(e)' = KeyOf(e) /\ (Keyed(e)' <=> Keyed(e))
  BY TailNames
<1>2. ASSUME NEW v \in Nat, NEW p \in Nat, 1 <= v, v <= Newest
      PROVE  /\ Places(v)' = Places(v) /\ PointsTo(v, p)' = PointsTo(v, p)
             /\ Keyed(PointsTo(v, p))' <=> Keyed(PointsTo(v, p))
             /\ KeyOf(PointsTo(v, p))' = KeyOf(PointsTo(v, p))
  <2>1. PICK f : f = PointsTo(v, p)
    OBVIOUS
  <2>2. PointsTo(v, p)' = f /\ Places(v)' = Places(v)
    BY <1>2, <2>1 DEF TailMoved
  <2>3. KeyOf(f)' = KeyOf(f) /\ (Keyed(f)' <=> Keyed(f))
    BY <1>1
  <2> QED
    BY <2>1, <2>2, <2>3 DEF Keyed, KeyOf
<1>3. ASSUME NEW v \in Nat, NEW p \in Nat, 1 <= v, v <= Newest, p < Places(v), Keyed(PointsTo(v, p))'
      PROVE  /\ Off(KeyOf(PointsTo(v, p)))' = 0
             /\ (p - Num(KeyOf(PointsTo(v, p)))') % Places(v) = shift[v] % Places(v)
  <2>1. PICK k : k = KeyOf(PointsTo(v, p)) /\ k = KeyOf(PointsTo(v, p))'
    BY <1>2, <1>3
  <2>2. Off(k) = 0 /\ (p - Num(k)) % Places(v) = shift[v] % Places(v)
    BY <1>2, <1>3, <2>1 DEF KeysCongruent
  <2> QED
    BY <2>1, <2>2 DEF Off, Num
<1>4. ASSUME r > 0 PROVE Keyed(PointsTo(Newest, TailOf(Newest)))'
  <2>1. PICK w \in Nat : w = Newest /\ 1 <= w /\ w <= Newest
    BY NewestIs
  <2>2. Keyed(PointsTo(w, t))'
    BY <1>2, <1>4, <2>1
  <2> QED
    BY <1>1, <2>1, <2>2 DEF Keyed, KeyOf, PointsTo, TailOf, Newest
<1>5. \A v, p \in Nat : 1 <= v /\ v < Newest /\ p < Places(v) => Keyed(PointsTo(v, p))'
  <2>1. Newest \in Nat
    BY NewestIs
  <2> QED
    BY <1>2, <2>1 DEF KeysCongruent
<1>6. \A v \in Nat : 1 <= v /\ v <= Newest => Places(v)' = Places(v)
  BY DEF TailMoved
<1>7. Newest \in Nat
  BY NewestIs
<1>8. \A v, p \in Nat : 1 <= v /\ v <= Newest' /\ p < Places(v)' /\ Keyed(PointsTo(v, p))' =>
        /\ Off(KeyOf(PointsTo(v, p)))' = 0
        /\ (p - Num(KeyOf(PointsTo(v, p)))') % Places(v)' = shift[v] % Places(v)'
  BY <1>1, <1>3, <1>6
<1>9. \A v, p \in Nat : 1 <= v /\ v < Newest' /\ p < Places(v)' => Keyed(PointsTo(v, p))'
  BY <1>1, <1>5, <1>6, <1>7
<1>10. shift[Newest'] % Places(Newest)' = (TailOf(Newest)' - (Reached' - 1)) % Places(Newest)'
  BY <1>1
<1> QED
  BY <1>4, <1>8, <1>9, <1>10 DEF KeysCongruent

LEMMA TailGrows ==
  ASSUME ListTyped, NEW t \in Nat, TailMoved(t), NEW shift,
         Keyed(PointsTo(Newest, t))
  PROVE  ListGrows(shift, shift)
<1>1. PICK w \in Nat : w = Newest /\ 1 <= w
  BY NewestIs
<1>2. \A e : Keyed(e)' <=> Keyed(e)
  BY TailNames
<1>3. ASSUME NEW v \in Nat, 1 <= v, v <= w, NEW p
      PROVE  PointsTo(v, p)' = PointsTo(v, p) /\ (Keyed(PointsTo(v, p))' <=> Keyed(PointsTo(v, p)))
  <2>1. PICK f : f = PointsTo(v, p)
    OBVIOUS
  <2>2. PointsTo(v, p)' = f
    BY <1>1, <1>3, <2>1 DEF TailMoved
  <2> QED
    BY <1>2, <2>1, <2>2 DEF Keyed, KeyOf
<1>4. ASSUME NEW v \in Nat, 1 <= v, v <= w, Keyed(PointsTo(v, TailOf(v)))
      PROVE  Keyed(PointsTo(v, TailOf(v)))'
  <2>1. PICK q : q = TailOf(v)'
    OBVIOUS
  <2>2. q = IF v = w THEN t ELSE TailOf(v)
    BY <1>1, <1>4, <2>1 DEF TailMoved
  <2>3. Keyed(PointsTo(v, q))
    BY <1>1, <1>4, <2>2
  <2>4. Keyed(PointsTo(v, q))'
    BY <1>3, <1>4, <2>3
  <2> QED
    BY <2>1, <2>4 DEF Keyed, KeyOf, PointsTo
<1>5. Newest' = w /\ \A v \in Nat : 1 <= v /\ v <= w => Places(v)' = Places(v)
  BY <1>1 DEF TailMoved
<1> QED
  BY <1>1, <1>3, <1>4, <1>5 DEF ListGrows

(* Between the tail and the value, the producer is at the number n, whose  *)
(* entry leads nowhere yet.                                                *)
AtNumber(ent, shift, n) ==
  /\ Off(tailIndex) = 0 /\ n = Num(tailIndex) /\ tailIndex = Start(n) /\ Begun = n
  /\ ent[n] = EntryOf(shift, Newest, n) /\ KeyOf(ent[n]) = Start(n)
  /\ ent[n] \in Nat /\ 1 <= ent[n] /\ ent[n] <= Len(entries) /\ ValueOf(ent[n]) = 0
  /\ Keyed(ent[n])

LEMMA NumberIs ==
  ASSUME CountInv, NEW ent, NEW blk, NEW shift, NEW low,
         ImplicitWell(ent, blk, shift, low), ppc \in {"publish", "block", "rewound"}
  PROVE  \E n \in Nat : AtNumber(ent, shift, n)
<1>1. ListTyped /\ KeysCongruent(shift) /\ EntriesRight(ent, blk, shift) /\ KeyInserted(ent, shift)
  BY DEF ImplicitWell, KeysInv
<1>2. Off(tailIndex) = 0 /\ tailIndex \in Nat /\ Num(tailIndex) \in Nat
  BY <1>1, BegunTyped DEF ListTyped, ListStaged
<1>3. PICK n \in Nat : n = Num(tailIndex)
  BY <1>2
<1>4. tailIndex = Start(n) /\ Begun = n
  BY <1>2, <1>3, StartOff DEF Begun
<1>5. ent[n] = EntryOf(shift, Newest, n) /\ KeyOf(ent[n]) = Start(n)
  BY <1>1, <1>3 DEF KeyInserted
<1>6. PICK e \in Nat : e = EntryOf(shift, Newest, n) /\ 1 <= e /\ e <= Len(entries)
  <2>1. Newest \in Nat /\ 1 <= Newest /\ Newest <= Newest /\ n \in Int /\ shift \in [Nat -> Int]
    BY <1>1, NewestIs DEF KeysCongruent
  <2>2. /\ EntryOf(shift, Newest, n) \in Nat /\ 1 <= EntryOf(shift, Newest, n)
        /\ EntryOf(shift, Newest, n) <= Len(entries)
    BY <1>1, <2>1, PlaceIs
  <2> QED
    BY <2>2
<1>7. ValueOf(e) = 0
  <2>1. ASSUME ValueOf(e) # 0 PROVE FALSE
    <3>1. PICK m \in Nat : m < Begun /\ KeyOf(e) = Start(m)
      BY <1>1, <1>6, <2>1, ValueEntered
    <3>2. Start(m) = Start(n)
      BY <1>5, <1>6, <3>1
    <3>3. m = n
      BY <3>2, StartApart
    <3> QED
      BY <1>4, <3>1, <3>3
  <2> QED
    BY <2>1
<1>8. Keyed(ent[n])
  BY <1>5, StartNotOne DEF Keyed
<1>9. AtNumber(ent, shift, n)
  BY <1>2, <1>3, <1>4, <1>5, <1>6, <1>7, <1>8 DEF AtNumber
<1> QED
  BY <1>9

(* When the tail moves, the entries in use stay in the index.              *)
LEMMA TailEntries ==
  ASSUME ListTyped, NEW ent, NEW blk, NEW shift, EntriesRight(ent, blk, shift),
         NEW t, TailMoved(t), \A m \in Nat : Entered(m)' <=> Entered(m),
         \A m \in Nat : Entered(m) => Reached' - Places(Newest) <= m
  PROVE  EntriesRight(ent, blk, shift)'
<1>1. /\ Newest' = Newest /\ Places(Newest)' = Places(Newest)
      /\ \A n : EntryOf(shift, Newest, n)' = EntryOf(shift, Newest, n)
      /\ \A e : KeyOf(e)' = KeyOf(e) /\ ValueOf(e)' = ValueOf(e)
  BY TailNames
<1>2. entries' = entries
  BY DEF TailMoved
<1>3. ASSUME NEW m \in Nat, Entered(m)'
      PROVE  /\ Reached' - Places(Newest)' <= m /\ ent[m] = EntryOf(shift, Newest, m)'
             /\ KeyOf(ent[m])' = Start(m) /\ ValueOf(ent[m])' = blk[m]
  BY <1>1, <1>3 DEF EntriesRight
<1>4. ASSUME NEW e \in Nat, 1 <= e, e <= Len(entries), ValueOf(e)' # 0
      PROVE  \E m \in Nat : Entered(m)' /\ ent[m] = e
  BY <1>1, <1>4 DEF EntriesRight
<1> QED
  BY <1>2, <1>3, <1>4 DEF EntriesRight, Start

LEMMA PublishTailMoves ==
  ASSUME CountInv, NEW ent, NEW blk, NEW shift, NEW low,
         ImplicitWell(ent, blk, shift, low), I!PublishTail
  PROVE  \E n \in Nat, t \in Nat :
           /\ AtNumber(ent, shift, n) /\ TailMoved(t) /\ t < Places(Newest)
           /\ PointsTo(Newest, t) = ent[n]
           /\ shift[Newest] % Places(Newest) = (t - n) % Places(Newest)
           /\ ppc = "publish" /\ ppc' = "block"
           /\ UNCHANGED <<tailIndex, headIndex, cons, tailBlock, dequeued, free>>
           /\ Reached = n /\ Begun' = n /\ Reached' = n + 1
<1>1. ListTyped /\ KeysCongruent(shift)
  BY DEF ImplicitWell, KeysInv
<1>2. /\ ppc = "publish" /\ ppc' = "block" /\ UNCHANGED entries
      /\ UNCHANGED <<tailIndex, headIndex, cons, tailBlock, dequeued, free>>
  BY DEF I!PublishTail, I!counters
<1>3. PICK n \in Nat : AtNumber(ent, shift, n)
  BY <1>2, NumberIs
<1>4. PICK w \in Nat, z \in Nat \ {0}, s \in Int : w = Newest /\ z = Places(w) /\ 1 <= w /\ s = shift[w]
  BY <1>1, NewestIs DEF KeysCongruent
<1>5. PICK u \in Nat : u = TailOf(w) /\ u < z
  BY <1>1, <1>4, NewestIs
<1>6. PICK x \in Nat : x = u + 1
  OBVIOUS
<1>7. PICK t \in Nat : t = x % z /\ t < z
  BY <1>6, PlaceTyped
<1>8. headers' = [headers EXCEPT ![w].tail = t]
  <2>1. headers' = [headers EXCEPT ![w].tail = (headers[w].tail + 1) % I!Size(I!header)]
    BY <1>4 DEF I!PublishTail, Newest
  <2>2. (headers[w].tail + 1) % I!Size(I!header) = t
    BY <1>4, <1>5, <1>6, <1>7, HeaderEntry DEF TailOf
  <2> QED
    BY <2>1, <2>2
<1>9. TailMoved(t)
  BY <1>1, <1>2, <1>4, <1>8, TailIsMoved
<1>10. Begun = n /\ Reached = n /\ Begun' = n /\ Reached' = n + 1
  <2>1. Begun = n /\ Reached = n
    BY <1>2, <1>3 DEF AtNumber, Reached
  <2>2. Begun' = n
    BY <1>2, <1>3 DEF AtNumber, Begun, Off, Num
  <2> QED
    BY <1>2, <2>1, <2>2 DEF Reached
<1>11. PointsTo(w, t) = ent[n]
  <2>1. EntryOf(shift, Newest, Reached) = PointsTo(Newest, (TailOf(Newest) + 1) % Places(Newest))
    BY <1>1, <1>10, TailPlace
  <2>2. EntryOf(shift, w, n) = PointsTo(w, t)
    BY <1>4, <1>5, <1>6, <1>7, <1>10, <2>1
  <2> QED
    BY <1>3, <1>4, <2>2 DEF AtNumber
<1>12. s % z = (t - n) % z
  <2>1. s % z = (u - (n - 1)) % z
    BY <1>1, <1>4, <1>5, <1>10 DEF KeysCongruent
  <2>2. PICK d \in Int : d = 0 - n
    OBVIOUS
  <2>3. t % z = x % z
    <3>1. x \in Int
      OBVIOUS
    <3>2. (x % z) % z = x % z
      BY <3>1, ModMod
    <3> QED
      BY <1>7, <3>2
  <2>4. Shifts(t, x, d, z)
    BY ModShifts
  <2>5. (t + d) % z = (x + d) % z
    BY <2>3, <2>4 DEF Shifts
  <2>6. t + d = t - n /\ x + d = u - (n - 1)
    BY <1>6, <2>2
  <2> QED
    BY <2>1, <2>5, <2>6
<1> QED
  BY <1>2, <1>3, <1>4, <1>7, <1>9, <1>10, <1>11, <1>12

LEMMA ListByPublishTail ==
  ASSUME CountInv, RangeInv, NEW ent, NEW blk, NEW shift, NEW low,
         ImplicitWell(ent, blk, shift, low), I!PublishTail
  PROVE  ImplicitWell(ent, blk, shift, low)'
<1>1. PICK n \in Nat, t \in Nat :
        /\ AtNumber(ent, shift, n) /\ TailMoved(t) /\ t < Places(Newest)
        /\ PointsTo(Newest, t) = ent[n]
        /\ shift[Newest] % Places(Newest) = (t - n) % Places(Newest)
        /\ ppc = "publish" /\ ppc' = "block"
        /\ UNCHANGED <<tailIndex, headIndex, cons, tailBlock, dequeued, free>>
        /\ Reached = n /\ Begun' = n /\ Reached' = n + 1
  BY PublishTailMoves
<1>2. /\ ent \in [Nat -> Nat] /\ blk \in [Nat -> Nat] /\ BlocksRight(blk)
      /\ ListTyped /\ KeysCongruent(shift) /\ shift \in [Nat -> Int] /\ EntriesRight(ent, blk, shift)
      /\ KeysLatest(shift, low) /\ KeyInserted(ent, shift)
      /\ AllSeek(ent, blk, shift) /\ CountsRight(blk) /\ BlocksTyped /\ EmptiedByOne
  BY DEF ImplicitWell, KeysInv, KeysCongruent
<1>3. PICK w \in Nat, z \in Nat \ {0} : w = Newest /\ z = Places(w) /\ 1 <= w
  BY <1>2, NewestIs
<1>4. PICK r \in Nat : r = n + 1
  OBVIOUS
<1>5. /\ Newest' = w /\ Places(w)' = z /\ TailOf(w)' = t
      /\ \A m : EntryOf(shift, w, m)' = EntryOf(shift, w, m)
      /\ \A e : KeyOf(e)' = KeyOf(e) /\ ValueOf(e)' = ValueOf(e) /\ (Keyed(e)' <=> Keyed(e))
  BY <1>1, <1>2, <1>3, TailNames DEF EntryOf, Places, TailOf, PointsTo
<1>6. Keyed(PointsTo(Newest, t))
  BY <1>1 DEF AtNumber
<1>7. ListTyped'
  <2>1. ListStaged'
    BY <1>1, <1>2 DEF ListTyped, ListStaged, Off
  <2> QED
    BY <1>1, <1>2, <2>1, TailListTyped
<1>8. KeysCongruent(shift)'
  <2>1. Reached' = r /\ shift[Newest] % Places(Newest) = (t - (r - 1)) % Places(Newest)
    <3>1. r - 1 = n
      BY <1>4
    <3> QED
      BY <1>1, <1>4, <3>1
  <2> QED
    BY <1>1, <1>2, <1>6, <2>1, TailCongruent
<1>9. KeysLatest(shift, low)'
  <2>1. low \in Nat /\ (low = 0 \/ low < n)
    BY <1>1, <1>2 DEF KeysLatest, AtNumber
  <2>2. ASSUME NEW m \in Int, r - z <= m, m < r
        PROVE  \/ low <= m /\ KeyOf(EntryOf(shift, w, m))' = Start(m)
               \/ m < low /\ ~ Keyed(EntryOf(shift, w, m))'
    <3>1. CASE m = n
      <4>1. KeyOf(EntryOf(shift, w, m)) = Start(m)
        BY <1>1, <1>3, <3>1 DEF AtNumber
      <4> QED
        BY <1>5, <2>1, <3>1, <4>1 DEF KeyOf
    <3>2. CASE m # n
      <4>1. NumberedAs(low, m, EntryOf(shift, w, m))
        BY <1>1, <1>2, <1>3, <1>4, <2>2, <3>2 DEF KeysLatest
      <4>2. \/ low <= m /\ KeyOf(EntryOf(shift, w, m)) = Start(m)
            \/ m < low /\ ~ Keyed(EntryOf(shift, w, m))
        BY <1>1, <1>3, <1>4, <2>2, <4>1 DEF NumberedAs
      <4> QED
        BY <1>5, <4>2 DEF KeyOf, Keyed
    <3> QED
      BY <3>1, <3>2
  <2>3. ASSUME NEW m \in Int, r - z <= m, m < r PROVE NumberedAs(low, m, EntryOf(shift, w, m))'
    BY <2>2, <2>3 DEF NumberedAs, Start
  <2> QED
    BY <1>1, <1>4, <1>5, <2>1, <2>3 DEF KeysLatest, EntryOf, Places
<1>10. KeyInserted(ent, shift)'
  <2>1. Num(tailIndex)' = n /\ ent[n] = EntryOf(shift, w, n)' /\ KeyOf(ent[n])' = Start(n)
    BY <1>1, <1>3, <1>5 DEF AtNumber, Num
  <2> QED
    BY <1>5, <2>1 DEF KeyInserted, Num, EntryOf, KeyOf, Start, Newest
<1>11. BlocksLike /\ \A m \in Nat : Entered(m)' <=> Entered(m)
  <2>1. BlocksLike
    BY <1>1, ProducerKeeps DEF BlocksLike, KeepsSame, AtNumber
  <2> QED
    BY <2>1, BlocksNames
<1>12. BlocksRight(blk)' /\ CountsRight(blk)' /\ BlocksTyped'
  BY <1>1, <1>2, <1>11, BlocksStay
<1>13. EmptiedByOne'
  BY <1>1, <1>2, ProducerKeeps
<1>14. EntriesRight(ent, blk, shift)'
  <2>1. ASSUME NEW m \in Nat, Entered(m) PROVE Reached' - Places(Newest) <= m
    <3>1. /\ n - z <= m /\ m < n /\ ent[m] = EntryOf(shift, w, m) /\ KeyOf(ent[m]) = Start(m)
      BY <1>1, <1>2, <1>3, <2>1 DEF EntriesRight, Entered, AtNumber
    <3>2. m # n - z
      <4>1. ASSUME m = n - z PROVE FALSE
        <5>1. EntryOf(shift, Newest, n - Places(Newest)) = EntryOf(shift, Newest, n)
          <6>1. n \in Int
            OBVIOUS
          <6> QED
            BY <1>2, <6>1, EntryAgain
        <5>2. ent[m] = ent[n]
          BY <1>1, <1>3, <3>1, <4>1, <5>1 DEF AtNumber
        <5>3. Start(m) = Start(n)
          BY <1>1, <3>1, <5>2 DEF AtNumber
        <5>4. m = n
          BY <5>3, StartApart
        <5> QED
          BY <3>1, <5>4
      <4> QED
        BY <4>1
    <3> QED
      BY <1>1, <1>3, <3>1, <3>2
  <2> QED
    BY <1>1, <1>2, <1>11, <2>1, TailEntries
<1>15. AllSeek(ent, blk, shift)'
  <2>1. ListGrows(shift, shift)
    BY <1>1, <1>2, <1>6, TailGrows
  <2> QED
    BY <1>1, <1>2, <2>1, ProducerSeeks
<1> QED
  BY <1>2, <1>7, <1>8, <1>9, <1>10, <1>12, <1>13, <1>14, <1>15 DEF ImplicitWell, KeysInv

(* Without a block the tail goes back, to the number before.               *)
LEMMA RewindMoves ==
  ASSUME CountInv, NEW ent, NEW blk, NEW shift, NEW low,
         ImplicitWell(ent, blk, shift, low), I!Rewind
  PROVE  \E n \in Nat, t \in Nat :
           /\ AtNumber(ent, shift, n) /\ TailMoved(t) /\ t < Places(Newest)
           /\ PointsTo(Newest, t) = EntryOf(shift, Newest, n - 1)
           /\ shift[Newest] % Places(Newest) = (t - (n - 1)) % Places(Newest)
           /\ ppc = "block" /\ ppc' = "rewound"
           /\ UNCHANGED <<tailIndex, headIndex, cons, tailBlock, dequeued, free>>
           /\ Reached = n + 1 /\ Begun' = n /\ Reached' = n
<1>1. ListTyped /\ KeysCongruent(shift)
  BY DEF ImplicitWell, KeysInv
<1>2. /\ ppc = "block" /\ ppc' = "rewound" /\ UNCHANGED entries
      /\ UNCHANGED <<tailIndex, headIndex, cons, tailBlock, dequeued, free>>
  BY DEF I!Rewind, I!counters
<1>3. PICK n \in Nat : AtNumber(ent, shift, n)
  BY <1>2, NumberIs
<1>4. PICK w \in Nat, z \in Nat \ {0}, s \in Int : w = Newest /\ z = Places(w) /\ 1 <= w /\ s = shift[w]
  BY <1>1, NewestIs DEF KeysCongruent
<1>5. PICK u \in Nat : u = TailOf(w) /\ u < z
  BY <1>1, <1>4, NewestIs
<1>6. PICK x \in Int : x = u + z - 1
  OBVIOUS
<1>7. PICK t \in Nat : t = x % z /\ t < z
  BY <1>6, PlaceTyped
<1>8. headers' = [headers EXCEPT ![w].tail = t]
  <2>1. headers' = [headers EXCEPT ![w].tail = (headers[w].tail + I!Size(I!header) - 1) % I!Size(I!header)]
    BY <1>4 DEF I!Rewind, Newest
  <2>2. (headers[w].tail + I!Size(I!header) - 1) % I!Size(I!header) = t
    BY <1>4, <1>5, <1>6, <1>7, HeaderEntry DEF TailOf
  <2> QED
    BY <2>1, <2>2
<1>9. TailMoved(t)
  BY <1>1, <1>2, <1>4, <1>8, TailIsMoved
<1>10. Begun = n /\ Reached = n + 1 /\ Begun' = n /\ Reached' = n
  <2>1. Begun = n /\ Reached = n + 1
    BY <1>2, <1>3 DEF AtNumber, Reached
  <2>2. Begun' = n
    BY <1>2, <1>3 DEF AtNumber, Begun, Off, Num
  <2> QED
    BY <1>2, <2>1, <2>2 DEF Reached
<1>11. PICK y \in Int, d \in Int : y = u - 1 /\ d = n - 1
  OBVIOUS
<1>12. t % z = y % z
  <2>1. (x % z) % z = x % z
    BY ModMod
  <2>2. (y + z) % z = y % z
    BY ModSelf
  <2>3. y + z = x
    BY <1>6, <1>11
  <2> QED
    BY <1>7, <2>1, <2>2, <2>3
<1>13. s % z = (u - n) % z
  <2>1. s % z = (u - ((n + 1) - 1)) % z
    BY <1>1, <1>4, <1>5, <1>10 DEF KeysCongruent
  <2>2. u - ((n + 1) - 1) = u - n
    OBVIOUS
  <2> QED
    BY <2>1, <2>2
<1>14. s % z = (t - d) % z
  <2>1. PICK c \in Int : c = 0 - d
    OBVIOUS
  <2>2. Shifts(t, y, c, z)
    BY ModShifts
  <2>3. (t + c) % z = (y + c) % z
    BY <1>12, <2>2 DEF Shifts
  <2>4. t + c = t - d /\ y + c = u - n
    BY <1>11, <2>1
  <2> QED
    BY <1>13, <2>3, <2>4
<1>15. PointsTo(w, t) = EntryOf(shift, w, d)
  <2>1. PICK a \in Int : a = t - d
    OBVIOUS
  <2>2. Shifts(s, a, d, z)
    BY ModShifts
  <2>3. (s + d) % z = (a + d) % z
    BY <1>14, <2>1, <2>2 DEF Shifts
  <2>4. a + d = t
    BY <2>1
  <2>5. t % z = t
    <3>1. t \in 0..(z - 1)
      BY <1>7
    <3> QED
      BY <3>1, ModSmall
  <2> QED
    BY <1>4, <2>3, <2>4, <2>5 DEF EntryOf
<1> QED
  BY <1>2, <1>3, <1>4, <1>7, <1>9, <1>10, <1>11, <1>14, <1>15

(* The number before has a key, if there is one.                           *)
LEMMA BeforeKeyed ==
  ASSUME ListTyped, NEW ent, NEW shift, NEW low, KeysLatest(shift, low), shift \in [Nat -> Int],
         NEW n \in Nat, AtNumber(ent, shift, n), ppc = "block", n > 0
  PROVE  Keyed(EntryOf(shift, Newest, n - 1))
<1>1. PICK w \in Nat, z \in Nat \ {0} : w = Newest /\ z = Places(w) /\ 1 <= w
  BY NewestIs
<1>2. PICK m \in Nat : m = n - 1
  OBVIOUS
<1>3. Reached = n + 1
  BY DEF AtNumber, Reached
<1>4. CASE z = 1
  <2>1. EntryOf(shift, Newest, n - Places(Newest)) = EntryOf(shift, Newest, n)
    <3>1. n \in Int
      OBVIOUS
    <3> QED
      BY <3>1, EntryAgain
  <2>2. Places(Newest) = 1
    BY <1>1, <1>4
  <2> QED
    BY <2>1, <2>2 DEF AtNumber
<1>5. CASE z # 1
  <2>1. NumberedAs(low, m, EntryOf(shift, w, m))
    <3>1. m \in Int /\ Reached - Places(Newest) <= m /\ m < Reached
      BY <1>1, <1>2, <1>3, <1>5
    <3> QED
      BY <1>1, <3>1 DEF KeysLatest
  <2>2. low \in Nat /\ ~ (m < low)
    <3>1. Begun = n
      BY DEF AtNumber
    <3>2. low \in Nat /\ (low = 0 \/ low < n)
      BY <3>1 DEF KeysLatest
    <3> QED
      BY <1>2, <3>2
  <2>3. KeyOf(EntryOf(shift, w, m)) = Start(m)
    BY <2>1, <2>2 DEF NumberedAs
  <2> QED
    BY <1>1, <1>2, <2>3, StartNotOne DEF Keyed
<1> QED
  BY <1>4, <1>5

(* Who has taken nothing seeks nothing.                                    *)
LEMMA NothingSought ==
  ASSUME \A c \in Consumers : ~ Takes(c), NEW ent, NEW blk, NEW shift, UNCHANGED cons
  PROVE  AllSeek(ent, blk, shift)'
<1>1. \A c \in Consumers : cons'[c].pc \notin Taking
  BY DEF Takes
<1> QED
  BY <1>1 DEF AllSeek, Seeks, Seeking, Taking

LEMMA ListByRewind ==
  ASSUME CountInv, RangeInv, NEW ent, NEW blk, NEW shift, NEW low,
         ImplicitWell(ent, blk, shift, low), I!Rewind
  PROVE  ImplicitWell(ent, blk, shift, low)'
<1>1. PICK n \in Nat, t \in Nat :
        /\ AtNumber(ent, shift, n) /\ TailMoved(t) /\ t < Places(Newest)
        /\ PointsTo(Newest, t) = EntryOf(shift, Newest, n - 1)
        /\ shift[Newest] % Places(Newest) = (t - (n - 1)) % Places(Newest)
        /\ ppc = "block" /\ ppc' = "rewound"
        /\ UNCHANGED <<tailIndex, headIndex, cons, tailBlock, dequeued, free>>
        /\ Reached = n + 1 /\ Begun' = n /\ Reached' = n
  BY RewindMoves
<1>2. /\ ent \in [Nat -> Nat] /\ blk \in [Nat -> Nat] /\ BlocksRight(blk)
      /\ ListTyped /\ KeysCongruent(shift) /\ shift \in [Nat -> Int] /\ EntriesRight(ent, blk, shift)
      /\ KeysLatest(shift, low) /\ KeyInserted(ent, shift)
      /\ AllSeek(ent, blk, shift) /\ CountsRight(blk) /\ BlocksTyped /\ EmptiedByOne
  BY DEF ImplicitWell, KeysInv, KeysCongruent
<1>3. PICK w \in Nat, z \in Nat \ {0} : w = Newest /\ z = Places(w) /\ 1 <= w
  BY <1>2, NewestIs
<1>4. n > 0 => Keyed(PointsTo(Newest, t))
  BY <1>1, <1>2, BeforeKeyed
<1>5. /\ Newest' = w /\ Places(w)' = z /\ TailOf(w)' = t
      /\ \A m : EntryOf(shift, w, m)' = EntryOf(shift, w, m)
      /\ \A e : KeyOf(e)' = KeyOf(e) /\ ValueOf(e)' = ValueOf(e) /\ (Keyed(e)' <=> Keyed(e))
  BY <1>1, <1>2, <1>3, TailNames DEF EntryOf, Places, TailOf, PointsTo
<1>6. ListTyped'
  <2>1. ListStaged'
    BY <1>1, <1>2 DEF ListTyped, ListStaged, Off
  <2> QED
    BY <1>1, <1>2, <2>1, TailListTyped
<1>7. KeysCongruent(shift)'
  BY <1>1, <1>2, <1>4, TailCongruent
<1>8. KeysLatest(shift, low)'
  <2>1. low \in Nat /\ (low = 0 \/ low < n)
    BY <1>1, <1>2 DEF KeysLatest, AtNumber
  <2>2. ASSUME NEW m \in Int, n - z <= m, m < n PROVE NumberedAs(low, m, EntryOf(shift, w, m))'
    <3>1. CASE m = n - z
      <4>1. EntryOf(shift, w, m) = ent[n]
        <5>1. EntryOf(shift, Newest, n - Places(Newest)) = EntryOf(shift, Newest, n)
          <6>1. n \in Int
            OBVIOUS
          <6> QED
            BY <1>2, <6>1, EntryAgain
        <5> QED
          BY <1>1, <1>3, <3>1, <5>1 DEF AtNumber
      <4>2. ValueOf(ent[n]) = 0
        BY <1>1 DEF AtNumber
      <4>3. ValueOf(EntryOf(shift, w, m))' = 0
        BY <1>5, <4>1, <4>2 DEF ValueOf
      <4>4. Reached' - Places(Newest)' = m
        BY <1>1, <1>5, <3>1 DEF Places, Newest
      <4> QED
        BY <1>1, <4>3, <4>4 DEF NumberedAs
    <3>2. CASE m # n - z
      <4>1. NumberedAs(low, m, EntryOf(shift, w, m))
        <5>1. Reached - Places(Newest) <= m /\ m < Reached
          BY <1>1, <1>3, <2>2, <3>2
        <5> QED
          BY <1>2, <1>3, <5>1 DEF KeysLatest
      <4>2. \/ low <= m /\ KeyOf(EntryOf(shift, w, m)) = Start(m)
            \/ m < low /\ ~ Keyed(EntryOf(shift, w, m))
        BY <1>1, <4>1 DEF NumberedAs
      <4>3. \/ low <= m /\ KeyOf(EntryOf(shift, w, m))' = Start(m)
            \/ m < low /\ ~ Keyed(EntryOf(shift, w, m))'
        BY <1>5, <4>2 DEF KeyOf, Keyed
      <4> QED
        BY <4>3 DEF NumberedAs, Start
    <3> QED
      BY <3>1, <3>2
  <2> QED
    BY <1>1, <1>5, <2>1, <2>2 DEF KeysLatest, EntryOf, Places
<1>9. KeyInserted(ent, shift)'
  <2>1. Num(tailIndex)' = n /\ ent[n] = EntryOf(shift, w, n)' /\ KeyOf(ent[n])' = Start(n)
    BY <1>1, <1>3, <1>5 DEF AtNumber, Num
  <2> QED
    BY <1>5, <2>1 DEF KeyInserted, Num, EntryOf, KeyOf, Start, Newest
<1>10. BlocksLike /\ \A m \in Nat : Entered(m)' <=> Entered(m)
  <2>1. BlocksLike
    BY <1>1, ProducerKeeps DEF BlocksLike, KeepsSame, AtNumber
  <2> QED
    BY <2>1, BlocksNames
<1>11. BlocksRight(blk)' /\ CountsRight(blk)' /\ BlocksTyped'
  BY <1>1, <1>2, <1>10, BlocksStay
<1>12. EmptiedByOne'
  BY <1>1, <1>2, ProducerKeeps
<1>13. EntriesRight(ent, blk, shift)'
  <2>1. ASSUME NEW m \in Nat, Entered(m) PROVE Reached' - Places(Newest) <= m
    <3>1. (n + 1) - z <= m
      BY <1>1, <1>2, <1>3, <2>1 DEF EntriesRight
    <3> QED
      BY <1>1, <1>3, <3>1
  <2> QED
    BY <1>1, <1>2, <1>10, <2>1, TailEntries
<1>14. AllSeek(ent, blk, shift)'
  <2>1. CASE n > 0
    <3>1. ListGrows(shift, shift)
      BY <1>1, <1>2, <1>4, <2>1, TailGrows
    <3> QED
      BY <1>1, <1>2, <3>1, ProducerSeeks
  <2>2. CASE n = 0
    <3>1. ASSUME NEW c \in Consumers PROVE ~ Takes(c)
      <4>1. Takes(c) => Num(cons[c].pos) \in Nat /\ Num(cons[c].pos) < Begun
        BY <1>2, PosBegun DEF ListTyped
      <4> QED
        BY <1>1, <2>2, <4>1 DEF AtNumber
    <3> QED
      BY <1>1, <3>1, NothingSought
  <2> QED
    BY <2>1, <2>2
<1> QED
  BY <1>2, <1>6, <1>7, <1>8, <1>9, <1>11, <1>12, <1>13, <1>14 DEF ImplicitWell, KeysInv

(* The entry led nowhere, so that freeing it changes nothing.              *)
LEMMA SameAt ==
  ASSUME NEW S, NEW s \in Seq(S), NEW k \in Nat, 1 <= k, k <= Len(s)
  PROVE  [s EXCEPT ![k] = s[k]] = s
OBVIOUS

LEMMA ListByFreeEntry ==
  ASSUME CountInv, RangeInv, NEW ent, NEW blk, NEW shift, NEW low,
         ImplicitWell(ent, blk, shift, low), I!FreeEntry
  PROVE  ImplicitWell(ent, blk, shift, low)'
<1>1. ListTyped /\ KeysCongruent(shift)
  BY DEF ImplicitWell, KeysInv
<1>2. /\ ppc = "rewound" /\ ppc' = "idle"
      /\ UNCHANGED <<tailIndex, headIndex, cons, tailBlock, dequeued, free, headers>>
  BY DEF I!FreeEntry, I!counters
<1>3. PICK n \in Nat : AtNumber(ent, shift, n)
  BY <1>2, NumberIs
<1>4. Begun = n /\ Reached = n /\ Begun' = n /\ Reached' = n
  <2>1. Begun = n /\ Reached = n
    BY <1>2, <1>3 DEF AtNumber, Reached
  <2>2. Begun' = n
    BY <1>2, <1>3 DEF AtNumber, Begun, Off, Num
  <2> QED
    BY <1>2, <2>1, <2>2 DEF Reached
<1>5. PICK e \in Nat : e = ent[n] /\ 1 <= e /\ e <= Len(entries) /\ ValueOf(e) = 0
  BY <1>3 DEF AtNumber
<1>6. I!Entry(I!header, I!header.tail + 1) = e
  <2>1. I!Entry(I!header, I!header.tail + 1) = PointsTo(Newest, (TailOf(Newest) + 1) % Places(Newest))
    BY HeaderEntry DEF TailOf
  <2>2. EntryOf(shift, Newest, Reached) = PointsTo(Newest, (TailOf(Newest) + 1) % Places(Newest))
    BY <1>1, <1>4, TailPlace
  <2> QED
    BY <1>3, <1>4, <1>5, <2>1, <2>2 DEF AtNumber
<1>7. entries' = [entries EXCEPT ![e].value = 0]
  BY <1>6 DEF I!FreeEntry, I!NoBlock
<1>8. entries' = entries
  <2>1. entries[e] = [key |-> KeyOf(e), value |-> ValueOf(e)]
    BY <1>1, <1>5, EntryIs
  <2>2. [entries[e] EXCEPT !.value = 0] = entries[e]
    BY <1>5, <2>1
  <2>3. entries' = [entries EXCEPT ![e] = entries[e]]
    BY <1>7, <2>2
  <2>4. entries \in Seq(Stored)
    BY <1>1 DEF ListTyped
  <2>5. [entries EXCEPT ![e] = entries[e]] = entries
    BY <1>5, <2>4, SameAt
  <2> QED
    BY <2>3, <2>5
<1>9. ListLike
  BY <1>2, <1>4, <1>8 DEF ListLike, ListStaged
<1> QED
  BY <1>2, <1>9, ListByLike

(* The number that is begun gets a block of the free list.                 *)
Requisitioned(ent, shift, n, b) ==
  /\ AtNumber(ent, shift, n) /\ ppc = "block" /\ ppc' = "value"
  /\ UNCHANGED <<tailIndex, headIndex, cons, headers, entries>>
  /\ b \in free /\ free' = free \ {b} /\ dequeued' = [dequeued EXCEPT ![b] = 0] /\ tailBlock' = b
  /\ Reached = n + 1 /\ Begun' = n + 1 /\ Reached' = n + 1

LEMMA RequisitionDoes ==
  ASSUME CountInv, NEW ent, NEW blk, NEW shift, NEW low,
         ImplicitWell(ent, blk, shift, low), NEW b \in Blocks, I!Requisition(b)
  PROVE  \E n \in Nat : Requisitioned(ent, shift, n, b)
<1>1. /\ ppc = "block" /\ ppc' = "value"
      /\ UNCHANGED <<tailIndex, headIndex, cons, headers, entries>>
      /\ free' = free \ {b} /\ dequeued' = [dequeued EXCEPT ![b] = 0] /\ tailBlock' = b
  BY DEF I!Requisition, I!counters
<1>2. b \in free
  BY DEF I!Requisition, I!NextFree, I!InPool, I!InList, I!Lowest
<1>3. PICK n \in Nat : AtNumber(ent, shift, n)
  BY <1>1, NumberIs
<1>4. Reached = n + 1
  BY <1>1, <1>3 DEF AtNumber, Reached
<1>5. Begun' = n + 1
  BY <1>1, <1>3 DEF AtNumber, Begun, Off, Num
<1>6. Reached' = n + 1
  BY <1>1, <1>5 DEF Reached
<1> QED
  BY <1>1, <1>2, <1>3, <1>4, <1>5, <1>6 DEF Requisitioned

LEMMA RequisitionedBlocks ==
  ASSUME CountInv, RangeInv, ListStaged, NEW ent, NEW shift, NEW n \in Nat, NEW b,
         Requisitioned(ent, shift, n, b)
  PROVE  /\ ~ Entered(n) /\ ~ HasBlock(n) /\ Unentered(n)'
         /\ \A m \in Nat : /\ ~ Unentered(m) /\ (Unentered(m)' <=> m = n)
                           /\ Entered(m)' <=> Entered(m)
                           /\ Entered(m) => m < n
                           /\ HasBlock(m)' <=> HasBlock(m) \/ m = n
                           /\ HasBlock(m) => m < n
                           /\ GoneIn(m)' = GoneIn(m)
<1>1. /\ \A m \in Nat : (Done(m)' <=> Done(m)) /\ GoneIn(m)' = GoneIn(m)
      /\ \A c \in Consumers, m \in Nat :
           (Clears(c, m)' <=> Clears(c, m)) /\ (Releases(c, m)' <=> Releases(c, m))
  BY ProducerKeeps DEF Requisitioned
<1>2. ppc = "block" /\ ppc' = "value" /\ Begun = n /\ Begun' = n + 1
  BY DEF Requisitioned, AtNumber
<1>3. \A m \in Nat : ~ Unentered(m) /\ (Unentered(m)' <=> m = n)
  BY <1>2 DEF Unentered
<1>4. \A m \in Nat : Entered(m) => m < n
  BY <1>2 DEF Entered
<1>5. ASSUME NEW m \in Nat PROVE Entered(m)' <=> Entered(m)
  BY <1>1, <1>2, <1>3 DEF Entered
<1>6. ASSUME NEW m \in Nat, HasBlock(m) PROVE m < n
  <2>1. CASE Entered(m)
    BY <1>4, <2>1
  <2>2. CASE \E c \in Consumers : Releases(c, m)
    <3>1. PICK c \in Consumers : Releases(c, m)
      BY <2>2
    <3>2. Takes(c) /\ Num(cons[c].pos) = m
      BY <3>1 DEF Releases, Takes, Taking
    <3>3. Num(cons[c].pos) < Begun
      BY <3>2, PosBegun
    <3> QED
      BY <1>2, <3>2, <3>3
  <2> QED
    BY <1>3, <1>6, <2>1, <2>2 DEF HasBlock
<1>7. ASSUME NEW m \in Nat PROVE HasBlock(m)' <=> HasBlock(m) \/ m = n
  BY <1>1, <1>3, <1>5 DEF HasBlock
<1>8. ~ Entered(n) /\ ~ HasBlock(n)
  BY <1>4, <1>6
<1>9. Unentered(n)'
  BY <1>3
<1> QED
  BY <1>1, <1>3, <1>4, <1>5, <1>6, <1>7, <1>8, <1>9

(* No item of a number that is begun is gone.                              *)
LEMMA NoneGone ==
  ASSUME CountInv, NEW n \in Nat, Off(tailIndex) = 0, n = Num(tailIndex)
  PROVE  GoneIn(n) = {} /\ Cardinality(GoneIn(n)) = 0 /\ ~ Done(n)
<1>1. ASSUME NEW o \in Offsets PROVE ~ Gone(Start(n) + o)
  <2>1. PICK i \in Nat : i = Start(n) + o /\ Num(i) = n
    BY ItemOf
  <2>2. ~ Gone(i)
    BY <2>1, NewNotGone
  <2> QED
    BY <2>1, <2>2
<1>2. GoneIn(n) = {}
  BY <1>1 DEF GoneIn
<1>3. Cardinality(GoneIn(n)) = 0
  BY <1>2, FS_EmptySet
<1>4. 0 \in Offsets
  BY SizeIs DEF Offsets
<1>5. ~ Done(n)
  BY <1>1, <1>4 DEF Done
<1> QED
  BY <1>2, <1>3, <1>5

LEMMA RequisitionedKeys ==
  ASSUME NEW ent, NEW shift, NEW low, KeysInv(ent, shift, low),
         NEW n \in Nat, NEW b, Requisitioned(ent, shift, n, b)
  PROVE  KeysInv(ent, shift, low)'
<1>1. ListTyped /\ KeysCongruent(shift) /\ KeysLatest(shift, low) /\ KeyInserted(ent, shift)
  BY DEF KeysInv
<1>2. /\ UNCHANGED <<headers, entries, tailIndex>> /\ ppc = "block" /\ ppc' = "value"
      /\ Begun = n /\ Reached = n + 1 /\ Begun' = n + 1 /\ Reached' = n + 1
  BY DEF Requisitioned, AtNumber
<1>3. /\ Newest' = Newest
      /\ \A v : Places(v)' = Places(v) /\ TailOf(v)' = TailOf(v)
      /\ \A v, p : PointsTo(v, p)' = PointsTo(v, p)
      /\ \A e : KeyOf(e)' = KeyOf(e) /\ ValueOf(e)' = ValueOf(e) /\ (Keyed(e)' <=> Keyed(e))
      /\ \A v, m : EntryOf(shift, v, m)' = EntryOf(shift, v, m)
  BY <1>2, ListNames
<1>4. ListTyped'
  BY <1>1, <1>2 DEF ListTyped, ListStaged, Off, Newest, Places, TailOf, PointsTo, ValueOf, Blocks
<1>5. KeysCongruent(shift)'
  BY <1>1, <1>2 DEF KeysCongruent, Off, Num, Newest, Places, TailOf, PointsTo, KeyOf, Keyed
<1>6. KeysLatest(shift, low)'
  <2>1. low \in Nat /\ (low = 0 \/ low < n)
    BY <1>1, <1>2 DEF KeysLatest
  <2>2. PICK w, z : w = Newest /\ z = Places(w)
    OBVIOUS
  <2>3. Newest' = w /\ Places(w)' = z
    BY <1>3, <2>2
  <2>4. ASSUME NEW m \in Int, (n + 1) - z <= m, m < n + 1
        PROVE  NumberedAs(low, m, EntryOf(shift, w, m))'
    <3>1. NumberedAs(low, m, EntryOf(shift, w, m))
      BY <1>1, <1>2, <2>2, <2>4 DEF KeysLatest
    <3>2. \/ low <= m /\ KeyOf(EntryOf(shift, w, m)) = Start(m)
          \/ m < low /\ ~ Keyed(EntryOf(shift, w, m))
      BY <1>2, <3>1 DEF NumberedAs
    <3>3. \/ low <= m /\ KeyOf(EntryOf(shift, w, m))' = Start(m)
          \/ m < low /\ ~ Keyed(EntryOf(shift, w, m))'
      BY <1>2, <3>2 DEF KeyOf, Keyed, EntryOf, PointsTo, Places
    <3> QED
      BY <3>3 DEF NumberedAs, Start
  <2>5. low = 0 \/ low < n + 1
    BY <2>1
  <2> QED
    BY <1>2, <2>1, <2>3, <2>4, <2>5 DEF KeysLatest, EntryOf, Places
<1>7. KeyInserted(ent, shift)'
  BY <1>1, <1>2 DEF KeyInserted, Num, EntryOf, PointsTo, Places, KeyOf, Start, Newest
<1> QED
  BY <1>4, <1>5, <1>6, <1>7 DEF KeysInv

LEMMA ListByRequisition ==
  ASSUME CountInv, RangeInv, NEW ent, NEW blk, NEW shift, NEW low,
         ImplicitWell(ent, blk, shift, low), NEW b \in Blocks, I!Requisition(b)
  PROVE  \E b2 : ImplicitWell(ent, b2, shift, low)'
<1>1. PICK n \in Nat : Requisitioned(ent, shift, n, b)
  BY RequisitionDoes
<1>2. PICK b2 : b2 = [blk EXCEPT ![n] = b]
  OBVIOUS
<1>3. /\ ent \in [Nat -> Nat] /\ blk \in [Nat -> Nat] /\ BlocksRight(blk)
      /\ ListTyped /\ ListStaged /\ KeysInv(ent, shift, low)
      /\ shift \in [Nat -> Int] /\ EntriesRight(ent, blk, shift)
      /\ AllSeek(ent, blk, shift) /\ CountsRight(blk) /\ BlocksTyped /\ EmptiedByOne
  BY DEF ImplicitWell, KeysInv, KeysCongruent, ListTyped
<1>4. /\ UNCHANGED <<tailIndex, headIndex, cons, headers, entries>> /\ ppc' = "value"
      /\ b \in free /\ free' = free \ {b} /\ dequeued' = [dequeued EXCEPT ![b] = 0] /\ tailBlock' = b
      /\ Begun = n /\ Reached' = Reached /\ Begun' = n + 1
      /\ Off(tailIndex) = 0 /\ n = Num(tailIndex)
  BY <1>1 DEF Requisitioned, AtNumber
<1>5. /\ b2 \in [Nat -> Nat] /\ b2[n] = b /\ \A m \in Nat : m < n => b2[m] = blk[m]
  BY <1>2, <1>3 DEF Blocks
<1>6. /\ ~ Entered(n) /\ ~ HasBlock(n) /\ Unentered(n)'
      /\ \A m \in Nat : /\ ~ Unentered(m) /\ (Unentered(m)' <=> m = n)
                        /\ Entered(m)' <=> Entered(m)
                        /\ Entered(m) => m < n
                        /\ HasBlock(m)' <=> HasBlock(m) \/ m = n
                        /\ HasBlock(m) => m < n
                        /\ GoneIn(m)' = GoneIn(m)
  BY <1>1, <1>3, RequisitionedBlocks
<1>7. KeysInv(ent, shift, low)'
  BY <1>1, <1>3, RequisitionedKeys
<1>8. BlocksTyped'
  BY <1>3, <1>4 DEF BlocksTyped, Blocks
<1>9. EntriesRight(ent, b2, shift)'
  <2>1. ASSUME NEW m \in Nat, Entered(m)
        PROVE  /\ Reached - Places(Newest) <= m /\ ent[m] = EntryOf(shift, Newest, m)
               /\ KeyOf(ent[m]) = Start(m) /\ ValueOf(ent[m]) = b2[m]
    BY <1>3, <1>5, <1>6, <2>1 DEF EntriesRight
  <2>2. ASSUME NEW m \in Nat, Entered(m)'
        PROVE  /\ Reached' - Places(Newest)' <= m /\ ent[m] = EntryOf(shift, Newest, m)'
               /\ KeyOf(ent[m])' = Start(m) /\ ValueOf(ent[m])' = b2[m]
    BY <1>4, <1>6, <2>1, <2>2 DEF EntryOf, PointsTo, Places, Newest, KeyOf, ValueOf
  <2>3. \A e \in Nat : 1 <= e /\ e <= Len(entries)' /\ ValueOf(e)' # 0 =>
          \E m \in Nat : Entered(m)' /\ ent[m] = e
    BY <1>3, <1>4, <1>6 DEF EntriesRight, ValueOf
  <2> QED
    BY <2>2, <2>3 DEF EntriesRight, Start
<1>10. BlocksRight(b2)'
  <2>1. ASSUME NEW m \in Nat, HasBlock(m)' PROVE b2[m] \in Blocks \ free'
    <3>1. CASE m = n
      BY <1>4, <1>5, <3>1
    <3>2. CASE m # n
      BY <1>3, <1>4, <1>5, <1>6, <2>1, <3>2 DEF BlocksRight
    <3> QED
      BY <3>1, <3>2
  <2>2. ASSUME NEW m \in Nat, HasBlock(m)', m # n PROVE HasBlock(m) /\ b2[m] = blk[m] /\ b2[m] # b
    <3>1. HasBlock(m) /\ m < n
      BY <1>6, <2>2
    <3>2. b2[m] = blk[m] /\ blk[m] \notin free
      BY <1>3, <1>5, <3>1 DEF BlocksRight
    <3> QED
      BY <1>4, <3>1, <3>2
  <2>3. ASSUME NEW m \in Nat, NEW k \in Nat, HasBlock(m)', HasBlock(k)', b2[m] = b2[k] PROVE m = k
    <3>1. m = n <=> k = n
      BY <1>5, <2>2, <2>3
    <3>2. CASE m # n
      <4>1. HasBlock(m) /\ HasBlock(k) /\ blk[m] = blk[k]
        BY <2>2, <2>3, <3>1, <3>2
      <4> QED
        BY <1>3, <4>1 DEF BlocksRight
    <3> QED
      BY <3>1, <3>2
  <2>4. ASSUME NEW x \in Blocks \ free' PROVE \E m \in Nat : HasBlock(m)' /\ b2[m] = x
    <3>1. CASE x = b
      BY <1>5, <1>6, <3>1
    <3>2. CASE x # b
      <4>1. x \in Blocks \ free
        BY <1>4, <2>4, <3>2
      <4>2. PICK m \in Nat : HasBlock(m) /\ blk[m] = x
        BY <1>3, <4>1 DEF BlocksRight
      <4>3. m < n /\ HasBlock(m)'
        BY <1>6, <4>2
      <4> QED
        BY <1>5, <4>2, <4>3
    <3> QED
      BY <3>1, <3>2
  <2>5. ppc' = "value" => tailBlock' = b2[Begun' - 1]
    <3>1. Begun' - 1 = n
      BY <1>4
    <3> QED
      BY <1>4, <1>5, <3>1
  <2> QED
    BY <2>1, <2>3, <2>4, <2>5 DEF BlocksRight, Blocks
<1>11. CountsRight(b2)'
  <2>1. ASSUME NEW m \in Nat, Entered(m)' \/ Unentered(m)'
        PROVE  dequeued'[b2[m]] = Cardinality(GoneIn(m)')
    <3>1. CASE m = n
      <4>1. Cardinality(GoneIn(n)) = 0
        BY <1>4, NoneGone
      <4>2. GoneIn(n)' = GoneIn(n)
        BY <1>6
      <4>3. dequeued'[b] = 0
        BY <1>3, <1>4 DEF BlocksTyped
      <4> QED
        BY <1>5, <3>1, <4>1, <4>2, <4>3
    <3>2. CASE m # n
      <4>1. Entered(m) /\ m < n /\ HasBlock(m)
        BY <1>6, <2>1, <3>2 DEF HasBlock
      <4>2. b2[m] = blk[m] /\ blk[m] \in Blocks \ free
        BY <1>3, <1>5, <4>1 DEF BlocksRight
      <4>3. dequeued'[blk[m]] = dequeued[blk[m]]
        BY <1>3, <1>4, <4>2 DEF BlocksTyped
      <4>4. dequeued[blk[m]] = Cardinality(GoneIn(m))
        BY <1>3, <4>1 DEF CountsRight
      <4>5. GoneIn(m)' = GoneIn(m)
        BY <1>6
      <4> QED
        BY <4>2, <4>3, <4>4, <4>5
    <3> QED
      BY <3>1, <3>2
  <2> QED
    BY <2>1 DEF CountsRight
<1>12. EmptiedByOne'
  BY <1>3, <1>4, ProducerKeeps
<1>13. AllSeek(ent, b2, shift)'
  <2>1. ListGrows(shift, shift)
    BY <1>3, <1>4, LikeGrows
  <2> QED
    BY <1>3, <1>4, <1>5, <2>1, ProducerSeeks
<1>14. ImplicitWell(ent, b2, shift, low)'
  BY <1>3, <1>5, <1>7, <1>8, <1>9, <1>10, <1>11, <1>12, <1>13 DEF ImplicitWell
<1> QED
  BY <1>14

-----------------------------------------------------------------------------
(* The entry leads to the block.                                           *)
Led(ent, blk, shift, n, e, w) ==
  /\ ppc = "value" /\ ppc' = "elem" /\ Off(tailIndex) = 0 /\ n = Num(tailIndex)
  /\ UNCHANGED <<tailIndex, headIndex, cons, tailBlock, dequeued, free>>
  /\ Begun = n + 1 /\ Reached = n + 1 /\ Begun' = n + 1 /\ Reached' = n + 1
  /\ e = ent[n] /\ 1 <= e /\ e <= Len(entries) /\ KeyOf(e) = Start(n)
  /\ e = EntryOf(shift, Newest, n) /\ ValueSet(e, w)
  /\ w = blk[n] /\ w = tailBlock /\ w \in Blocks \ free

LEMMA StoreValueLeads ==
  ASSUME CountInv, NEW ent, NEW blk, NEW shift, NEW low,
         ImplicitWell(ent, blk, shift, low), I!StoreValue
  PROVE  \E n \in Nat, e \in Nat, w \in Nat : Led(ent, blk, shift, n, e, w)
<1>1. ListTyped /\ KeysCongruent(shift) /\ KeyInserted(ent, shift) /\ BlocksRight(blk)
  BY DEF ImplicitWell, KeysInv
<1>2. /\ ppc = "value" /\ ppc' = "elem"
      /\ UNCHANGED <<tailIndex, headIndex, cons, tailBlock, dequeued, free, headers>>
  BY DEF I!StoreValue, I!counters
<1>3. Off(tailIndex) = 0 /\ tailIndex \in Nat /\ Num(tailIndex) \in Nat
  BY <1>1, <1>2, BegunTyped DEF ListTyped, ListStaged
<1>4. PICK n \in Nat : n = Num(tailIndex)
  BY <1>3
<1>5. Begun = n + 1
  BY <1>2, <1>4 DEF Begun
<1>6. Begun' = n + 1
  BY <1>2, <1>4 DEF Begun, Num
<1>7. Reached = n + 1 /\ Reached' = n + 1
  BY <1>2, <1>5, <1>6 DEF Reached
<1>8. ent[n] = EntryOf(shift, Newest, n) /\ KeyOf(ent[n]) = Start(n)
  BY <1>1, <1>2, <1>4 DEF KeyInserted
<1>9. PICK e \in Nat : e = EntryOf(shift, Newest, n) /\ 1 <= e /\ e <= Len(entries)
  <2>1. Newest \in Nat /\ 1 <= Newest /\ Newest <= Newest /\ n \in Int /\ shift \in [Nat -> Int]
    BY <1>1, NewestIs DEF KeysCongruent
  <2>2. /\ EntryOf(shift, Newest, n) \in Nat /\ 1 <= EntryOf(shift, Newest, n)
        /\ EntryOf(shift, Newest, n) <= Len(entries)
    BY <1>1, <2>1, PlaceIs
  <2> QED
    BY <2>2
<1>10. I!Entry(I!header, I!header.tail) = e
  <2>1. I!Entry(I!header, I!header.tail) = PointsTo(Newest, TailOf(Newest) % Places(Newest))
    BY HeaderEntry DEF TailOf
  <2>2. PICK t \in Nat, z \in Nat \ {0} : t = TailOf(Newest) /\ z = Places(Newest) /\ t < z
    BY <1>1, NewestIs
  <2>3. t % z = t
    BY <2>2, ModSmall
  <2>4. Reached \in Nat /\ Reached - 1 = n
    BY <1>7
  <2>5. EntryOf(shift, Newest, Reached - 1) = PointsTo(Newest, TailOf(Newest))
    BY <1>1, <2>4, TailPlace
  <2> QED
    BY <1>9, <2>1, <2>2, <2>3, <2>4, <2>5
<1>11. Unentered(n) /\ HasBlock(n) /\ Begun - 1 = n
  BY <1>2, <1>5 DEF Unentered, HasBlock
<1>12. PICK w \in Nat : w = blk[n] /\ w = tailBlock /\ w \in Blocks \ free
  BY <1>1, <1>2, <1>11 DEF BlocksRight, Blocks
<1>13. entries' = [entries EXCEPT ![e].value = w]
  BY <1>10, <1>12 DEF I!StoreValue
<1>14. ValueSet(e, w)
  BY <1>1, <1>2, <1>9, <1>13, ValueIsSet
<1> QED
  BY <1>2, <1>3, <1>4, <1>5, <1>6, <1>7, <1>8, <1>9, <1>12, <1>14 DEF Led

LEMMA LedBlocks ==
  ASSUME CountInv, RangeInv, NEW ent, NEW blk, NEW shift, NEW n \in Nat, NEW e, NEW w,
         Led(ent, blk, shift, n, e, w)
  PROVE  /\ Unentered(n) /\ ~ Entered(n) /\ HasBlock(n)
         /\ \A m \in Nat : /\ ~ Unentered(m)'
                           /\ Unentered(m) => m = n
                           /\ Entered(m)' <=> Entered(m) \/ m = n
                           /\ HasBlock(m)' <=> HasBlock(m)
                           /\ GoneIn(m)' = GoneIn(m)
<1>1. /\ \A m \in Nat : (Done(m)' <=> Done(m)) /\ GoneIn(m)' = GoneIn(m)
      /\ \A c \in Consumers, m \in Nat :
           (Clears(c, m)' <=> Clears(c, m)) /\ (Releases(c, m)' <=> Releases(c, m))
  BY ProducerKeeps DEF Led
<1>2. ppc = "value" /\ ppc' = "elem" /\ Begun = n + 1 /\ Begun' = n + 1
  BY DEF Led
<1>3. \A m \in Nat : ~ Unentered(m)' /\ (Unentered(m) <=> m = n)
  BY <1>2 DEF Unentered
<1>4. ~ Done(n)
  BY NoneGone DEF Led
<1>5. ASSUME NEW m \in Nat PROVE Entered(m)' <=> Entered(m) \/ m = n
  <2>1. CASE m = n
    BY <1>1, <1>2, <1>3, <1>4, <2>1 DEF Entered
  <2>2. CASE m # n
    BY <1>1, <1>2, <1>3, <2>2 DEF Entered
  <2> QED
    BY <2>1, <2>2
<1>6. ~ Entered(n) /\ HasBlock(n)
  BY <1>3 DEF Entered, HasBlock
<1>7. ASSUME NEW m \in Nat PROVE HasBlock(m)' <=> HasBlock(m)
  BY <1>1, <1>3, <1>5 DEF HasBlock
<1> QED
  BY <1>1, <1>3, <1>5, <1>6, <1>7

LEMMA LedEntries ==
  ASSUME CountInv, RangeInv, ListTyped, NEW ent, NEW blk, NEW shift, EntriesRight(ent, blk, shift),
         NEW n \in Nat, NEW e \in Nat, NEW w \in Nat, Led(ent, blk, shift, n, e, w), w # 0,
         ent \in [Nat -> Nat], shift \in [Nat -> Int]
  PROVE  EntriesRight(ent, blk, shift)'
<1>1. \A m \in Nat : Entered(m)' <=> Entered(m) \/ m = n
  BY LedBlocks
<1>2. /\ UNCHANGED headers /\ Len(entries)' = Len(entries) /\ Reached' = n + 1 /\ Reached = n + 1
      /\ \A f \in Nat : 1 <= f /\ f <= Len(entries) =>
           KeyOf(f)' = KeyOf(f) /\ ValueOf(f)' = IF f = e THEN w ELSE ValueOf(f)
      /\ e = ent[n] /\ 1 <= e /\ e <= Len(entries) /\ KeyOf(e) = Start(n)
      /\ e = EntryOf(shift, Newest, n) /\ w = blk[n]
  BY DEF Led, ValueSet
<1>3. /\ Newest' = Newest /\ Places(Newest)' = Places(Newest)
      /\ \A m : EntryOf(shift, Newest, m)' = EntryOf(shift, Newest, m)
  BY <1>2, HeadersNames
<1>4. PICK y \in Nat, z \in Nat \ {0} : y = Newest /\ z = Places(y) /\ 1 <= y
  BY NewestIs
<1>5. Newest' = y /\ Places(y)' = z
  BY <1>3, <1>4
<1>6. ASSUME NEW m \in Nat, Entered(m)'
      PROVE  /\ (n + 1) - z <= m /\ ent[m] = EntryOf(shift, y, m)'
             /\ KeyOf(ent[m])' = Start(m) /\ ValueOf(ent[m])' = blk[m]
  <2>1. CASE m = n
    <3>1. (n + 1) - z <= n
      BY <1>4
    <3>2. KeyOf(e)' = Start(n) /\ ValueOf(e)' = w
      BY <1>2
    <3> QED
      BY <1>2, <1>3, <1>4, <2>1, <3>1, <3>2 DEF KeyOf, ValueOf
  <2>2. CASE m # n
    <3>1. /\ (n + 1) - z <= m /\ ent[m] = EntryOf(shift, y, m)
          /\ KeyOf(ent[m]) = Start(m) /\ ValueOf(ent[m]) = blk[m]
      BY <1>1, <1>2, <1>4, <1>6, <2>2 DEF EntriesRight
    <3>2. PICK f \in Nat : f = ent[m] /\ 1 <= f /\ f <= Len(entries)
      <4>1. m \in Int /\ y <= Newest
        BY <1>4
      <4>2. /\ EntryOf(shift, y, m) \in Nat /\ 1 <= EntryOf(shift, y, m)
            /\ EntryOf(shift, y, m) <= Len(entries)
        BY <1>4, <4>1, PlaceIs
      <4> QED
        BY <3>1, <4>2
    <3>3. f # e
      <4>1. Start(m) # Start(n)
        BY <2>2, StartApart
      <4> QED
        BY <1>2, <3>1, <3>2, <4>1
    <3>4. KeyOf(f)' = Start(m) /\ ValueOf(f)' = blk[m]
      BY <1>2, <3>1, <3>2, <3>3
    <3> QED
      BY <1>3, <1>4, <3>1, <3>2, <3>4 DEF KeyOf, ValueOf
  <2> QED
    BY <2>1, <2>2
<1>7. ASSUME NEW f \in Nat, 1 <= f, f <= Len(entries)', ValueOf(f)' # 0
      PROVE  \E m \in Nat : Entered(m)' /\ ent[m] = f
  <2>1. CASE f = e
    BY <1>1, <1>2, <2>1
  <2>2. CASE f # e
    <3>1. f <= Len(entries) /\ ValueOf(f) # 0
      BY <1>2, <1>7, <2>2
    <3>2. PICK m \in Nat : Entered(m) /\ ent[m] = f
      BY <1>7, <3>1 DEF EntriesRight
    <3> QED
      BY <1>1, <3>2
  <2> QED
    BY <2>1, <2>2
<1> QED
  BY <1>2, <1>5, <1>6, <1>7 DEF EntriesRight, Start, EntryOf, Places, Newest

LEMMA ListByStoreValue ==
  ASSUME CountInv, RangeInv, NEW ent, NEW blk, NEW shift, NEW low,
         ImplicitWell(ent, blk, shift, low), I!StoreValue
  PROVE  ImplicitWell(ent, blk, shift, low)'
<1>1. PICK n \in Nat, e \in Nat, w \in Nat : Led(ent, blk, shift, n, e, w)
  BY StoreValueLeads
<1>2. /\ ListTyped /\ shift \in [Nat -> Int] /\ KeysInv(ent, shift, low) /\ ListStaged
      /\ ent \in [Nat -> Nat] /\ blk \in [Nat -> Nat] /\ KeysLatest(shift, low)
      /\ EntriesRight(ent, blk, shift) /\ EmptiedByOne /\ AllSeek(ent, blk, shift)
      /\ BlocksRight(blk) /\ CountsRight(blk) /\ BlocksTyped
  BY DEF ImplicitWell, KeysInv, KeysCongruent, ListTyped
<1>3. /\ ValueSet(e, w) /\ UNCHANGED <<tailIndex, headIndex, cons, tailBlock, dequeued, free>>
      /\ ppc = "value" /\ ppc' = "elem" /\ w \in Blocks /\ w # 0
      /\ Begun = n + 1 /\ Reached = n + 1 /\ Begun' = n + 1 /\ Reached' = n + 1
      /\ Off(tailIndex) = 0 /\ n = Num(tailIndex)
      /\ e = EntryOf(shift, Newest, n) /\ KeyOf(e) = Start(n)
  BY <1>1 DEF Led, Blocks
<1>4. /\ Unentered(n) /\ ~ Entered(n) /\ HasBlock(n)
      /\ \A m \in Nat : /\ ~ Unentered(m)'
                        /\ Unentered(m) => m = n
                        /\ Entered(m)' <=> Entered(m) \/ m = n
                        /\ HasBlock(m)' <=> HasBlock(m)
                        /\ GoneIn(m)' = GoneIn(m)
  BY <1>1, LedBlocks
<1>5. KeysInv(ent, shift, low)'
  <2>1. Reached - 1 = n /\ Reached \in Nat /\ Begun' = Begun /\ Reached' = Reached
    BY <1>3
  <2>2. low <= n
    BY <1>2, <1>3 DEF KeysLatest
  <2>3. e = EntryOf(shift, Newest, Reached - 1) /\ low <= Reached - 1 /\ KeyOf(e) = Start(Reached - 1)
    BY <1>3, <2>1, <2>2
  <2>4. ListStaged'
    BY <1>2, <1>3 DEF ListStaged, Off
  <2>5. w \in Blocks \cup {0} /\ tailIndex' = tailIndex
    BY <1>3
  <2>6. /\ ppc' = "block" <=> ppc = "block"
        /\ ppc' \in {"publish", "block", "rewound", "value"} => ppc' = ppc
    BY <1>3
  <2> QED
    BY <1>2, <1>3, <2>1, <2>3, <2>4, <2>5, <2>6, KeysByValue
<1>6. EntriesRight(ent, blk, shift)'
  BY <1>1, <1>2, <1>3, LedEntries
<1>7. BlocksRight(blk)' /\ BlocksTyped'
  BY <1>2, <1>3, <1>4 DEF BlocksRight, BlocksTyped, Blocks
<1>8. CountsRight(blk)'
  <2>1. ASSUME NEW m \in Nat, Entered(m)' \/ Unentered(m)' PROVE Entered(m) \/ Unentered(m)
    BY <1>4, <2>1
  <2> QED
    BY <1>2, <1>3, <1>4, <2>1 DEF CountsRight
<1>9. EmptiedByOne'
  BY <1>2, <1>3, ProducerKeeps
<1>10. AllSeek(ent, blk, shift)'
  <2>1. ListGrows(shift, shift)
    BY <1>2, <1>3, ValueGrows
  <2> QED
    BY <1>2, <1>3, <2>1, ProducerSeeks
<1> QED
  BY <1>2, <1>5, <1>6, <1>7, <1>8, <1>9, <1>10 DEF ImplicitWell

-----------------------------------------------------------------------------
(* The invariant of an implicit producer.                                  *)
LEMMA ListByEnqueue ==
  ASSUME CountInv, RangeInv, ImplicitInv, I!Enqueue
  PROVE  ImplicitInv'
<1>1. PICK ent, blk, shift, low : ImplicitWell(ent, blk, shift, low)
  BY DEF ImplicitInv
<1>2. CASE I!Produce /\ UNCHANGED I!listVars
  BY <1>1, <1>2, ListByProduce DEF ImplicitInv
<1>3. CASE I!InsertKey
  BY <1>1, <1>3, ListByInsertKey DEF ImplicitInv
<1>4. CASE I!GrowHeader
  BY <1>1, <1>4, ListByGrowHeader DEF ImplicitInv
<1>5. CASE I!PublishTail
  BY <1>1, <1>5, ListByPublishTail DEF ImplicitInv
<1>6. CASE I!Rewind
  BY <1>1, <1>6, ListByRewind DEF ImplicitInv
<1>7. CASE I!FreeEntry
  BY <1>1, <1>7, ListByFreeEntry DEF ImplicitInv
<1>8. CASE I!StoreValue
  BY <1>1, <1>8, ListByStoreValue DEF ImplicitInv
<1>9. ASSUME NEW b \in Blocks, I!Requisition(b) PROVE ImplicitInv'
  BY <1>1, <1>9, ListByRequisition DEF ImplicitInv
<1> QED
  BY <1>2, <1>3, <1>4, <1>5, <1>6, <1>7, <1>8, <1>9, ImplicitParts DEF I!Enqueue

LEMMA ImplicitStep ==
  CountInv /\ RangeInv /\ (~ isExplicit => ImplicitInv) /\ [Next]_vars => (~ isExplicit => ImplicitInv)'
<1> SUFFICES ASSUME CountInv, RangeInv, ~ isExplicit => ImplicitInv, [Next]_vars, ~ isExplicit'
             PROVE  ImplicitInv'
  OBVIOUS
<1>1. ~ isExplicit /\ ImplicitInv
  BY DEF Next, vars
<1>2. CASE I!Enqueue
  BY <1>1, <1>2, ListByEnqueue
<1>3. ASSUME NEW c \in Consumers, I!Dequeue(c) PROVE ImplicitInv'
  BY <1>1, <1>3, ListByDequeue DEF ImplicitInv
<1>4. CASE UNCHANGED vars
  <2>1. PICK ent, blk, shift, low : ImplicitWell(ent, blk, shift, low)
    BY <1>1 DEF ImplicitInv
  <2>2. UNCHANGED <<headers, entries, tailIndex, ppc, headIndex, cons, tailBlock, free, dequeued>>
    BY <1>4 DEF vars, baseVars, listVars, counters
  <2>3. ListLike
    BY <2>2, SameLike
  <2> QED
    BY <2>1, <2>2, <2>3, ListByLike DEF ImplicitInv
<1> QED
  BY <1>1, <1>2, <1>3, <1>4 DEF Next, Enqueue, Dequeue

(* At first there is no block, and all entries are free.                   *)
LEMMA FirstList ==
  ASSUME Init
  PROVE  \E z \in Nat \ {0} :
           /\ headers \in Seq(Indices) /\ entries \in Seq(Stored)
           /\ Newest = 1 /\ Len(entries) = z /\ Places(1) = z /\ TailOf(1) = z - 1
           /\ \A p \in Nat : p < z => PointsTo(1, p) = p + 1
           /\ \A e \in Nat : 1 <= e /\ e <= z => ~ Keyed(e) /\ ValueOf(e) = 0
<1>1. PICK z \in Nat \ {0} : z = IndexSize
  BY SizeAssumption
<1>2. PICK s, r : s = [i \in 1..z |-> i] /\ r = [i \in 1..z |-> [key |-> 1, value |-> 0]]
  OBVIOUS
<1>3. headers = <<[tail |-> z - 1, index |-> s]>> /\ entries = r
  BY <1>1, <1>2 DEF Init, I!ListInit, I!NewEntries, I!Invalid, I!NoBlock
<1>4. s \in Seq(Nat) /\ Len(s) = z
  <2>1. s \in [1..z -> Nat]
    BY <1>2
  <2> QED
    BY <2>1, FunSeq
<1>5. r \in Seq(Stored) /\ Len(r) = z
  <2>1. r \in [1..z -> Stored]
    BY <1>2 DEF Stored
  <2> QED
    BY <2>1, FunSeq
<1>6. PICK h : h = [tail |-> z - 1, index |-> s]
  OBVIOUS
<1>7. h \in Indices /\ h.tail = z - 1 /\ h.index = s
  <2>1. z - 1 \in Nat
    OBVIOUS
  <2> QED
    BY <1>4, <1>6, <2>1 DEF Indices
<1>8. headers = <<h>>
  BY <1>3, <1>6
<1>9. headers \in Seq(Indices) /\ Len(headers) = 1 /\ headers[1] = h
  BY <1>7, <1>8
<1>10. ASSUME NEW p \in Nat, p < z PROVE PointsTo(1, p) = p + 1
  <2>1. p + 1 \in 1..z
    BY <1>10
  <2> QED
    BY <1>2, <1>7, <1>9, <2>1 DEF PointsTo
<1>11. ASSUME NEW e \in Nat, 1 <= e, e <= z PROVE ~ Keyed(e) /\ ValueOf(e) = 0
  <2>1. e \in 1..z
    BY <1>11
  <2>2. entries[e] = [key |-> 1, value |-> 0]
    BY <1>2, <1>3, <2>1
  <2> QED
    BY <2>2 DEF Keyed, KeyOf, ValueOf
<1> QED
  BY <1>3, <1>4, <1>5, <1>7, <1>9, <1>10, <1>11 DEF Newest, Places, TailOf

LEMMA ImplicitInit == Init => ImplicitInv
<1> SUFFICES ASSUME Init PROVE ImplicitInv
  OBVIOUS
<1>1. PICK ent, blk, shift : /\ ent = [n \in Nat |-> 0] /\ blk = [n \in Nat |-> 0]
                             /\ shift = [n \in Nat |-> 0]
  OBVIOUS
<1>2. /\ tailIndex = 0 /\ ppc = "idle" /\ tailBlock = 0 /\ free = Blocks
      /\ dequeued = [b \in Blocks |-> 0] /\ \A c \in Consumers : cons[c].pc = "idle"
  BY ImplicitParts DEF Init, BaseInit, Idle, I!ListInit
<1>3. PICK z \in Nat \ {0} :
        /\ headers \in Seq(Indices) /\ entries \in Seq(Stored)
        /\ Newest = 1 /\ Len(entries) = z /\ Places(1) = z /\ TailOf(1) = z - 1
        /\ \A p \in Nat : p < z => PointsTo(1, p) = p + 1
        /\ \A e \in Nat : 1 <= e /\ e <= z => ~ Keyed(e) /\ ValueOf(e) = 0
  BY FirstList
<1>4. Off(0) = 0 /\ Num(0) = 0
  <2>1. PICK b \in Nat \ {0} : b = BlockSize
    BY SizeIs
  <2>2. 0 % b = 0 /\ 0 \div b = 0
    BY <2>1
  <2> QED
    BY <2>1, <2>2 DEF Off, Num
<1>5. Begun = 0 /\ Reached = 0
  BY <1>2, <1>4 DEF Begun, Reached
<1>6. /\ \A n \in Nat : ~ Entered(n) /\ ~ Unentered(n) /\ ~ HasBlock(n)
  BY <1>2, <1>5 DEF Entered, Unentered, HasBlock, Releases
<1>7. ListTyped
  <2>1. ListStaged
    BY <1>2 DEF ListStaged
  <2>2. z = z * 1 /\ 1 \in Nat \ {0} /\ z - 1 < z /\ z > 0
    OBVIOUS
  <2>3. ASSUME NEW v \in Nat, 1 <= v, v <= Newest
        PROVE  /\ Places(v) > 0 /\ TailOf(v) < Places(v)
               /\ \A p \in Nat : p < Places(v) => 1 <= PointsTo(v, p) /\ PointsTo(v, p) <= Len(entries)
               /\ \E k \in Nat \ {0} : Places(Newest) = Places(v) * k
    <3>1. v = 1
      BY <1>3, <2>3
    <3>2. \A p \in Nat : p < z => 1 <= PointsTo(1, p) /\ PointsTo(1, p) <= z
      BY <1>3
    <3> QED
      BY <1>3, <2>2, <3>1, <3>2
  <2>4. ASSUME NEW p \in Nat, NEW q \in Nat, p < Places(Newest), q < Places(Newest),
               PointsTo(Newest, p) = PointsTo(Newest, q)
        PROVE  p = q
    BY <1>3, <2>4
  <2>5. \A e \in Nat : 1 <= e /\ e <= Len(entries) => ValueOf(e) \in Blocks \cup {0}
    BY <1>3
  <2> QED
    BY <1>3, <2>1, <2>3, <2>4, <2>5 DEF ListTyped
<1>8. \A p \in Nat : p < z => ~ Keyed(PointsTo(1, p))
  <2>1. \A p \in Nat : p < z => p + 1 \in Nat /\ 1 <= p + 1 /\ p + 1 <= z
    OBVIOUS
  <2> QED
    BY <1>3, <2>1
<1>9. KeysCongruent(shift)
  <2>1. shift \in [Nat -> Int] /\ shift[1] = 0
    BY <1>1
  <2>2. 0 % z = z % z
    BY ModSelf
  <2>3. (z - 1) - (0 - 1) = z
    OBVIOUS
  <2>4. shift[Newest] % Places(Newest) = (TailOf(Newest) - (Reached - 1)) % Places(Newest)
    BY <1>3, <1>5, <2>1, <2>2, <2>3
  <2>5. \A v, p \in Nat : 1 <= v /\ v <= Newest /\ p < Places(v) => ~ Keyed(PointsTo(v, p)) /\ v = 1
    BY <1>3, <1>8
  <2> QED
    BY <1>3, <1>5, <2>1, <2>4, <2>5 DEF KeysCongruent
<1>10. KeysLatest(shift, 0)
  <2>1. ASSUME NEW n \in Int, n < 0 PROVE ~ Keyed(EntryOf(shift, Newest, n))
    <3>1. PICK p \in Nat : p = (shift[Newest] + n) % Places(Newest) /\ p < z
      <4>1. Newest \in Nat /\ 1 <= Newest /\ Newest <= Newest /\ shift \in [Nat -> Int]
        BY <1>1, <1>3
      <4>2. (shift[Newest] + n) % Places(Newest) \in Nat /\ (shift[Newest] + n) % Places(Newest) < Places(Newest)
        BY <1>7, <4>1, PlaceIs
      <4> QED
        BY <1>3, <4>2
    <3> QED
      BY <1>3, <1>8, <3>1 DEF EntryOf
  <2> QED
    BY <1>5, <2>1 DEF KeysLatest, NumberedAs
<1>11. KeysInv(ent, shift, 0)
  BY <1>2, <1>7, <1>9, <1>10 DEF KeysInv, KeyInserted
<1>12. EntriesRight(ent, blk, shift)
  BY <1>3, <1>6 DEF EntriesRight
<1>13. BlocksRight(blk) /\ CountsRight(blk)
  BY <1>2, <1>6 DEF BlocksRight, CountsRight
<1>14. EmptiedByOne /\ AllSeek(ent, blk, shift)
  BY <1>2 DEF EmptiedByOne, AllSeek, Seeks, Seeking, Taking
<1>15. BlocksTyped
  BY <1>2 DEF BlocksTyped
<1>16. ent \in [Nat -> Nat] /\ blk \in [Nat -> Nat]
  BY <1>1
<1>17. ImplicitWell(ent, blk, shift, 0)
  BY <1>11, <1>12, <1>13, <1>14, <1>15, <1>16 DEF ImplicitWell
<1> QED
  BY <1>17 DEF ImplicitInv

LEMMA AlwaysImplicit == Spec => [](~ isExplicit => ImplicitInv)
<1>1. Init => (~ isExplicit => ImplicitInv)
  BY ImplicitInit
<1> QED
  BY <1>1, ImplicitStep, AlwaysCountInv, TakenOnce, PTL DEF Spec

-----------------------------------------------------------------------------
(* What follows from it.                                                   *)
LEMMA ListIsTyped ==
  ASSUME CountInv, ImplicitInv
  PROVE  I!TypeOK
<1>1. ListTyped /\ BlocksTyped
  BY DEF ImplicitInv, ImplicitWell, KeysInv
<1>2. {tailIndex, headIndex, dequeueOptimisticCount, dequeueOvercommit} \subseteq Nat
  BY DEF CountInv, CountersTyped
<1>3. PICK l \in Nat, w \in Nat : l = Len(entries) /\ w = Newest
  BY <1>1, NewestIs
<1>4. DOMAIN entries = 1..l /\ DOMAIN headers = 1..w
  BY <1>1, <1>3 DEF ListTyped, Newest
<1>5. ASSUME NEW e \in DOMAIN entries
      PROVE  entries[e].key \in Nat /\ entries[e].value \in Blocks \cup {0}
  <2>1. e \in Nat /\ 1 <= e /\ e <= Len(entries)
    BY <1>3, <1>4
  <2> QED
    BY <1>1, <2>1, EntryIs DEF KeyOf, ValueOf
<1>6. ASSUME NEW v \in DOMAIN headers
      PROVE  /\ headers[v].tail \in 0..(I!Size(headers[v]) - 1)
             /\ I!ToSet(headers[v].index) \subseteq DOMAIN entries
  <2>1. v \in Nat /\ 1 <= v /\ v <= Newest
    BY <1>3, <1>4
  <2>2. PICK z \in Nat \ {0}, t \in Nat : z = Places(v) /\ t = TailOf(v) /\ t < z
    BY <1>1, <2>1, ListIs
  <2>3. headers[v].tail = t /\ I!Size(headers[v]) = z
    BY <2>2, HeaderEntry DEF TailOf
  <2>4. t \in 0..(z - 1)
    BY <2>2
  <2>5. headers \in Seq(Indices)
    BY <1>1 DEF ListTyped
  <2>6. headers[v] \in Indices
    BY <1>4, <1>3, <2>5, <2>1 DEF Newest
  <2>7. headers[v].index \in Seq(Nat) /\ Len(headers[v].index) = z
    BY <2>2, <2>6 DEF Indices, Places
  <2>8. DOMAIN headers[v].index = 1..z
    BY <2>7
  <2>9. ASSUME NEW i \in 1..z PROVE headers[v].index[i] \in 1..l
    <3>1. PICK p \in Nat : p = i - 1 /\ p < z /\ p + 1 = i
      OBVIOUS
    <3>2. PointsTo(v, p) \in Nat /\ 1 <= PointsTo(v, p) /\ PointsTo(v, p) <= l
      BY <1>1, <1>3, <2>1, <2>2, <3>1, ListIs
    <3>3. PointsTo(v, p) = headers[v].index[i]
      BY <3>1 DEF PointsTo
    <3> QED
      BY <3>2, <3>3
  <2>10. I!ToSet(headers[v].index) = {headers[v].index[i] : i \in DOMAIN headers[v].index}
    BY DEF I!ToSet
  <2> QED
    BY <1>4, <2>3, <2>4, <2>8, <2>9, <2>10
<1> QED
  BY <1>1, <1>2, <1>5, <1>6, ImplicitParts DEF I!TypeOK, I!NoBlock, BlocksTyped

(* The block that a consumer is at, and its entry.                         *)
LEMMA BlockFound ==
  ASSUME CountInv, RangeInv, NEW ent, NEW blk, NEW shift, NEW low,
         ImplicitWell(ent, blk, shift, low), NEW c \in Consumers,
         cons[c].pc \in {"block", "read", "empty", "clear"}
  PROVE  \E n \in Nat, e \in Nat :
           /\ n = Num(cons[c].pos) /\ cons[c].pos \in Nat /\ Entered(n) /\ I!Place(c) = e
           /\ KeyOf(e) = Start(n) /\ ValueOf(e) = blk[n] /\ blk[n] \in Blocks
<1>1. /\ ListTyped /\ shift \in [Nat -> Int] /\ ListStaged /\ ent \in [Nat -> Nat]
      /\ EntriesRight(ent, blk, shift) /\ BlocksRight(blk) /\ EmptiedByOne
      /\ Seeks(ent, blk, shift, c)
  BY DEF ImplicitWell, KeysInv, KeysCongruent, ListTyped, AllSeek
<1>2. Takes(c) /\ Seeking(c)
  BY DEF Takes, Taking, Seeking
<1>3. RangeTyped(c) /\ cons[c].pos \in Nat
  BY <1>1, <1>2, PosBegun
<1>4. PICK n \in Nat : n = Num(cons[c].pos) /\ n < Begun /\ ~ Unentered(n)
  BY <1>1, <1>2, PosBegun
<1>5. /\ cons[c].ver \in Nat /\ 1 <= cons[c].ver /\ cons[c].ver <= Newest
      /\ \A i \in Nat : Keeps(c, i) => EntryOf(shift, cons[c].ver, Num(i)) = ent[Num(i)]
      /\ cons[c].slot = (shift[cons[c].ver] + Num(cons[c].pos)) % Places(cons[c].ver)
  BY <1>1, <1>2 DEF Seeks, SeeksIn
<1>6. I!Place(c) = EntryOf(shift, cons[c].ver, n)
  BY <1>1, <1>3, <1>4, <1>5, PlaceAt
<1>7. EntryOf(shift, cons[c].ver, n) = ent[n] /\ Entered(n)
  <2>1. CASE cons[c].pc = "clear"
    <3>1. Clears(c, n)
      BY <1>4, <2>1 DEF Clears
    <3>2. EntryOf(shift, cons[c].ver, n) = ent[n]
      BY <1>1, <1>4, <2>1 DEF Seeks
    <3> QED
      BY <1>4, <3>1, <3>2 DEF Entered
  <2>2. CASE cons[c].pc \in {"block", "read", "empty"}
    <3>1. Keeps(c, cons[c].pos)
      BY <1>2, <1>3, <2>2, UntilIs DEF Keeps, From, RangeTyped, Taking
    <3>2. Entered(n)
      BY <1>1, <1>3, <1>4, <3>1, KeptEntered
    <3> QED
      BY <1>3, <1>4, <1>5, <3>1, <3>2
  <2> QED
    BY <2>1, <2>2
<1>8. ent[n] \in Nat /\ KeyOf(ent[n]) = Start(n) /\ ValueOf(ent[n]) = blk[n]
  BY <1>1, <1>7 DEF EntriesRight
<1>9. blk[n] \in Blocks
  BY <1>1, <1>7 DEF BlocksRight, HasBlock
<1> QED
  BY <1>3, <1>4, <1>6, <1>7, <1>8, <1>9

(* Of the items of a block that are not gone, none is counted.             *)
LEMMA KeptCount ==
  ASSUME RangeInv, NEW c \in Consumers, Takes(c), cons[c].pc = "empty",
         NEW n \in Nat, n = Num(cons[c].pos)
  PROVE  /\ Cardinality(GoneIn(n)) \in Nat
         /\ Cardinality(GoneIn(n)) + (Until(c) - cons[c].pos) <= BlockSize
<1>1. PICK p \in Nat, u \in Nat, s \in Nat, b \in Nat \ {0} :
        p = cons[c].pos /\ u = Until(c) /\ s = Start(n) /\ b = BlockSize
  <2>1. RangeTyped(c) /\ cons[c].pos \in Nat
    BY TakesPos
  <2>2. Until(c) \in Nat
    BY <2>1, UntilIs
  <2>3. n \in Int
    OBVIOUS
  <2>4. Start(n) \in Nat
    BY <2>3, StartIs
  <2> QED
    BY <2>1, <2>2, <2>4, SizeIs
<1>2. s <= p /\ p < u /\ u <= s + b /\ u <= End(c) /\ End(c) \in Nat
  <2>1. RangeTyped(c) /\ p \in Int /\ BaseOf(p) = Start(Num(p)) /\ BaseOf(p) <= p
    BY <1>1, TakesPos, BaseIs
  <2>2. BaseOf(p) = s
    BY <1>1, <2>1
  <2> QED
    BY <1>1, <2>1, <2>2, UntilIs
<1>3. PICK x \in Int, y \in Int : x = p - s /\ y = u - s - 1
  OBVIOUS
<1>4. 0 <= x /\ x <= y /\ y <= b - 1
  BY <1>2, <1>3
<1>5. x..y \in SUBSET Offsets
  BY <1>1, <1>4 DEF Offsets
<1>6. ASSUME NEW o \in x..y PROVE ~ Gone(s + o)
  <2>1. PICK i \in Nat : i = s + o /\ p <= i /\ i < u
    BY <1>2, <1>3, <1>4, <1>6
  <2>2. Keeps(c, i)
    BY <1>1, <1>2, <2>1 DEF Keeps, From
  <2>3. ~ Gone(i)
    BY <2>2 DEF Gone
  <2> QED
    BY <2>1, <2>3
<1>7. GoneIn(n) \cap x..y = {} /\ GoneIn(n) \in SUBSET Offsets
  BY <1>1, <1>6 DEF GoneIn
<1>8. IsFiniteSet(x..y) /\ Cardinality(x..y) = u - p
  <2>1. IsFiniteSet(x..y) /\ Cardinality(x..y) = IF x > y THEN 0 ELSE y - x + 1
    BY FS_Interval
  <2> QED
    BY <1>3, <1>4, <2>1
<1>9. IsFiniteSet(GoneIn(n)) /\ Cardinality(GoneIn(n)) \in Nat
  BY <1>7, OffsetCount
<1>10. Cardinality(GoneIn(n) \cup x..y) = Cardinality(GoneIn(n)) + (u - p)
  <2>1. Cardinality(GoneIn(n) \cup x..y)
          = Cardinality(GoneIn(n)) + Cardinality(x..y) - Cardinality(GoneIn(n) \cap x..y)
    BY <1>8, <1>9, FS_Union
  <2>2. Cardinality({}) = 0
    BY FS_EmptySet
  <2>3. PICK k \in Nat, g \in Nat : k = Cardinality(x..y) /\ g = Cardinality(GoneIn(n)) /\ k = u - p
    BY <1>2, <1>8, <1>9
  <2>4. Cardinality(GoneIn(n) \cap x..y) = 0
    BY <1>7, <2>2
  <2>5. PICK a : a = Cardinality(GoneIn(n) \cup x..y)
    OBVIOUS
  <2>6. a = g + k - 0
    BY <2>1, <2>3, <2>4, <2>5
  <2>7. a = g + (u - p)
    BY <2>3, <2>6
  <2> QED
    BY <2>3, <2>5, <2>7
<1>11. PICK G \in SUBSET Offsets : G = GoneIn(n) \cup x..y
  BY <1>5, <1>7
<1>12. Cardinality(G) <= BlockSize
  BY OffsetCount
<1> QED
  BY <1>1, <1>9, <1>10, <1>11, <1>12

LEMMA ListIsFound ==
  ASSUME CountInv, RangeInv, ImplicitInv
  PROVE  I!FindsItsBlock
<1>1. PICK ent, blk, shift, low : ImplicitWell(ent, blk, shift, low)
  BY DEF ImplicitInv
<1>2. /\ ListTyped /\ CountsRight(blk) /\ AllSeek(ent, blk, shift) /\ \A c \in Consumers : Seeks(ent, blk, shift, c)
  BY <1>1 DEF ImplicitWell, KeysInv, AllSeek
<1>3. ASSUME NEW c \in Consumers, cons[c].pc = "base" PROVE I!TailKey(c) # 1
  <2>1. PICK v \in Nat, f \in Nat : /\ v = cons[c].ver /\ f = cons[c].front /\ 1 <= v /\ v <= Newest
                                    /\ f < Places(v) /\ Keyed(PointsTo(v, f))
    BY <1>2, <1>3 DEF Seeks, Seeking, SeeksIn, Taking
  <2>2. PICK z \in Nat \ {0} : z = Places(v)
    BY <1>2, <2>1, ListIs
  <2>3. f % z = f
    BY <2>1, <2>2, ModSmall
  <2>4. I!Entry(headers[v], f) = PointsTo(v, f)
    BY <2>2, <2>3, HeaderEntry
  <2> QED
    BY <2>1, <2>4 DEF I!TailKey, Keyed, KeyOf
<1>4. ASSUME NEW c \in Consumers, cons[c].pc \in {"block", "read", "empty", "clear"}
      PROVE  /\ entries[I!Place(c)].key = BaseOf(cons[c].pos)
             /\ entries[I!Place(c)].value # 0
             /\ cons[c].pc = "empty" =>
                  dequeued[cons[c].block] + (Until(c) - cons[c].pos) <= BlockSize
  <2>1. PICK n \in Nat, e \in Nat :
           /\ n = Num(cons[c].pos) /\ cons[c].pos \in Nat /\ Entered(n) /\ I!Place(c) = e
           /\ KeyOf(e) = Start(n) /\ ValueOf(e) = blk[n] /\ blk[n] \in Blocks
    BY <1>1, <1>4, BlockFound
  <2>2. BaseOf(cons[c].pos) = Start(n)
    <3>1. PICK p \in Int : p = cons[c].pos
      BY <2>1
    <3> QED
      BY <2>1, <3>1, BaseIs
  <2>3. ValueOf(e) # 0
    BY <2>1 DEF Blocks
  <2>4. ASSUME cons[c].pc = "empty"
        PROVE  dequeued[cons[c].block] + (Until(c) - cons[c].pos) <= BlockSize
    <3>1. cons[c].block = blk[n]
      BY <1>2, <2>1, <2>4 DEF Seeks
    <3>2. dequeued[blk[n]] = Cardinality(GoneIn(n))
      BY <1>2, <2>1 DEF CountsRight
    <3>3. Takes(c)
      BY <2>4 DEF Takes, Taking
    <3>4. Cardinality(GoneIn(n)) + (Until(c) - cons[c].pos) <= BlockSize
      BY <2>1, <2>4, <3>3, KeptCount
    <3> QED
      BY <3>1, <3>2, <3>4
  <2> QED
    BY <2>1, <2>2, <2>3, <2>4 DEF KeyOf, ValueOf
<1> QED
  BY <1>3, <1>4, ImplicitParts DEF I!FindsItsBlock, I!At, I!Invalid, I!NoBlock

(* Whoever has a block, has it as one number.                              *)
LEMMA OwnersSplit ==
  ASSUME NEW b
  PROVE  I!Owners(b) =
           (IF b \in free THEN {<<"free">>} ELSE {})
           \cup {<<"entry", e>> : e \in {f \in DOMAIN entries : ValueOf(f) = b}}
           \cup (IF ppc = "value" /\ tailBlock = b THEN {<<"producer">>} ELSE {})
           \cup {<<"consumer", c>> : c \in {d \in Consumers : cons[d].pc = "release" /\ cons[d].block = b}}
BY DEF I!Owners, I!At, ValueOf

LEMMA OwnerEntry ==
  ASSUME ListTyped, NEW ent, NEW blk, NEW shift, EntriesRight(ent, blk, shift),
         NEW f \in DOMAIN entries, ValueOf(f) # 0
  PROVE  \E n \in Nat : Entered(n) /\ ent[n] = f /\ blk[n] = ValueOf(f)
<1>1. f \in Nat /\ 1 <= f /\ f <= Len(entries)
  BY NewestIs DEF ListTyped
<1> QED
  BY <1>1, ValueEntered

LEMMA OwnerConsumer ==
  ASSUME CountInv, RangeInv, NEW ent, NEW blk, NEW shift, NEW low,
         ImplicitWell(ent, blk, shift, low), NEW c \in Consumers, cons[c].pc = "release"
  PROVE  \E n \in Nat : /\ Releases(c, n) /\ ~ Entered(n) /\ ~ Unentered(n)
                        /\ cons[c].block = blk[n]
<1>1. ListStaged /\ EmptiedByOne /\ Seeks(ent, blk, shift, c)
  BY DEF ImplicitWell, KeysInv, ListTyped, AllSeek
<1>2. Takes(c)
  BY DEF Takes, Taking
<1>3. PICK n \in Nat : n = Num(cons[c].pos) /\ ~ Unentered(n)
  BY <1>1, <1>2, PosBegun
<1>4. Done(n)
  BY <1>1, <1>3 DEF EmptiedByOne
<1>5. ASSUME NEW d \in Consumers, Clears(d, n) PROVE FALSE
  <2>1. d = c
    BY <1>1, <1>3, <1>5 DEF EmptiedByOne, Clears
  <2> QED
    BY <1>5, <2>1 DEF Clears
<1>6. ~ Entered(n)
  BY <1>4, <1>5 DEF Entered
<1>7. cons[c].block = blk[n]
  BY <1>1, <1>3 DEF Seeks
<1> QED
  BY <1>3, <1>6, <1>7 DEF Releases

LEMMA OwnedOnce ==
  ASSUME CountInv, RangeInv, ImplicitInv, NEW b \in Blocks
  PROVE  \E x : I!Owners(b) = {x}
<1>1. PICK ent, blk, shift, low : ImplicitWell(ent, blk, shift, low)
  BY DEF ImplicitInv
<1>2. ListTyped /\ EntriesRight(ent, blk, shift) /\ BlocksRight(blk) /\ EmptiedByOne
  BY <1>1 DEF ImplicitWell, KeysInv
<1>3. b # 0
  BY DEF Blocks
<1>4. ASSUME NEW f \in DOMAIN entries, ValueOf(f) = b
      PROVE  \E n \in Nat : Entered(n) /\ HasBlock(n) /\ ent[n] = f /\ blk[n] = b
  BY <1>2, <1>3, <1>4, OwnerEntry DEF HasBlock
<1>5. ASSUME ppc = "value", tailBlock = b
      PROVE  \E n \in Nat : Unentered(n) /\ HasBlock(n) /\ blk[n] = b
  <2>1. ListStaged
    BY <1>2 DEF ListTyped
  <2>2. Begun - 1 \in Nat
    BY <1>5, BegunTyped DEF Begun
  <2> QED
    BY <1>2, <1>5, <2>2 DEF Unentered, HasBlock, BlocksRight
<1>6. ASSUME NEW c \in Consumers, cons[c].pc = "release", cons[c].block = b
      PROVE  \E n \in Nat : Releases(c, n) /\ ~ Entered(n) /\ ~ Unentered(n) /\ HasBlock(n) /\ blk[n] = b
  BY <1>1, <1>6, OwnerConsumer DEF HasBlock
<1>7. CASE b \in free
  <2>1. \A n \in Nat : HasBlock(n) => blk[n] # b
    BY <1>2, <1>7 DEF BlocksRight
  <2>2. \A f \in DOMAIN entries : ValueOf(f) # b
    BY <1>4, <2>1
  <2>3. ~ (ppc = "value" /\ tailBlock = b)
    BY <1>5, <2>1
  <2>4. \A c \in Consumers : ~ (cons[c].pc = "release" /\ cons[c].block = b)
    BY <1>6, <2>1
  <2>5. I!Owners(b) = {<<"free">>}
    BY <1>7, <2>2, <2>3, <2>4, OwnersSplit
  <2> QED
    BY <2>5
<1>8. CASE b \notin free
  <2>1. PICK n \in Nat : HasBlock(n) /\ blk[n] = b
    BY <1>2, <1>8 DEF BlocksRight
  <2>2. \A m \in Nat : HasBlock(m) /\ blk[m] = b => m = n
    BY <1>2, <2>1 DEF BlocksRight
  <2>3. ASSUME NEW f \in DOMAIN entries, ValueOf(f) = b PROVE Entered(n) /\ ent[n] = f
    BY <1>4, <2>2, <2>3
  <2>4. ppc = "value" /\ tailBlock = b => Unentered(n)
    BY <1>5, <2>2
  <2>5. ASSUME NEW c \in Consumers, cons[c].pc = "release", cons[c].block = b
        PROVE  Releases(c, n) /\ ~ Entered(n) /\ ~ Unentered(n)
    BY <1>6, <2>2, <2>5
  <2>6. CASE Entered(n)
    <3>1. ent[n] \in DOMAIN entries /\ ValueOf(ent[n]) = b
      <4>1. ValueOf(ent[n]) = b /\ ent[n] = EntryOf(shift, Newest, n)
        BY <1>2, <2>1, <2>6 DEF EntriesRight
      <4>2. Newest \in Nat /\ 1 <= Newest /\ Newest <= Newest /\ n \in Int /\ shift \in [Nat -> Int]
        <5>1. shift \in [Nat -> Int]
          BY <1>1 DEF ImplicitWell, KeysInv, KeysCongruent
        <5>2. Newest \in Nat /\ 1 <= Newest
          BY <1>2, NewestIs
        <5> QED
          BY <5>1, <5>2
      <4>3. /\ EntryOf(shift, Newest, n) \in Nat /\ 1 <= EntryOf(shift, Newest, n)
            /\ EntryOf(shift, Newest, n) <= Len(entries)
        BY <1>2, <4>2, PlaceIs
      <4>4. PICK l \in Nat : l = Len(entries) /\ DOMAIN entries = 1..l
        BY <1>2, NewestIs DEF ListTyped
      <4> QED
        BY <4>1, <4>3, <4>4
    <3>2. ~ Unentered(n)
      BY <2>6 DEF Entered
    <3>3. ~ (ppc = "value" /\ tailBlock = b)
      BY <2>4, <3>2
    <3>4. {f \in DOMAIN entries : ValueOf(f) = b} = {ent[n]}
      BY <2>3, <3>1
    <3>5. {c \in Consumers : cons[c].pc = "release" /\ cons[c].block = b} = {}
      BY <2>5, <2>6
    <3>6. I!Owners(b) = {<<"entry", ent[n]>>}
      BY <1>8, <3>3, <3>4, <3>5, OwnersSplit
    <3> QED
      BY <3>6
  <2>7. CASE Unentered(n)
    <3>1. ~ Entered(n)
      BY <2>7 DEF Entered
    <3>2. ppc = "value" /\ tailBlock = b
      <4>1. ppc = "value" /\ n = Begun - 1
        BY <2>7 DEF Unentered
      <4> QED
        BY <1>2, <2>1, <4>1 DEF BlocksRight
    <3>3. {f \in DOMAIN entries : ValueOf(f) = b} = {}
      BY <2>3, <3>1
    <3>4. {c \in Consumers : cons[c].pc = "release" /\ cons[c].block = b} = {}
      BY <2>5, <2>7
    <3>5. I!Owners(b) = {<<"producer">>}
      BY <1>8, <3>2, <3>3, <3>4, OwnersSplit
    <3> QED
      BY <3>5
  <2>8. CASE ~ Entered(n) /\ ~ Unentered(n)
    <3>1. PICK c \in Consumers : Releases(c, n)
      BY <2>1, <2>8 DEF HasBlock
    <3>2. cons[c].pc = "release" /\ Num(cons[c].pos) = n
      BY <3>1 DEF Releases
    <3>3. cons[c].block = b
      <4>1. Seeks(ent, blk, shift, c)
        BY <1>1 DEF ImplicitWell, AllSeek
      <4> QED
        BY <2>1, <3>2, <4>1 DEF Seeks
    <3>4. ASSUME NEW d \in Consumers, cons[d].pc = "release", cons[d].block = b PROVE d = c
      <4>1. Releases(d, n)
        BY <2>5, <3>4
      <4> QED
        BY <1>2, <3>2, <4>1 DEF EmptiedByOne, Releases
    <3>5. {d \in Consumers : cons[d].pc = "release" /\ cons[d].block = b} = {c}
      BY <3>2, <3>3, <3>4
    <3>6. {f \in DOMAIN entries : ValueOf(f) = b} = {}
      BY <2>3, <2>8
    <3>7. ~ (ppc = "value" /\ tailBlock = b)
      BY <2>4, <2>8
    <3>8. I!Owners(b) = {<<"consumer", c>>}
      BY <1>8, <3>5, <3>6, <3>7, OwnersSplit
    <3> QED
      BY <3>8
  <2> QED
    BY <2>6, <2>7, <2>8
<1> QED
  BY <1>7, <1>8

LEMMA OwnersCount ==
  ASSUME CountInv, RangeInv, ImplicitInv
  PROVE  I!OneOwner
<1>1. ASSUME NEW b \in Blocks PROVE Cardinality(I!Owners(b)) = 1
  <2>1. PICK x : I!Owners(b) = {x}
    BY OwnedOnce
  <2> QED
    BY <2>1, FS_Singleton
<1>2. \A S : I!Cardinality(S) = Cardinality(S)
  BY DEF I!Cardinality, I!IsFiniteSet, Cardinality, IsFiniteSet
<1> QED
  BY <1>1, <1>2, ImplicitParts DEF I!OneOwner

-----------------------------------------------------------------------------
(* The results.                                                            *)

(* The variables of a sub-queue have values of their kind, whatever the    *)
(* sizes and the number of consumers.  An implicit producer's indices lead *)
(* to entries that exist, also after the index has grown any number of     *)
(* times, and its entries to blocks that there is memory for.              *)
THEOREM TypeCorrect == Spec => []TypeOK
<1>1. CountInv /\ (~ isExplicit => ImplicitInv) /\ (isExplicit => TypeOK) => TypeOK
  BY ListIsTyped DEF TypeOK
<1> QED
  BY <1>1, AlwaysCountInv, AlwaysImplicit, ExplicitTypeCorrect, PTL

(* The assertions hold for either kind.  Of an explicit producer,          *)
(* set_many_empty empties no place twice.  Of an implicit producer, those  *)
(* of get_block_index_index_for_index and set_many_empty:                  *)
(* the tail that a consumer loads has a key, the entry that it computes    *)
(* from it, in whichever index it loaded, has the number of its block and  *)
(* leads to the block for as long as it has items to take from it, and no  *)
(* more items of a block are counted than it has.                          *)
THEOREM AssertionsHold == Spec => []AssertsHold
<1>1. /\ CountInv /\ RangeInv /\ (~ isExplicit => ImplicitInv) /\ (isExplicit => AssertsHold)
      => AssertsHold
  BY ListIsFound DEF AssertsHold
<1> QED
  BY <1>1, AlwaysCountInv, TakenOnce, AlwaysImplicit, ExplicitAssertsHold, PTL

(* A block of an implicit producer is in one place: in the free list, in   *)
(* one entry of the index, with the producer that has just taken it from   *)
(* the free list, or with the consumer that emptied it and is about to     *)
(* give it back.  None is given back twice, none is lost, and none is in   *)
(* use for two numbers.                                                    *)
THEOREM OneOwnerAlways == Spec => []OneOwner
<1>1. CountInv /\ RangeInv /\ (~ isExplicit => ImplicitInv) => OneOwner
  BY OwnersCount DEF OneOwner
<1> QED
  BY <1>1, AlwaysCountInv, TakenOnce, AlwaysImplicit, PTL
=============================================================================

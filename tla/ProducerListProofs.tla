------------------------- MODULE ProducerListProofs -------------------------
(***************************************************************************)
(* Proofs about Producer, continued: the list of the blocks of an implicit *)
(* producer, what consumers find in it through whatever index they have    *)
(* loaded, the blocks they give back, and the entries an enqueue inserts.  *)
(***************************************************************************)
EXTENDS ProducerProofs

-----------------------------------------------------------------------------
(* The list of an implicit producer.  Number n of the blocks is the block  *)
(* blk[n], and has the entry ent[n].                                       *)

(* How many numbers the newest index has come to.                          *)
Reached == IF ppc = "block" THEN Begun + 1 ELSE Begun

Newest         == Len(headers)
Places(v)      == Len(headers[v].index)
TailOf(v)      == headers[v].tail
PointsTo(v, p) == headers[v].index[p + 1]
KeyOf(e)       == entries[e].key
ValueOf(e)     == entries[e].value
Keyed(e)       == KeyOf(e) # 1

Stored  == [key : Nat, value : Nat]
Indices == [tail : Nat, index : Seq(Nat)]

(* Only the first item of a block needs more than the two stores.          *)
ListStaged ==
  /\ ppc \in {"idle", "publish", "block", "rewound", "value", "elem", "tail"}
  /\ ppc \in {"publish", "block", "rewound", "value", "elem"} => Off(tailIndex) = 0

ListTyped ==
  /\ ListStaged
  /\ entries \in Seq(Stored)
  /\ \A e \in Nat : 1 <= e /\ e <= Len(entries) => ValueOf(e) \in Blocks \cup {0}
  /\ headers \in Seq(Indices) /\ Newest >= 1 /\ Places(Newest) = Len(entries)
  /\ \A v \in Nat : 1 <= v /\ v <= Newest =>
       /\ Places(v) > 0 /\ TailOf(v) < Places(v)
       /\ \A p \in Nat : p < Places(v) => 1 <= PointsTo(v, p) /\ PointsTo(v, p) <= Len(entries)
       /\ \E k \in Nat \ {0} : Places(Newest) = Places(v) * k
  /\ \A p, q \in Nat : p < Places(Newest) /\ q < Places(Newest)
                         /\ PointsTo(Newest, p) = PointsTo(Newest, q) => p = q

BlocksTyped == tailBlock \in Blocks \cup {0} /\ free \subseteq Blocks /\ dequeued \in [Blocks -> Nat]

(* In index v number n has its place at shift[v] + n, modulo the size.     *)
EntryOf(shift, v, n) == PointsTo(v, (shift[v] + n) % Places(v))

(* What all indices, however old, say about the numbers of their entries.  *)
KeysCongruent(shift) ==
  /\ shift \in [Nat -> Int]
  /\ shift[Newest] % Places(Newest) = (TailOf(Newest) - (Reached - 1)) % Places(Newest)
  /\ \A v, p \in Nat : 1 <= v /\ v <= Newest /\ p < Places(v) /\ Keyed(PointsTo(v, p)) =>
       /\ Off(KeyOf(PointsTo(v, p))) = 0
       /\ (p - Num(KeyOf(PointsTo(v, p)))) % Places(v) = shift[v] % Places(v)
  /\ \A v, p \in Nat : 1 <= v /\ v < Newest /\ p < Places(v) => Keyed(PointsTo(v, p))
  /\ Reached > 0 => Keyed(PointsTo(Newest, TailOf(Newest)))

(* The newest index has the latest numbers, those from low on.  The next   *)
(* place may have the number of an attempt that failed.                    *)
NumberedAs(low, n, e) ==
  \/ low <= n /\ KeyOf(e) = Start(n)
  \/ n < low /\ ~ Keyed(e)
  \/ n = Reached - Places(Newest) /\ ValueOf(e) = 0 /\ ppc # "block"

KeysLatest(shift, low) ==
  /\ low \in Nat /\ (low = 0 \/ low < Begun)
  /\ \A n \in Int : Reached - Places(Newest) <= n /\ n < Reached =>
       NumberedAs(low, n, EntryOf(shift, Newest, n))

(* The number that is being entered has its key.                           *)
KeyInserted(ent, shift) ==
  ppc \in {"publish", "block", "rewound", "value"} =>
    /\ ent[Num(tailIndex)] = EntryOf(shift, Newest, Num(tailIndex))
    /\ KeyOf(ent[Num(tailIndex)]) = Start(Num(tailIndex))

KeysInv(ent, shift, low) ==
  ListTyped /\ KeysCongruent(shift) /\ KeysLatest(shift, low) /\ KeyInserted(ent, shift)

(* All of its items are gone.                                              *)
Done(n) == \A o \in Offsets : Gone(Start(n) + o)

(* Who empties block number n: first it frees the entry, then the block.   *)
Clears(c, n)   == cons[c].pc = "clear" /\ Num(cons[c].pos) = n
Releases(c, n) == cons[c].pc = "release" /\ Num(cons[c].pos) = n

Unentered(n) == ppc = "value" /\ n = Begun - 1
Entered(n) ==
  /\ n < Begun /\ ~ Unentered(n)
  /\ ~ Done(n) \/ \E c \in Consumers : Clears(c, n)
HasBlock(n) == Entered(n) \/ Unentered(n) \/ \E c \in Consumers : Releases(c, n)

EntriesRight(ent, blk, shift) ==
  /\ \A n \in Nat : Entered(n) =>
       /\ Reached - Places(Newest) <= n /\ ent[n] = EntryOf(shift, Newest, n)
       /\ KeyOf(ent[n]) = Start(n) /\ ValueOf(ent[n]) = blk[n]
  /\ \A e \in Nat : 1 <= e /\ e <= Len(entries) /\ ValueOf(e) # 0 =>
       \E n \in Nat : Entered(n) /\ ent[n] = e

BlocksRight(blk) ==
  /\ \A n \in Nat : HasBlock(n) => blk[n] \in Blocks \ free
  /\ \A n, m \in Nat : HasBlock(n) /\ HasBlock(m) /\ blk[n] = blk[m] => n = m
  /\ \A b \in Blocks \ free : \E n \in Nat : HasBlock(n) /\ blk[n] = b
  /\ ppc = "value" => tailBlock = blk[Begun - 1]

(* The items of a block that are gone are counted.                         *)
GoneIn(n) == {o \in Offsets : Gone(Start(n) + o)}
CountsRight(blk) ==
  \A n \in Nat : Entered(n) \/ Unentered(n) => dequeued[blk[n]] = Cardinality(GoneIn(n))

(* A block is emptied by one consumer.                                     *)
EmptiedByOne ==
  /\ \A c \in Consumers : cons[c].pc \in {"clear", "release"} =>
       cons[c].pos \in Nat /\ Done(Num(cons[c].pos))
  /\ \A c, d \in Consumers :
       cons[c].pc \in {"clear", "release"} /\ cons[d].pc \in {"clear", "release"}
         /\ Num(cons[c].pos) = Num(cons[d].pos) => c = d

(* A consumer finds the entries of its items in the index that it loaded.  *)
Seeking(c) == cons[c].pc \in Taking \ {"index"}

SeeksIn(ent, shift, c) ==
  LET v == cons[c].ver IN
  /\ v \in Nat /\ 1 <= v /\ v <= Newest /\ Keyed(PointsTo(v, TailOf(v)))
  /\ \A i \in Nat : Keeps(c, i) => EntryOf(shift, v, Num(i)) = ent[Num(i)]

Seeks(ent, blk, shift, c) ==
  /\ cons[c].pc \in {"index", "front", "base"} => cons[c].pos = cons[c].first
  /\ Seeking(c) => SeeksIn(ent, shift, c)
  /\ cons[c].pc = "base" => /\ cons[c].front \in Nat /\ cons[c].front < Places(cons[c].ver)
                            /\ Keyed(PointsTo(cons[c].ver, cons[c].front))
  /\ cons[c].pc \in {"block", "read", "empty", "clear", "release"} =>
       cons[c].slot = (shift[cons[c].ver] + Num(cons[c].pos)) % Places(cons[c].ver)
  /\ cons[c].pc = "clear" => EntryOf(shift, cons[c].ver, Num(cons[c].pos)) = ent[Num(cons[c].pos)]
  /\ cons[c].pc \in {"read", "empty", "clear", "release"} => cons[c].block = blk[Num(cons[c].pos)]

AllSeek(ent, blk, shift) == \A c \in Consumers : Seeks(ent, blk, shift, c)

ImplicitWell(ent, blk, shift, low) ==
  /\ ent \in [Nat -> Nat] /\ blk \in [Nat -> Nat]
  /\ BlocksTyped /\ KeysInv(ent, shift, low) /\ EntriesRight(ent, blk, shift) /\ BlocksRight(blk)
  /\ CountsRight(blk) /\ EmptiedByOne /\ AllSeek(ent, blk, shift)

ImplicitInv == \E ent, blk, shift, low : ImplicitWell(ent, blk, shift, low)

-----------------------------------------------------------------------------
(* The values in the list.                                                 *)

LEMMA ListIs ==
  ASSUME ListTyped, NEW v \in Nat, 1 <= v, v <= Newest
  PROVE  /\ Newest \in Nat /\ Len(entries) \in Nat
         /\ Places(v) \in Nat \ {0} /\ TailOf(v) \in Nat /\ TailOf(v) < Places(v)
         /\ \A p \in Nat : p < Places(v) =>
              PointsTo(v, p) \in Nat /\ 1 <= PointsTo(v, p) /\ PointsTo(v, p) <= Len(entries)
<1>1. headers[v] \in Indices
  BY SeqAt DEF ListTyped, Newest
<1>2. PICK i \in Seq(Nat) : i = headers[v].index
  BY <1>1 DEF Indices
<1>3. Len(i) \in Nat /\ headers[v].tail \in Nat
  BY <1>1 DEF Indices
<1>4. Places(v) = Len(i) /\ Places(v) > 0 /\ TailOf(v) < Places(v) /\ TailOf(v) = headers[v].tail
  BY <1>2 DEF Places, TailOf, ListTyped
<1>5. ASSUME NEW p \in Nat, p < Places(v)
      PROVE  PointsTo(v, p) \in Nat /\ 1 <= PointsTo(v, p) /\ PointsTo(v, p) <= Len(entries)
  <2>1. PICK q \in Nat : q = p + 1
    BY <1>5
  <2>2. i[q] \in Nat
    BY <1>3, <1>4, <1>5, <2>1, SeqAt
  <2>3. PointsTo(v, p) = i[q]
    BY <1>2, <2>1 DEF PointsTo
  <2>4. 1 <= PointsTo(v, p) /\ PointsTo(v, p) <= Len(entries)
    BY <1>5 DEF ListTyped
  <2> QED
    BY <2>2, <2>3, <2>4
<1>6. Newest \in Nat /\ Len(entries) \in Nat
  BY DEF ListTyped, Newest
<1> QED
  BY <1>3, <1>4, <1>5, <1>6

LEMMA NewestIs ==
  ASSUME ListTyped
  PROVE  /\ Newest \in Nat /\ 1 <= Newest /\ Len(entries) \in Nat
         /\ Places(Newest) \in Nat \ {0} /\ Places(Newest) = Len(entries)
         /\ TailOf(Newest) \in Nat /\ TailOf(Newest) < Places(Newest)
<1>1. Newest \in Nat /\ 1 <= Newest
  BY DEF ListTyped, Newest
<1> QED
  BY <1>1, ListIs DEF ListTyped

LEMMA EntryIs ==
  ASSUME ListTyped, NEW e \in Nat, 1 <= e, e <= Len(entries)
  PROVE  /\ KeyOf(e) \in Nat /\ ValueOf(e) \in Nat /\ ValueOf(e) \in Blocks \cup {0}
         /\ entries[e] = [key |-> KeyOf(e), value |-> ValueOf(e)]
<1>1. entries[e] \in Stored
  BY SeqAt DEF ListTyped
<1> QED
  BY <1>1 DEF KeyOf, ValueOf, Stored, ListTyped

LEMMA PlaceIs ==
  ASSUME ListTyped, NEW shift, shift \in [Nat -> Int], NEW v \in Nat, 1 <= v, v <= Newest, NEW n \in Int
  PROVE  /\ (shift[v] + n) % Places(v) \in Nat /\ (shift[v] + n) % Places(v) < Places(v)
         /\ EntryOf(shift, v, n) \in Nat
         /\ 1 <= EntryOf(shift, v, n) /\ EntryOf(shift, v, n) <= Len(entries)
<1>1. PICK p : p = (shift[v] + n) % Places(v)
  OBVIOUS
<1>2. shift[v] + n \in Int
  OBVIOUS
<1>3. p \in Nat /\ p < Places(v)
  BY <1>1, <1>2, ListIs, PlaceTyped
<1>4. EntryOf(shift, v, n) = PointsTo(v, p)
  BY <1>1 DEF EntryOf
<1> QED
  BY <1>1, <1>3, <1>4, ListIs

(* Numbers that a whole index apart have the same place, others near have  *)
(* different ones.                                                         *)
LEMMA EntriesApart ==
  ASSUME ListTyped, NEW shift, shift \in [Nat -> Int], NEW n \in Int, NEW m \in Int,
         EntryOf(shift, Newest, n) = EntryOf(shift, Newest, m),
         n - m < Places(Newest), m - n < Places(Newest)
  PROVE  n = m
<1>1. PICK z \in Nat \ {0}, s \in Int : z = Places(Newest) /\ s = shift[Newest]
  BY NewestIs
<1>2. PICK a \in Int, b \in Int : a = s + n /\ b = s + m
  BY <1>1
<1>3. /\ a % z \in Nat /\ a % z < z /\ b % z \in Nat /\ b % z < z
  BY <1>1, <1>2, PlaceTyped
<1>4. PointsTo(Newest, a % z) = PointsTo(Newest, b % z)
  BY <1>1, <1>2 DEF EntryOf
<1>5. a % z = b % z
  BY <1>1, <1>3, <1>4 DEF ListTyped
<1>6. Separates(a, b, z)
  BY ModSeparates
<1>7. a = b
  BY <1>1, <1>2, <1>5, <1>6 DEF Separates
<1> QED
  BY <1>1, <1>2, <1>7

LEMMA EntryAgain ==
  ASSUME ListTyped, NEW shift, shift \in [Nat -> Int], NEW n \in Int
  PROVE  EntryOf(shift, Newest, n - Places(Newest)) = EntryOf(shift, Newest, n)
<1>1. PICK z \in Nat \ {0}, s \in Int : z = Places(Newest) /\ s = shift[Newest]
  BY NewestIs
<1>2. PICK a \in Int : a = s + n
  BY <1>1
<1>3. (a - z) % z = a % z
  BY ModSelf
<1>4. s + (n - z) = a - z
  BY <1>1, <1>2
<1> QED
  BY <1>1, <1>2, <1>3, <1>4 DEF EntryOf

(* The tail of the newest index is at the place of the latest number, and  *)
(* behind it is the place of the next.                                     *)
LEMMA TailPlace ==
  ASSUME ListTyped, NEW shift, KeysCongruent(shift), Reached \in Nat
  PROVE  /\ EntryOf(shift, Newest, Reached - 1) = PointsTo(Newest, TailOf(Newest))
         /\ EntryOf(shift, Newest, Reached)
              = PointsTo(Newest, (TailOf(Newest) + 1) % Places(Newest))
<1>1. PICK z \in Nat \ {0}, s \in Int : z = Places(Newest) /\ s = shift[Newest]
  BY NewestIs DEF KeysCongruent
<1>2. PICK t \in Nat, r \in Nat : t = TailOf(Newest) /\ r = Reached /\ t < z
  BY <1>1, NewestIs
<1>3. s % z = (t - (r - 1)) % z
  BY <1>1, <1>2 DEF KeysCongruent
<1>4. PICK a \in Int, b \in Int, d \in Int : a = r - 1 /\ b = t - a /\ d = t + 1
  BY <1>2
<1>5. Shifts(s, b, a, z) /\ Shifts(s, b, r, z)
  BY <1>4, ModShifts
<1>6. s % z = b % z
  BY <1>3, <1>4
<1>7. (s + a) % z = (b + a) % z /\ (s + r) % z = (b + r) % z
  BY <1>5, <1>6 DEF Shifts
<1>8. b + a = t /\ b + r = d
  BY <1>2, <1>4
<1>9. t % z = t
  <2>1. t \in 0..(z - 1)
    BY <1>1, <1>2
  <2> QED
    BY <2>1, ModSmall
<1>10. (s + a) % z = t /\ (s + r) % z = d % z
  BY <1>7, <1>8, <1>9
<1> QED
  BY <1>1, <1>2, <1>4, <1>10 DEF EntryOf

(* What the module's operators look at.                                    *)
LEMMA HeaderEntry ==
  /\ I!header = headers[Newest]
  /\ I!Size(I!header) = Places(Newest)
  /\ \A v : I!Size(headers[v]) = Places(v)
  /\ \A v, i : I!Entry(headers[v], i) = PointsTo(v, i % Places(v))
BY DEF I!header, I!Size, I!Entry, I!Last, Newest, Places, PointsTo

(* A block with items that were put has been begun, and entered.           *)
LEMMA ListCovers ==
  ASSUME CountInv, ListStaged, NEW i \in Nat, i < tailIndex
  PROVE  /\ Num(i) \in Nat /\ Num(i) < Begun
         /\ (ppc \in {"publish", "block", "rewound", "value", "elem"} => Num(i) < Num(tailIndex))
         /\ ~ Unentered(Num(i))
<1>1. Begun \in Nat /\ tailIndex \in Nat /\ Num(tailIndex) \in Nat /\ Num(i) \in Nat /\ i \in Int
  BY BegunTyped, NumNat
<1>2. Num(i) <= Num(tailIndex)
  BY <1>1, NumOrder
<1>3. Off(tailIndex) = 0 => Num(i) < Num(tailIndex)
  BY <1>1, BeforeBase
<1>4. ppc \in {"publish", "block", "rewound", "value", "elem"} => Off(tailIndex) = 0
  BY DEF ListStaged
<1>5. Num(i) < Begun
  BY <1>1, <1>2, <1>3 DEF Begun
<1>6. ASSUME Unentered(Num(i)) PROVE FALSE
  <2>1. Begun = Num(tailIndex) + 1 /\ Num(i) = Begun - 1 /\ Num(i) < Num(tailIndex)
    BY <1>3, <1>4, <1>6 DEF Unentered, Begun
  <2> QED
    BY <1>1, <2>1
<1> QED
  BY <1>1, <1>3, <1>4, <1>5, <1>6

(* What consumers have still to take is in blocks that are entered.        *)
LEMMA KeptEntered ==
  ASSUME CountInv, RangeInv, ListStaged, NEW c \in Consumers, NEW i \in Nat, Keeps(c, i)
  PROVE  Num(i) \in Nat /\ Num(i) < Begun /\ Entered(Num(i)) /\ HasBlock(Num(i)) /\ ~ Done(Num(i))
<1>1. i < tailIndex
  BY HeldItem
<1>2. Num(i) \in Nat /\ Num(i) < Begun /\ ~ Unentered(Num(i))
  BY <1>1, ListCovers
<1>3. Off(i) \in Offsets /\ i = Start(Num(i)) + Off(i)
  <2>1. i = BaseOf(i) + Off(i) /\ BaseOf(i) = Start(Num(i))
    BY BaseIs, NumNat DEF BaseOf, Off
  <2> QED
    BY <2>1, NumNat
<1>4. ~ Gone(i)
  BY DEF Gone
<1>5. ~ Done(Num(i))
  BY <1>3, <1>4 DEF Done
<1> QED
  BY <1>2, <1>5 DEF Entered, HasBlock

(* The block that a consumer is at has been begun.                         *)
LEMMA PosBegun ==
  ASSUME CountInv, RangeInv, ListStaged, NEW c \in Consumers, Takes(c)
  PROVE  /\ RangeTyped(c) /\ cons[c].pos \in Nat /\ Num(cons[c].pos) \in Nat
         /\ Num(cons[c].pos) < Begun /\ ~ Unentered(Num(cons[c].pos))
         /\ (ppc \in {"publish", "block", "rewound", "value", "elem"}
               => Num(cons[c].pos) < Num(tailIndex))
<1>1. RangeTyped(c) /\ cons[c].pos \in Nat
  BY TakesPos
<1>2. cons[c].pos < headIndex
  BY <1>1, UntilIs DEF RangeTyped, RangeInv, RangesTyped
<1>3. cons[c].pos < tailIndex
  BY <1>1, <1>2, CountInvBehind DEF CountInv, CountersTyped, HeadBehindTail
<1> QED
  BY <1>1, <1>3, ListCovers

(* The indices have what they had, and entries that were used stay so.     *)
ListGrows(shift, s2) ==
  /\ Newest' \in Nat /\ Newest <= Newest'
  /\ \A v \in Nat : 1 <= v /\ v <= Newest =>
       /\ Places(v)' = Places(v) /\ s2[v] = shift[v]
       /\ \A p \in Nat : p < Places(v) =>
            /\ PointsTo(v, p)' = PointsTo(v, p)
            /\ Keyed(PointsTo(v, p)) => Keyed(PointsTo(v, p))'
       /\ Keyed(PointsTo(v, TailOf(v))) => Keyed(PointsTo(v, TailOf(v)))'

LEMMA GrowsEntry ==
  ASSUME ListTyped, NEW shift, shift \in [Nat -> Int], NEW s2, ListGrows(shift, s2),
         NEW v \in Nat, 1 <= v, v <= Newest, NEW n \in Int
  PROVE  EntryOf(s2, v, n)' = EntryOf(shift, v, n)
<1>1. PICK p : p = (shift[v] + n) % Places(v)
  OBVIOUS
<1>2. p \in Nat /\ p < Places(v)
  BY <1>1, PlaceIs
<1>3. PointsTo(v, p)' = PointsTo(v, p) /\ Places(v)' = Places(v) /\ s2[v] = shift[v]
  BY <1>2 DEF ListGrows
<1> QED
  BY <1>1, <1>3 DEF EntryOf

LEMMA SeeksOn ==
  ASSUME CountInv, RangeInv, ListTyped,
         NEW ent, NEW blk, NEW shift, shift \in [Nat -> Int],
         NEW c \in Consumers, Seeks(ent, blk, shift, c), cons'[c] = cons[c],
         \A i \in Nat : Keeps(c, i)' => Keeps(c, i),
         NEW e2, NEW b2, NEW s2, ListGrows(shift, s2),
         \A n \in Nat : n < Begun => e2[n] = ent[n] /\ b2[n] = blk[n]
  PROVE  Seeks(e2, b2, s2, c)'
<1> DEFINE v == cons[c].ver
<1>1. ASSUME NEW i \in Nat, Keeps(c, i) PROVE e2[Num(i)] = ent[Num(i)] /\ Num(i) \in Int
  BY <1>1, KeptEntered DEF ListTyped
<1>2. ASSUME Takes(c)
      PROVE  /\ Num(cons[c].pos) \in Int
             /\ e2[Num(cons[c].pos)] = ent[Num(cons[c].pos)]
             /\ b2[Num(cons[c].pos)] = blk[Num(cons[c].pos)]
  BY <1>2, PosBegun DEF ListTyped
<1>3. ASSUME Seeking(c)
      PROVE  /\ v \in Nat /\ 1 <= v /\ v <= Newest /\ v <= Newest' /\ s2[v] = shift[v]
             /\ Places(v)' = Places(v)
             /\ Keyed(PointsTo(v, TailOf(v)))'
  <2>1. v \in Nat /\ 1 <= v /\ v <= Newest /\ Keyed(PointsTo(v, TailOf(v)))
    BY <1>3 DEF Seeks, SeeksIn
  <2>2. Newest \in Nat /\ Newest <= Newest' /\ Newest' \in Nat
    BY NewestIs DEF ListGrows
  <2> QED
    BY <2>1, <2>2 DEF ListGrows
<1>4. ASSUME Seeking(c) PROVE SeeksIn(e2, s2, c)'
  <2>1. ASSUME NEW i \in Nat, Keeps(c, i)' PROVE EntryOf(s2, v, Num(i))' = e2[Num(i)]
    <3>1. EntryOf(shift, v, Num(i)) = ent[Num(i)]
      BY <1>4, <2>1 DEF Seeks, SeeksIn
    <3>2. EntryOf(s2, v, Num(i))' = EntryOf(shift, v, Num(i))
      BY <1>1, <1>3, <1>4, <2>1, GrowsEntry
    <3> QED
      BY <1>1, <2>1, <3>1, <3>2
  <2>2. Keyed(PointsTo(v, TailOf(v)))' /\ v \in Nat /\ 1 <= v /\ v <= Newest' /\ cons'[c].ver = v
    BY <1>3, <1>4
  <2> QED
    BY <2>1, <2>2 DEF SeeksIn, EntryOf
<1>5. cons[c].pc \in {"block", "read", "empty", "clear", "release"} =>
        cons[c].slot = (s2[v] + Num(cons[c].pos)) % Places(v)'
  BY <1>3 DEF Seeks, Seeking, Taking
<1>6. cons[c].pc = "clear" => EntryOf(s2, v, Num(cons[c].pos))' = e2[Num(cons[c].pos)]
  BY <1>2, <1>3, GrowsEntry DEF Seeks, Seeking, Takes, Taking
<1>7. cons[c].pc \in {"read", "empty", "clear", "release"} => cons[c].block = b2[Num(cons[c].pos)]
  BY <1>2 DEF Seeks, Takes, Taking
<1>8. cons[c].pc = "base" => /\ cons[c].front \in Nat /\ cons[c].front < Places(v)'
                             /\ Keyed(PointsTo(v, cons[c].front))'
  <2>1. ASSUME cons[c].pc = "base"
        PROVE  /\ cons[c].front \in Nat /\ cons[c].front < Places(v)
               /\ Keyed(PointsTo(v, cons[c].front)) /\ Seeking(c)
    BY <2>1 DEF Seeks, Seeking, Taking
  <2> QED
    BY <1>3, <2>1 DEF ListGrows
<1>9. Seeking(c)' <=> Seeking(c)
  BY DEF Seeking
<1>10. cons[c].pc \in {"index", "front", "base"} => cons[c].pos = cons[c].first
  BY DEF Seeks
<1> QED
  BY <1>4, <1>5, <1>6, <1>7, <1>8, <1>9, <1>10 DEF Seeks, EntryOf, Num

(* What depends on the list alone stays as it is.                          *)
ListLike ==
  /\ UNCHANGED <<headers, entries>>
  /\ Begun' = Begun /\ Reached' = Reached
  /\ (ppc' = "block" <=> ppc = "block") /\ (ppc' = "value" <=> ppc = "value")
  /\ ListStaged => ListStaged'
  /\ ppc' \in {"publish", "block", "rewound", "value"} => ppc' = ppc /\ tailIndex' = tailIndex

LEMMA SameLike ==
  ASSUME UNCHANGED <<headers, entries, tailIndex, ppc>>
  PROVE  ListLike
BY DEF ListLike, Begun, Reached, ListStaged

LEMMA ListNames ==
  ASSUME UNCHANGED <<headers, entries>>
  PROVE  /\ Newest' = Newest
         /\ \A v : Places(v)' = Places(v) /\ TailOf(v)' = TailOf(v)
         /\ \A v, p : PointsTo(v, p)' = PointsTo(v, p)
         /\ \A e : KeyOf(e)' = KeyOf(e) /\ ValueOf(e)' = ValueOf(e) /\ (Keyed(e)' <=> Keyed(e))
         /\ \A shift, v, n : EntryOf(shift, v, n)' = EntryOf(shift, v, n)
BY DEF Newest, Places, TailOf, PointsTo, KeyOf, ValueOf, Keyed, EntryOf

LEMMA LikeGrows ==
  ASSUME ListTyped, UNCHANGED <<headers, entries>>, NEW shift
  PROVE  ListGrows(shift, shift)
BY NewestIs, ListNames DEF ListGrows

LEMMA KeysStay ==
  ASSUME NEW ent, NEW shift, NEW low, KeysInv(ent, shift, low), ListLike
  PROVE  KeysInv(ent, shift, low)'
<1>1. UNCHANGED <<headers, entries>>
  BY DEF ListLike
<1>2. ListTyped'
  BY <1>1, ListNames DEF KeysInv, ListTyped, ListLike
<1>3. KeysCongruent(shift)'
  <2>1. \A v, p \in Nat : KeyOf(PointsTo(v, p))' = KeyOf(PointsTo(v, p))
                            /\ (Keyed(PointsTo(v, p))' <=> Keyed(PointsTo(v, p)))
    BY <1>1 DEF KeyOf, PointsTo, Keyed
  <2>2. Keyed(PointsTo(Newest, TailOf(Newest)))' <=> Keyed(PointsTo(Newest, TailOf(Newest)))
    BY <1>1 DEF KeyOf, PointsTo, Keyed, Newest, TailOf
  <2> QED
    BY <1>1, <2>1, <2>2, ListNames DEF KeysInv, KeysCongruent, ListLike, Off, Num
<1>4. KeysLatest(shift, low)'
  <2>1. \A n : NumberedAs(low, n, EntryOf(shift, Newest, n))' <=> NumberedAs(low, n, EntryOf(shift, Newest, n))
    BY <1>1, ListNames DEF NumberedAs, ListLike, Start, KeyOf, ValueOf, Keyed, EntryOf, Newest, PointsTo, Places
  <2> QED
    BY <1>1, <2>1, ListNames DEF KeysInv, KeysLatest, ListLike
<1>5. KeyInserted(ent, shift)'
  <2>1. ASSUME ppc' \in {"publish", "block", "rewound", "value"} PROVE KeyInserted(ent, shift)'
    <3>1. ppc' = ppc /\ tailIndex' = tailIndex
      BY <2>1 DEF ListLike
    <3> QED
      BY <1>1, <3>1 DEF KeysInv, KeyInserted, EntryOf, PointsTo, Places, Newest, KeyOf, Start, Num
  <2> QED
    BY <2>1 DEF KeyInserted
<1> QED
  BY <1>2, <1>3, <1>4, <1>5 DEF KeysInv

(* Who has which block, and whether its items are gone, stays as it is.    *)
BlocksLike ==
  /\ Begun' = Begun /\ (ppc' = "value" <=> ppc = "value")
  /\ \A i \in Int : Gone(i)' <=> Gone(i)
  /\ \A c \in Consumers, n \in Nat :
       (Clears(c, n)' <=> Clears(c, n)) /\ (Releases(c, n)' <=> Releases(c, n))

LEMMA GoneSame ==
  ASSUME NEW n \in Nat, \A i \in Int : Gone(i)' <=> Gone(i)
  PROVE  (Done(n)' <=> Done(n)) /\ GoneIn(n)' = GoneIn(n)
<1>1. ASSUME NEW o \in Offsets PROVE Gone(Start(n) + o)' <=> Gone(Start(n) + o)
  <2>1. PICK i \in Int : i = Start(n) + o
    BY <1>1, ItemOf
  <2>2. Gone(i)' <=> Gone(i)
    OBVIOUS
  <2> QED
    BY <2>1, <2>2 DEF Gone, Start
<1>2. Offsets' = Offsets
  BY DEF Offsets
<1> QED
  BY <1>1, <1>2 DEF Done, GoneIn

LEMMA BlocksNames ==
  ASSUME BlocksLike, NEW n \in Nat
  PROVE  /\ Unentered(n)' <=> Unentered(n)
         /\ Entered(n)' <=> Entered(n)
         /\ HasBlock(n)' <=> HasBlock(n)
         /\ GoneIn(n)' = GoneIn(n) /\ (Done(n)' <=> Done(n))
<1>1. (Done(n)' <=> Done(n)) /\ GoneIn(n)' = GoneIn(n)
  BY GoneSame DEF BlocksLike
<1>2. Unentered(n)' <=> Unentered(n)
  BY DEF Unentered, BlocksLike
<1>3. Entered(n)' <=> Entered(n)
  BY <1>1, <1>2 DEF Entered, BlocksLike
<1> QED
  BY <1>1, <1>2, <1>3 DEF HasBlock, BlocksLike

LEMMA EntriesStay ==
  ASSUME NEW ent, NEW blk, NEW shift, EntriesRight(ent, blk, shift), ListLike,
         \A n \in Nat : Entered(n)' <=> Entered(n)
  PROVE  EntriesRight(ent, blk, shift)'
<1>1. UNCHANGED <<headers, entries>> /\ Reached' = Reached
  BY DEF ListLike
<1>2. ASSUME NEW n \in Nat, Entered(n)'
      PROVE  /\ Reached' - Places(Newest)' <= n /\ ent[n] = EntryOf(shift, Newest, n)'
             /\ KeyOf(ent[n])' = Start(n)' /\ ValueOf(ent[n])' = blk[n]
  BY <1>1, <1>2 DEF EntriesRight, EntryOf, PointsTo, Places, Newest, KeyOf, ValueOf, Start
<1>3. ASSUME NEW e \in Nat, 1 <= e, e <= Len(entries)', ValueOf(e)' # 0
      PROVE  \E n \in Nat : Entered(n)' /\ ent[n] = e
  BY <1>1, <1>3 DEF EntriesRight, ValueOf
<1> QED
  BY <1>2, <1>3 DEF EntriesRight, EntryOf, KeyOf, ValueOf

LEMMA BlocksStay ==
  ASSUME NEW blk, BlocksRight(blk), CountsRight(blk), BlocksTyped, BlocksLike,
         UNCHANGED <<tailBlock, free, dequeued>>
  PROVE  BlocksRight(blk)' /\ CountsRight(blk)' /\ BlocksTyped'
<1>1. \A n \in Nat : (HasBlock(n)' <=> HasBlock(n)) /\ (Unentered(n)' <=> Unentered(n))
                     /\ (Entered(n)' <=> Entered(n)) /\ GoneIn(n)' = GoneIn(n)
  BY BlocksNames
<1>2. BlocksRight(blk)'
  BY <1>1 DEF BlocksRight, Blocks, BlocksLike
<1>3. CountsRight(blk)'
  BY <1>1 DEF CountsRight
<1> QED
  BY <1>2, <1>3 DEF BlocksTyped, Blocks

(* A step of one consumer that neither comes to the end of a block nor     *)
(* leaves it.                                                              *)
LEMMA ListCalm ==
  ASSUME CountInv, RangeInv, NEW ent, NEW blk, NEW shift, NEW low,
         ImplicitWell(ent, blk, shift, low), NEW c \in Consumers, Only(c),
         UNCHANGED <<tailIndex, tailBlock, ppc, headers, entries, dequeued, free>>,
         cons[c].pc \notin {"clear", "release"}, cons'[c].pc \notin {"clear", "release"},
         \A i \in Int : Gone(i)' <=> Gone(i),
         \A d \in Consumers \ {c}, i \in Int : Keeps(d, i)' <=> Keeps(d, i),
         Seeks(ent, blk, shift, c)'
  PROVE  ImplicitWell(ent, blk, shift, low)'
<1>1. ListLike /\ UNCHANGED <<headers, entries>>
  BY SameLike
<1>2. KeysInv(ent, shift, low)'
  BY <1>1, KeysStay DEF ImplicitWell
<1>3. ASSUME NEW d \in Consumers, d # c PROVE cons'[d] = cons[d]
  BY <1>3 DEF Only
<1>4. BlocksLike
  BY <1>1, <1>3 DEF BlocksLike, ListLike, Clears, Releases, Num
<1>5. EntriesRight(ent, blk, shift)'
  BY <1>1, <1>4, BlocksNames, EntriesStay DEF ImplicitWell
<1>6. BlocksRight(blk)' /\ CountsRight(blk)' /\ BlocksTyped'
  BY <1>4, BlocksStay DEF ImplicitWell
<1>7. EmptiedByOne'
  <2>1. ASSUME NEW d \in Consumers, cons'[d].pc \in {"clear", "release"}
        PROVE  cons'[d] = cons[d] /\ cons'[d].pos \in Nat /\ Done(Num(cons[d].pos))'
    <3>1. d # c /\ cons'[d] = cons[d]
      BY <1>3, <2>1
    <3>2. cons[d].pos \in Nat /\ Done(Num(cons[d].pos))
      BY <2>1, <3>1 DEF ImplicitWell, EmptiedByOne
    <3>3. PICK n \in Nat : n = Num(cons[d].pos)
      BY <3>2, NumNat
    <3>4. Done(n)'
      BY <1>4, <3>2, <3>3, BlocksNames
    <3> QED
      BY <3>1, <3>2, <3>3, <3>4 DEF Num, Done, Start
  <2>2. ASSUME NEW d \in Consumers, NEW x \in Consumers,
               cons'[d].pc \in {"clear", "release"}, cons'[x].pc \in {"clear", "release"},
               Num(cons'[d].pos) = Num(cons'[x].pos)
        PROVE  d = x
    BY <2>1, <2>2 DEF ImplicitWell, EmptiedByOne
  <2> QED
    BY <2>1, <2>2 DEF EmptiedByOne, Num
<1>8. AllSeek(ent, blk, shift)'
  <2>1. ListTyped /\ shift \in [Nat -> Int]
    BY DEF ImplicitWell, KeysInv, KeysCongruent
  <2>2. ListGrows(shift, shift)
    BY <1>1, <2>1, LikeGrows
  <2>3. ASSUME NEW d \in Consumers, d # c PROVE Seeks(ent, blk, shift, d)'
    BY <1>3, <2>1, <2>2, <2>3, SeeksOn DEF ImplicitWell, AllSeek
  <2> QED
    BY <2>3 DEF AllSeek
<1> QED
  BY <1>2, <1>5, <1>6, <1>7, <1>8 DEF ImplicitWell

LEMMA SeeksInStays ==
  ASSUME NEW ent, NEW shift, NEW c \in Consumers, SeeksIn(ent, shift, c),
         UNCHANGED <<headers, entries>>, cons'[c].ver = cons[c].ver,
         \A i \in Nat : Keeps(c, i)' => Keeps(c, i)
  PROVE  SeeksIn(ent, shift, c)'
<1> DEFINE v == cons[c].ver
<1>1. v \in Nat /\ 1 <= v /\ v <= Newest' /\ Keyed(PointsTo(v, TailOf(v)))'
  BY ListNames DEF SeeksIn, Keyed, KeyOf, PointsTo, TailOf
<1>2. ASSUME NEW i \in Nat, Keeps(c, i)' PROVE EntryOf(shift, v, Num(i))' = ent[Num(i)]
  BY <1>2 DEF SeeksIn, EntryOf, PointsTo, Places, Num
<1> QED
  BY <1>1, <1>2 DEF SeeksIn, EntryOf, Num

(* A consumer that keeps what it has, before it comes to the end of a      *)
(* block.                                                                  *)
LEMMA ListKeeping ==
  ASSUME CountInv, RangeInv, NEW ent, NEW blk, NEW shift, NEW low,
         ImplicitWell(ent, blk, shift, low), ListSame, NEW c \in Consumers,
         Aside(c) \/ Keeping(c),
         cons[c].pc \notin {"clear", "release"}, cons'[c].pc \notin {"clear", "release"},
         Seeks(ent, blk, shift, c)'
  PROVE  ImplicitWell(ent, blk, shift, low)'
<1>1. KeepsSame /\ Only(c)
  BY RangesAside DEF Aside, Keeping
<1>2. \A i \in Int : Gone(i)' <=> Gone(i)
  BY <1>1 DEF KeepsSame
<1>3. \A d \in Consumers \ {c}, i \in Int : Keeps(d, i)' <=> Keeps(d, i)
  BY <1>1 DEF KeepsSame
<1> QED
  BY <1>1, <1>2, <1>3, ListCalm DEF ListSame

LEMMA ListByClaim ==
  ASSUME CountInv, RangeInv, NEW ent, NEW blk, NEW shift, NEW low,
         ImplicitWell(ent, blk, shift, low), NEW c \in Consumers,
         I!Claim(c), UNCHANGED I!listVars
  PROVE  ImplicitWell(ent, blk, shift, low)'
<1>1. (Aside(c) \/ TakesNew(c)) /\ UNCHANGED <<tailIndex, ppc, tailBlock>>
  BY ImplicitClaim, ClaimTakes
<1>2. Seeks(ent, blk, shift, c)'
  BY <1>1 DEF Aside, TakesNew, Seeks, Seeking, Taking
<1>3. CASE Aside(c)
  <2>1. ListSame
    BY <1>1, <1>3 DEF ListSame, Aside, I!listVars
  <2>2. cons[c].pc \notin {"clear", "release"} /\ cons'[c].pc \notin {"clear", "release"}
    BY <1>3 DEF Aside, Taking
  <2> QED
    BY <1>2, <1>3, <2>1, <2>2, ListKeeping
<1>4. CASE TakesNew(c)
  <2>1. KeepsMore(c) /\ Only(c)
    BY <1>4, RangesNew DEF TakesNew
  <2>2. \A i \in Int : Gone(i)' <=> Gone(i)
    BY <2>1 DEF KeepsMore
  <2>3. \A d \in Consumers \ {c}, i \in Int : Keeps(d, i)' <=> Keeps(d, i)
    BY <2>1 DEF KeepsMore
  <2>4. UNCHANGED <<headers, entries, tailIndex, ppc, tailBlock, free, dequeued>>
    BY <1>1 DEF I!listVars
  <2>5. cons[c].pc \notin {"clear", "release"} /\ cons'[c].pc \notin {"clear", "release"}
    BY <1>4 DEF TakesNew, Taking
  <2> QED
    BY <1>2, <2>1, <2>2, <2>3, <2>4, <2>5, ListCalm
<1> QED
  BY <1>1, <1>3, <1>4

(* The newest index leads to each entry of which items are taken.          *)
LEMMA NewestSeeks ==
  ASSUME CountInv, RangeInv, NEW ent, NEW blk, NEW shift, NEW low,
         KeysInv(ent, shift, low), EntriesRight(ent, blk, shift),
         NEW c \in Consumers, Takes(c)
  PROVE  /\ Keyed(PointsTo(Newest, TailOf(Newest)))
         /\ \A i \in Nat : Keeps(c, i) => EntryOf(shift, Newest, Num(i)) = ent[Num(i)]
<1>1. ListStaged /\ Begun \in Nat
  BY BegunTyped DEF KeysInv, ListTyped
<1>2. Num(cons[c].pos) \in Nat /\ Num(cons[c].pos) < Begun
  BY <1>1, PosBegun
<1>3. Reached > 0
  BY <1>1, <1>2 DEF Reached
<1>4. ASSUME NEW i \in Nat, Keeps(c, i) PROVE EntryOf(shift, Newest, Num(i)) = ent[Num(i)]
  BY <1>1, <1>4, KeptEntered DEF EntriesRight
<1> QED
  BY <1>3, <1>4 DEF KeysInv, KeysCongruent

LEMMA ListByLoadHeader ==
  ASSUME CountInv, RangeInv, NEW ent, NEW blk, NEW shift, NEW low,
         ImplicitWell(ent, blk, shift, low), NEW c \in Consumers, I!LoadHeader(c)
  PROVE  ImplicitWell(ent, blk, shift, low)'
<1>1. /\ Keeping(c) /\ ListSame
      /\ cons[c].pc = "index" /\ cons'[c].pc = "front" /\ cons'[c].ver = Newest
  BY LoadHeaderDoes DEF Newest
<1>2. HeldSame(c) /\ \A i \in Nat : Keeps(c, i)' => Keeps(c, i)
  BY <1>1, KeepingKeeps
<1>3. /\ Keyed(PointsTo(Newest, TailOf(Newest)))
      /\ \A i \in Nat : Keeps(c, i) => EntryOf(shift, Newest, Num(i)) = ent[Num(i)]
  BY <1>1, NewestSeeks DEF ImplicitWell, Takes, Taking
<1>4. Newest \in Nat /\ 1 <= Newest
  BY NewestIs DEF ImplicitWell, KeysInv
<1>5. PICK v \in Nat : v = Newest
  BY <1>4
<1>6. SeeksIn(ent, shift, c)'
  <2>1. v <= Newest' /\ 1 <= v /\ Keyed(PointsTo(v, TailOf(v)))'
    BY <1>1, <1>3, <1>4, <1>5 DEF ListSame, Newest, Keyed, KeyOf, PointsTo, TailOf
  <2>2. ASSUME NEW i \in Nat, Keeps(c, i)' PROVE EntryOf(shift, v, Num(i))' = ent[Num(i)]
    BY <1>1, <1>2, <1>3, <1>5, <2>2 DEF ListSame, EntryOf, PointsTo, Places, Num
  <2> QED
    BY <1>1, <1>5, <2>1, <2>2 DEF SeeksIn, EntryOf, Num
<1>7. cons'[c].pos = cons'[c].first
  BY <1>1, <1>2 DEF ImplicitWell, AllSeek, Seeks, HeldSame
<1>8. Seeks(ent, blk, shift, c)'
  BY <1>1, <1>6, <1>7 DEF Seeks
<1> QED
  BY <1>1, <1>8, ListKeeping

LEMMA ListByLoadHeaderTail ==
  ASSUME CountInv, RangeInv, NEW ent, NEW blk, NEW shift, NEW low,
         ImplicitWell(ent, blk, shift, low), NEW c \in Consumers, I!LoadHeaderTail(c)
  PROVE  ImplicitWell(ent, blk, shift, low)'
<1>1. /\ Keeping(c) /\ ListSame
      /\ cons[c].pc = "front" /\ cons'[c].pc = "base" /\ cons'[c].ver = cons[c].ver
      /\ cons'[c].front = TailOf(cons[c].ver)
  BY LoadHeaderTailDoes DEF TailOf
<1>2. HeldSame(c) /\ \A i \in Nat : Keeps(c, i)' => Keeps(c, i)
  BY <1>1, KeepingKeeps
<1>3. Seeks(ent, blk, shift, c) /\ ListTyped
  BY DEF ImplicitWell, AllSeek, KeysInv
<1>4. SeeksIn(ent, shift, c) /\ UNCHANGED <<headers, entries>>
  BY <1>1, <1>3 DEF Seeks, Seeking, Taking, ListSame
<1>5. SeeksIn(ent, shift, c)'
  BY <1>1, <1>2, <1>4, SeeksInStays
<1>6. PICK v \in Nat : v = cons[c].ver /\ 1 <= v /\ v <= Newest /\ Keyed(PointsTo(v, TailOf(v)))
  BY <1>4 DEF SeeksIn
<1>7. TailOf(v) \in Nat /\ TailOf(v) < Places(v)'
  BY <1>3, <1>4, <1>6, ListIs, ListNames
<1>8. Keyed(PointsTo(v, TailOf(v)))'
  BY <1>4, <1>6 DEF Keyed, KeyOf, PointsTo, TailOf
<1>9. cons'[c].front = TailOf(v)'
  BY <1>1, <1>4, <1>6, ListNames
<1>10. cons'[c].pos = cons'[c].first
  BY <1>1, <1>2, <1>3 DEF Seeks, HeldSame
<1>11. Seeks(ent, blk, shift, c)'
  <2>1. (/\ cons[c].front \in Nat /\ cons[c].front < Places(cons[c].ver)
         /\ Keyed(PointsTo(cons[c].ver, cons[c].front)))'
    BY <1>1, <1>4, <1>6, <1>7, <1>8, <1>9, ListNames DEF TailOf
  <2> QED
    BY <1>1, <1>5, <1>10, <2>1 DEF Seeks
<1> QED
  BY <1>1, <1>11, ListKeeping

LEMMA ListByLoadKey ==
  ASSUME CountInv, RangeInv, NEW ent, NEW blk, NEW shift, NEW low,
         ImplicitWell(ent, blk, shift, low), NEW c \in Consumers, I!LoadKey(c)
  PROVE  ImplicitWell(ent, blk, shift, low)'
<1>1. /\ Keeping(c) /\ ListSame
      /\ cons[c].pc = "base" /\ cons'[c].pc = "block" /\ cons'[c].ver = cons[c].ver
      /\ cons'[c].slot = (cons[c].front + ((BaseOf(cons[c].first) - I!TailKey(c)) \div BlockSize))
                           % Places(cons[c].ver)
  BY LoadKeyDoes, HeaderEntry
<1>2. HeldSame(c) /\ \A i \in Nat : Keeps(c, i)' => Keeps(c, i)
  BY <1>1, KeepingKeeps
<1>3. Seeks(ent, blk, shift, c) /\ ListTyped /\ KeysCongruent(shift)
  BY DEF ImplicitWell, AllSeek, KeysInv
<1>4. SeeksIn(ent, shift, c) /\ UNCHANGED <<headers, entries>>
  BY <1>1, <1>3 DEF Seeks, Seeking, Taking, ListSame
<1>5. SeeksIn(ent, shift, c)'
  BY <1>1, <1>2, <1>4, SeeksInStays
<1>6. PICK v \in Nat, f \in Nat :
        /\ v = cons[c].ver /\ 1 <= v /\ v <= Newest
        /\ f = cons[c].front /\ f < Places(v) /\ Keyed(PointsTo(v, f))
  BY <1>1, <1>3, <1>4 DEF Seeks, SeeksIn
<1>7. PICK z \in Nat \ {0}, s \in Int : z = Places(v) /\ s = shift[v]
  BY <1>3, <1>6, ListIs DEF KeysCongruent
<1>8. I!TailKey(c) = KeyOf(PointsTo(v, f))
  <2>1. f % z = f
    BY <1>6, <1>7, ModSmall
  <2>2. I!TailKey(c) = KeyOf(I!Entry(headers[v], f))
    BY <1>6 DEF I!TailKey, KeyOf
  <2> QED
    BY <1>7, <2>1, <2>2, HeaderEntry
<1>9. PICK b \in Nat : b = I!TailKey(c)
  BY <1>3, <1>6, <1>8, ListIs, EntryIs
<1>10. Off(b) = 0 /\ (f - Num(b)) % z = s % z
  BY <1>3, <1>6, <1>7, <1>8, <1>9 DEF KeysCongruent
<1>11. cons[c].pos = cons[c].first /\ cons[c].first \in Nat /\ cons'[c].pos = cons[c].first
  BY <1>1, <1>2, <1>3, TakesPos DEF Seeks, Takes, Taking, HeldSame
<1>12. (BaseOf(cons[c].first) - b) \div BlockSize = Num(cons[c].first) - Num(b)
  <2>1. /\ BaseOf(cons[c].first) \in Int /\ Off(BaseOf(cons[c].first)) = 0
        /\ Num(BaseOf(cons[c].first)) = Num(cons[c].first)
    BY <1>11, BaseIs
  <2> QED
    BY <1>10, <2>1, DivOfBases
<1>13. PICK n \in Int, m \in Int, g \in Int : n = Num(cons[c].first) /\ m = Num(b) /\ g = f
  BY <1>11, NumNat
<1>14. (g + (n - m)) % z = (s + n) % z
  <2>1. (g - m) % z = s % z
    BY <1>10, <1>13
  <2>2. g - m \in Int
    OBVIOUS
  <2>3. Shifts(g - m, s, n, z)
    BY <2>2, ModShifts
  <2>4. ((g - m) + n) % z = (s + n) % z
    BY <2>1, <2>3 DEF Shifts
  <2>5. g + (n - m) = (g - m) + n
    OBVIOUS
  <2> QED
    BY <2>4, <2>5
<1>15. cons'[c].slot = (s + n) % z
  BY <1>1, <1>6, <1>7, <1>9, <1>12, <1>13, <1>14
<1>16. Places(v)' = z
  BY <1>4, <1>7, ListNames
<1>17. (cons[c].slot = (shift[cons[c].ver] + Num(cons[c].pos)) % Places(cons[c].ver))'
  BY <1>1, <1>6, <1>7, <1>11, <1>13, <1>15, <1>16 DEF Places, Num
<1>18. Seeks(ent, blk, shift, c)'
  BY <1>1, <1>5, <1>17 DEF Seeks
<1> QED
  BY <1>1, <1>18, ListKeeping

(* The entry at a consumer's place in the index that it loaded.            *)
LEMMA PlaceAt ==
  ASSUME ListTyped, NEW shift, shift \in [Nat -> Int], NEW c \in Consumers,
         cons[c].ver \in Nat, 1 <= cons[c].ver, cons[c].ver <= Newest, cons[c].pos \in Nat,
         cons[c].slot = (shift[cons[c].ver] + Num(cons[c].pos)) % Places(cons[c].ver)
  PROVE  I!Place(c) = EntryOf(shift, cons[c].ver, Num(cons[c].pos))
<1>1. PICK v \in Nat, n \in Int : v = cons[c].ver /\ n = Num(cons[c].pos)
  BY NumNat
<1>2. PICK z \in Nat \ {0}, s \in Int : z = Places(v) /\ s = shift[v]
  BY <1>1, ListIs
<1>3. PICK a \in Int : a = s + n
  BY <1>1, <1>2
<1>4. (a % z) % z = a % z
  BY ModMod
<1>5. cons[c].slot % z = a % z /\ I!Place(c) = I!Entry(headers[v], cons[c].slot)
  BY <1>1, <1>2, <1>4, <1>3 DEF I!Place
<1>6. I!Place(c) = PointsTo(v, a % z)
  BY <1>2, <1>5, HeaderEntry
<1> QED
  BY <1>1, <1>2, <1>6, <1>3 DEF EntryOf

LEMMA SlotStays ==
  ASSUME NEW shift, NEW c \in Consumers, UNCHANGED <<headers, entries>>, HeldSame(c),
         cons'[c].ver = cons[c].ver, cons'[c].slot = cons[c].slot,
         cons[c].slot = (shift[cons[c].ver] + Num(cons[c].pos)) % Places(cons[c].ver)
  PROVE  (cons[c].slot = (shift[cons[c].ver] + Num(cons[c].pos)) % Places(cons[c].ver))'
BY DEF HeldSame, Places, Num

LEMMA ListByLoadValue ==
  ASSUME CountInv, RangeInv, NEW ent, NEW blk, NEW shift, NEW low,
         ImplicitWell(ent, blk, shift, low), NEW c \in Consumers, I!LoadValue(c)
  PROVE  ImplicitWell(ent, blk, shift, low)'
<1>1. /\ Keeping(c) /\ ListSame
      /\ cons[c].pc = "block" /\ cons'[c].pc = "read" /\ cons'[c].ver = cons[c].ver
      /\ cons'[c].slot = cons[c].slot
      /\ cons'[c].block = ValueOf(I!Place(c))
  BY LoadValueDoes DEF ValueOf
<1>2. HeldSame(c) /\ \A i \in Nat : Keeps(c, i)' => Keeps(c, i)
  BY <1>1, KeepingKeeps
<1>3. Seeks(ent, blk, shift, c) /\ ListTyped /\ shift \in [Nat -> Int]
  BY DEF ImplicitWell, AllSeek, KeysInv, KeysCongruent
<1>4. SeeksIn(ent, shift, c) /\ UNCHANGED <<headers, entries>>
  BY <1>1, <1>3 DEF Seeks, Seeking, Taking, ListSame
<1>5. SeeksIn(ent, shift, c)'
  BY <1>1, <1>2, <1>4, SeeksInStays
<1>6. /\ Keeps(c, cons[c].pos) /\ cons[c].pos \in Nat
      /\ cons[c].slot = (shift[cons[c].ver] + Num(cons[c].pos)) % Places(cons[c].ver)
  BY <1>1, <1>3, TakesPos DEF Takes, Taking, Seeks
<1>7. I!Place(c) = ent[Num(cons[c].pos)]
  BY <1>3, <1>4, <1>6, PlaceAt DEF SeeksIn
<1>8. Entered(Num(cons[c].pos)) /\ Num(cons[c].pos) \in Nat
  BY <1>3, <1>6, KeptEntered DEF ListTyped
<1>9. cons'[c].block = blk[Num(cons[c].pos)]
  BY <1>1, <1>7, <1>8 DEF ImplicitWell, EntriesRight
<1>10. (cons[c].slot = (shift[cons[c].ver] + Num(cons[c].pos)) % Places(cons[c].ver))'
  BY <1>1, <1>2, <1>4, <1>6, SlotStays
<1>11. Seeks(ent, blk, shift, c)'
  BY <1>1, <1>2, <1>5, <1>9, <1>10 DEF Seeks, HeldSame, Num
<1> QED
  BY <1>1, <1>11, ListKeeping

LEMMA ListByReadItems ==
  ASSUME CountInv, RangeInv, NEW ent, NEW blk, NEW shift, NEW low,
         ImplicitWell(ent, blk, shift, low), NEW c \in Consumers,
         I!ReadItems(c), UNCHANGED I!listVars
  PROVE  ImplicitWell(ent, blk, shift, low)'
<1>1. /\ Keeping(c) /\ ListSame
      /\ cons[c].pc = "read" /\ cons'[c].pc = "empty" /\ cons'[c].ver = cons[c].ver
      /\ cons'[c].slot = cons[c].slot /\ cons'[c].block = cons[c].block
  BY ReadListDoes
<1>2. HeldSame(c) /\ \A i \in Nat : Keeps(c, i)' => Keeps(c, i)
  BY <1>1, KeepingKeeps
<1>3. Seeks(ent, blk, shift, c)
  BY DEF ImplicitWell, AllSeek
<1>4. SeeksIn(ent, shift, c) /\ UNCHANGED <<headers, entries>>
  BY <1>1, <1>3 DEF Seeks, Seeking, Taking, ListSame
<1>5. SeeksIn(ent, shift, c)'
  BY <1>1, <1>2, <1>4, SeeksInStays
<1>6. (cons[c].slot = (shift[cons[c].ver] + Num(cons[c].pos)) % Places(cons[c].ver))'
  BY <1>1, <1>2, <1>3, <1>4, SlotStays DEF Seeks
<1>7. cons'[c].block = blk[Num(cons[c].pos)]
  BY <1>1, <1>3 DEF Seeks
<1>8. Seeks(ent, blk, shift, c)'
  BY <1>1, <1>2, <1>5, <1>6, <1>7 DEF Seeks, HeldSame, Num
<1> QED
  BY <1>1, <1>8, ListKeeping

(* A consumer goes on to the next block, or has all it took.               *)
LEMMA SeeksNext ==
  ASSUME CountInv, RangeInv, ListTyped, NEW ent, NEW blk, NEW shift, shift \in [Nat -> Int],
         NEW c \in Consumers, Seeks(ent, blk, shift, c), UNCHANGED <<headers, entries>>,
         GoesOn(c), cons[c].pc \in {"empty", "release"},
         \A i \in Int : Keeps(c, i)' => Keeps(c, i),
         cons'[c].pc = "block" =>
           /\ cons'[c].ver = cons[c].ver
           /\ cons'[c].slot = (cons[c].slot + 1) % I!Size(headers[cons[c].ver])
  PROVE  Seeks(ent, blk, shift, c)'
<1>1. Takes(c) /\ RangeTyped(c) /\ cons[c].pos \in Nat
  BY TakesPos DEF Takes, Taking
<1>2. ASSUME cons'[c].pc = "block" PROVE Seeks(ent, blk, shift, c)'
  <2>1. Until(c) # End(c) /\ cons'[c].pos = Until(c) /\ Num(Until(c)) = Num(cons[c].pos) + 1
    BY <1>1, <1>2, UntilNum DEF GoesOn
  <2>2. SeeksIn(ent, shift, c)
    BY DEF Seeks, Seeking, Taking
  <2>3. SeeksIn(ent, shift, c)'
    BY <1>2, <2>2, SeeksInStays
  <2>4. /\ cons[c].slot = (shift[cons[c].ver] + Num(cons[c].pos)) % Places(cons[c].ver)
        /\ cons[c].ver \in Nat /\ 1 <= cons[c].ver /\ cons[c].ver <= Newest
    BY <2>2 DEF Seeks, SeeksIn
  <2>5. PICK v \in Nat : v = cons[c].ver /\ 1 <= v /\ v <= Newest
    BY <2>4
  <2>6. PICK s \in Int, n \in Nat, z \in Nat \ {0} :
          s = shift[v] /\ n = Num(cons[c].pos) /\ z = Places(v)
    BY <1>1, <2>5, ListIs, NumNat
  <2>7. (((s + n) % z) + 1) % z = (s + (n + 1)) % z
    <3>1. (((s + n) % z) + 1) % z = ((s + n) + 1) % z
      <4>1. s + n \in Int
        OBVIOUS
      <4> QED
        BY <4>1, NextPlace
    <3>2. (s + n) + 1 = s + (n + 1)
      OBVIOUS
    <3> QED
      BY <3>1, <3>2
  <2>8. cons'[c].slot = (s + (n + 1)) % z /\ cons'[c].ver = v
    BY <1>2, <2>4, <2>5, <2>6, <2>7, HeaderEntry
  <2>9. Num(cons'[c].pos) = n + 1 /\ Places(v)' = z
    BY <2>1, <2>5, <2>6, ListNames
  <2>10. (cons[c].slot = (shift[cons[c].ver] + Num(cons[c].pos)) % Places(cons[c].ver))'
    BY <2>6, <2>8, <2>9 DEF Num, Places
  <2> QED
    BY <1>2, <2>3, <2>10 DEF Seeks
<1>3. cons'[c].pc = "block" \/ cons'[c].pc = "idle"
  BY DEF GoesOn
<1> QED
  BY <1>2, <1>3 DEF Seeks, Seeking, Taking

(* The items of a block that are gone, as a number.                        *)
LEMMA OffsetCount ==
  ASSUME NEW S \in SUBSET Offsets
  PROVE  /\ IsFiniteSet(S) /\ Cardinality(S) \in Nat /\ Cardinality(S) <= BlockSize
         /\ Cardinality(S) = BlockSize <=> S = Offsets
<1>1. PICK b \in Nat \ {0} : b = BlockSize
  BY SizeIs
<1>2. PICK t \in Int : t = b - 1
  OBVIOUS
<1>3. Offsets = 0..t
  BY <1>1, <1>2 DEF Offsets
<1>4. IsFiniteSet(0..t) /\ Cardinality(0..t) = b
  <2>1. IsFiniteSet(0..t) /\ Cardinality(0..t) = IF 0 > t THEN 0 ELSE t - 0 + 1
    BY FS_Interval
  <2> QED
    BY <1>2, <2>1
<1>5. /\ IsFiniteSet(S) /\ Cardinality(S) <= Cardinality(0..t)
      /\ Cardinality(0..t) = Cardinality(S) => 0..t = S
  BY <1>3, <1>4, FS_Subset
<1>6. Cardinality(S) \in Nat
  BY <1>5, FS_CardinalityType
<1> QED
  BY <1>1, <1>3, <1>4, <1>5, <1>6

LEMMA DoneCount ==
  ASSUME NEW n \in Nat
  PROVE  /\ GoneIn(n) \in SUBSET Offsets /\ Cardinality(GoneIn(n)) \in Nat
         /\ Cardinality(GoneIn(n)) <= BlockSize
         /\ Done(n) <=> Cardinality(GoneIn(n)) = BlockSize
<1>1. GoneIn(n) \in SUBSET Offsets /\ (Done(n) <=> GoneIn(n) = Offsets)
  BY DEF GoneIn, Done
<1> QED
  BY <1>1, OffsetCount

(* A consumer's items are in one block.                                    *)
LEMMA MarksIn ==
  ASSUME RangeInv, NEW c \in Consumers, Takes(c), NEW i \in Int, Marks(c, i)
  PROVE  Num(i) = Num(cons[c].pos)
<1>1. RangeTyped(c)
  BY TakesPos
<1> QED
  BY <1>1, UntilNum DEF Marks

LEMMA OtherCount ==
  ASSUME RangeInv, NEW c \in Consumers, Takes(c), KeepsLess(c),
         NEW n \in Nat, n # Num(cons[c].pos)
  PROVE  GoneIn(n)' = GoneIn(n) /\ (Done(n)' <=> Done(n))
<1>1. ASSUME NEW o \in Offsets PROVE Gone(Start(n) + o)' <=> Gone(Start(n) + o)
  <2>1. PICK i \in Int : i = Start(n) + o /\ Num(i) = n
    BY <1>1, ItemOf
  <2>2. ~ Marks(c, i)
    BY <2>1, MarksIn
  <2>3. Gone(i)' <=> Gone(i)
    BY <2>2 DEF KeepsLess
  <2> QED
    BY <2>1, <2>3 DEF Gone, Start
<1>2. Offsets' = Offsets
  BY DEF Offsets
<1> QED
  BY <1>1, <1>2 DEF Done, GoneIn

LEMMA MarkedCount ==
  ASSUME RangeInv, NEW c \in Consumers, Takes(c), KeepsLess(c),
         NEW n \in Nat, n = Num(cons[c].pos)
  PROVE  /\ Cardinality(GoneIn(n)') = Cardinality(GoneIn(n)) + (Until(c) - cons[c].pos)
         /\ Cardinality(GoneIn(n)') \in Nat
         /\ Done(n)' <=> Cardinality(GoneIn(n)') = BlockSize
         /\ Until(c) - cons[c].pos \in Nat \ {0}
<1>1. PICK p \in Nat, u \in Nat, s \in Nat, b \in Nat \ {0} :
        p = cons[c].pos /\ u = Until(c) /\ s = Start(n) /\ b = BlockSize
  BY TakesPos, UntilIs, StartIs, SizeIs
<1>2. s <= p /\ p < u /\ u <= s + b
  <2>1. RangeTyped(c) /\ p \in Int /\ BaseOf(p) = Start(Num(p)) /\ BaseOf(p) <= p
    BY <1>1, TakesPos, BaseIs
  <2>2. BaseOf(p) = s
    BY <1>1, <2>1
  <2> QED
    BY <1>1, <2>1, <2>2, UntilIs
<1>3. PICK x \in Int, y \in Int : x = p - s /\ y = u - s - 1
  OBVIOUS
<1>4. 0 <= x /\ x <= y /\ y <= b - 1
  BY <1>2, <1>3
<1>5. x..y \in SUBSET Offsets
  BY <1>1, <1>4 DEF Offsets
<1>6. ASSUME NEW o \in Offsets
      PROVE  /\ Gone(s + o)' <=> Gone(s + o) \/ o \in x..y
             /\ Gone(s + o) => o \notin x..y
  <2>1. o \in Int /\ s + o \in Int
    BY <1>1, <1>6 DEF Offsets
  <2>2. PICK i \in Int : i = s + o
    BY <2>1
  <2>3. Marks(c, i) <=> o \in x..y
    BY <1>1, <1>3, <2>1, <2>2 DEF Marks
  <2>4. (Gone(i)' <=> Gone(i) \/ Marks(c, i)) /\ (Marks(c, i) => ~ Gone(i))
    BY DEF KeepsLess
  <2> QED
    BY <2>2, <2>3, <2>4
<1>7. GoneIn(n) = {o \in Offsets : Gone(s + o)} /\ GoneIn(n)' = {o \in Offsets : Gone(s + o)'}
  BY <1>1 DEF GoneIn, Offsets, Start
<1>8. GoneIn(n)' = GoneIn(n) \cup x..y /\ GoneIn(n) \cap x..y = {}
  BY <1>5, <1>6, <1>7
<1>9. IsFiniteSet(x..y) /\ Cardinality(x..y) = u - p
  <2>1. IsFiniteSet(x..y) /\ Cardinality(x..y) = IF x > y THEN 0 ELSE y - x + 1
    BY FS_Interval
  <2> QED
    BY <1>3, <1>4, <2>1
<1>10. IsFiniteSet(GoneIn(n)) /\ Cardinality(GoneIn(n)) \in Nat
  BY DoneCount, OffsetCount
<1>11. Cardinality(GoneIn(n) \cup x..y) = Cardinality(GoneIn(n)) + Cardinality(x..y)
  <2>1. Cardinality(GoneIn(n) \cup x..y)
          = Cardinality(GoneIn(n)) + Cardinality(x..y) - Cardinality(GoneIn(n) \cap x..y)
    BY <1>9, <1>10, FS_Union
  <2>2. Cardinality({}) = 0
    BY FS_EmptySet
  <2>3. PICK k \in Nat, g \in Nat : k = Cardinality(x..y) /\ g = Cardinality(GoneIn(n))
    BY <1>2, <1>9, <1>10
  <2>4. Cardinality(GoneIn(n) \cap x..y) = 0
    BY <1>8, <2>2
  <2> QED
    BY <2>1, <2>3, <2>4
<1>12. PICK G \in SUBSET Offsets : G = GoneIn(n)'
  BY <1>7
<1>13. Done(n)' <=> G = Offsets
  BY <1>1, <1>7, <1>12 DEF Done, Start, Offsets
<1>14. Cardinality(G) \in Nat /\ (Cardinality(G) = BlockSize <=> G = Offsets)
  BY OffsetCount
<1>15. u - p \in Nat \ {0}
  BY <1>2
<1> QED
  BY <1>1, <1>8, <1>9, <1>11, <1>12, <1>13, <1>14, <1>15

(* set_many_empty counts the items of a consumer; the last one stays with  *)
(* the block.                                                              *)
Counts(c, n) ==
  /\ Only(c) /\ KeepsLess(c) /\ cons[c].pc = "empty" /\ n = Num(cons[c].pos)
  /\ UNCHANGED <<tailIndex, headIndex, tailBlock, ppc, headers, entries, free>>
  /\ \/ /\ Done(n)' /\ Marking(c) /\ cons'[c].ver = cons[c].ver
        /\ cons'[c].slot = cons[c].slot /\ cons'[c].block = cons[c].block
     \/ /\ ~ Done(n)' /\ GoesOn(c)
        /\ cons'[c].pc = "block" =>
             /\ cons'[c].ver = cons[c].ver
             /\ cons'[c].slot = (cons[c].slot + 1) % I!Size(headers[cons[c].ver])

LEMMA CountDequeuedCounts ==
  ASSUME CountInv, RangeInv, NEW ent, NEW blk, NEW shift, NEW low,
         ImplicitWell(ent, blk, shift, low), NEW c \in Consumers, I!CountDequeued(c)
  PROVE  \E n \in Nat :
           /\ Counts(c, n) /\ Keeps(c, cons[c].pos) /\ Entered(n) /\ HasBlock(n) /\ ~ Done(n)
           /\ cons[c].block = blk[n] /\ blk[n] \in Blocks \ free
           /\ dequeued' \in [Blocks -> Nat]
           /\ dequeued'[blk[n]] = Cardinality(GoneIn(n)')
           /\ \A b \in Blocks : b # blk[n] => dequeued'[b] = dequeued[b]
<1>1. /\ cons[c].pc = "empty"
      /\ UNCHANGED <<tailIndex, headIndex, tailBlock, ppc, headers, entries, free>>
      /\ dequeued' = [dequeued EXCEPT ![cons[c].block] = @ + (Until(c) - cons[c].pos)]
      /\ \/ /\ dequeued[cons[c].block] + (Until(c) - cons[c].pos) = BlockSize
            /\ Marking(c) /\ cons'[c].ver = cons[c].ver
            /\ cons'[c].slot = cons[c].slot /\ cons'[c].block = cons[c].block
         \/ /\ dequeued[cons[c].block] + (Until(c) - cons[c].pos) # BlockSize
            /\ GoesOn(c)
            /\ cons'[c].pc = "block" =>
                 /\ cons'[c].ver = cons[c].ver
                 /\ cons'[c].slot = (cons[c].slot + 1) % I!Size(headers[cons[c].ver])
  BY CountDequeuedDoes
<1>2. Takes(c) /\ Keeps(c, cons[c].pos) /\ cons[c].pos \in Nat
  BY <1>1, TakesPos DEF Takes, Taking
<1>3. PICK n \in Nat : n = Num(cons[c].pos)
  BY <1>2, NumNat
<1>4. Entered(n) /\ HasBlock(n) /\ ~ Done(n)
  BY <1>2, <1>3, KeptEntered DEF ImplicitWell, KeysInv, ListTyped
<1>5. cons[c].block = blk[n] /\ blk[n] \in Blocks \ free
  BY <1>1, <1>3, <1>4 DEF ImplicitWell, AllSeek, Seeks, BlocksRight
<1>6. Only(c) /\ KeepsLess(c)
  BY <1>1, RangesMark DEF Marking, GoesOn
<1>7. /\ Cardinality(GoneIn(n)') = Cardinality(GoneIn(n)) + (Until(c) - cons[c].pos)
      /\ Cardinality(GoneIn(n)') \in Nat
      /\ Done(n)' <=> Cardinality(GoneIn(n)') = BlockSize
  BY <1>2, <1>3, <1>6, MarkedCount
<1>8. dequeued[blk[n]] = Cardinality(GoneIn(n)) /\ dequeued \in [Blocks -> Nat]
  BY <1>4 DEF ImplicitWell, CountsRight, BlocksTyped
<1>9. PICK g \in Nat : g = Cardinality(GoneIn(n)')
  BY <1>7
<1>10. dequeued[cons[c].block] + (Until(c) - cons[c].pos) = g
  BY <1>5, <1>7, <1>8, <1>9
<1>11. dequeued' = [dequeued EXCEPT ![blk[n]] = g]
  BY <1>1, <1>5, <1>10
<1>12. /\ dequeued' \in [Blocks -> Nat] /\ dequeued'[blk[n]] = g
       /\ \A b \in Blocks : b # blk[n] => dequeued'[b] = dequeued[b]
  BY <1>5, <1>8, <1>11
<1>13. Counts(c, n)
  BY <1>1, <1>3, <1>6, <1>7, <1>9, <1>10 DEF Counts
<1> QED
  BY <1>2, <1>4, <1>5, <1>9, <1>12, <1>13

LEMMA CountsKeep ==
  ASSUME RangeInv, NEW c \in Consumers, NEW n \in Nat, Counts(c, n), Entered(n)
  PROVE  /\ Entered(n)' /\ Begun' = Begun
         /\ \A m \in Nat : /\ Unentered(m)' <=> Unentered(m)
                           /\ Entered(m)' <=> Entered(m)
                           /\ HasBlock(m)' <=> HasBlock(m)
<1>1. ASSUME NEW d \in Consumers, d # c PROVE cons'[d] = cons[d]
  BY <1>1 DEF Counts, Only
<1>2. Begun' = Begun /\ ppc' = ppc
  BY DEF Counts, Begun
<1>3. \A d \in Consumers : \A m : d # c => (Clears(d, m)' <=> Clears(d, m))
  BY <1>1 DEF Clears, Num
<1>4. \A d \in Consumers : \A m : Releases(d, m)' <=> Releases(d, m)
  BY <1>1 DEF Releases, Counts, Marking, GoesOn, Num
<1>5. /\ \A m : ~ Clears(c, m)
      /\ \A m : m # n => ~ Clears(c, m)'
      /\ Done(n)' => Clears(c, n)'
  BY DEF Clears, Counts, Marking, GoesOn, HeldSame, Num
<1>6. \A m : Unentered(m)' <=> Unentered(m)
  BY <1>2 DEF Unentered
<1>7. Entered(n)'
  <2>1. n < Begun' /\ ~ Unentered(n)'
    BY <1>2, <1>6 DEF Entered
  <2> QED
    BY <1>5, <2>1 DEF Entered
<1>8. ASSUME NEW m \in Nat PROVE Entered(m)' <=> Entered(m)
  <2>1. CASE m = n
    BY <1>7, <2>1
  <2>2. CASE m # n
    <3>1. Done(m)' <=> Done(m)
      BY <2>2, OtherCount DEF Counts, Takes, Taking
    <3>2. (\E d \in Consumers : Clears(d, m))' <=> \E d \in Consumers : Clears(d, m)
      BY <1>3, <1>5, <2>2
    <3> QED
      BY <1>2, <1>6, <3>1, <3>2 DEF Entered
  <2> QED
    BY <2>1, <2>2
<1>9. \A m \in Nat : HasBlock(m)' <=> HasBlock(m)
  BY <1>4, <1>6, <1>8 DEF HasBlock
<1> QED
  BY <1>2, <1>6, <1>7, <1>8, <1>9

LEMMA CountsSeek ==
  ASSUME CountInv, RangeInv, NEW ent, NEW blk, NEW shift, NEW low,
         ImplicitWell(ent, blk, shift, low), NEW c \in Consumers, NEW n \in Nat, Counts(c, n),
         Keeps(c, cons[c].pos)
  PROVE  AllSeek(ent, blk, shift)'
<1>1. ListTyped /\ shift \in [Nat -> Int] /\ Seeks(ent, blk, shift, c)
  BY DEF ImplicitWell, KeysInv, KeysCongruent, AllSeek
<1>2. UNCHANGED <<headers, entries>> /\ Only(c) /\ cons[c].pc = "empty" /\ n = Num(cons[c].pos)
  BY DEF Counts
<1>3. \A d \in Consumers, i \in Int : Keeps(d, i)' => Keeps(d, i)
  BY DEF Counts, KeepsLess
<1>4. ListGrows(shift, shift)
  BY <1>1, <1>2, LikeGrows
<1>5. ASSUME NEW d \in Consumers, d # c PROVE Seeks(ent, blk, shift, d)'
  <2>1. cons'[d] = cons[d] /\ \A i \in Nat : Keeps(d, i)' => Keeps(d, i)
    BY <1>2, <1>3, <1>5 DEF Only
  <2>2. Seeks(ent, blk, shift, d)
    BY DEF ImplicitWell, AllSeek
  <2> QED
    BY <1>1, <1>4, <2>1, <2>2, SeeksOn
<1>6. CASE GoesOn(c) /\ (cons'[c].pc = "block" =>
             /\ cons'[c].ver = cons[c].ver
             /\ cons'[c].slot = (cons[c].slot + 1) % I!Size(headers[cons[c].ver]))
  <2>1. Seeks(ent, blk, shift, c)'
    BY <1>1, <1>2, <1>3, <1>6, SeeksNext
  <2> QED
    BY <1>5, <2>1 DEF AllSeek
<1>7. CASE /\ Marking(c) /\ cons'[c].ver = cons[c].ver
           /\ cons'[c].slot = cons[c].slot /\ cons'[c].block = cons[c].block
  <2>1. HeldSame(c) /\ cons'[c].pc = "clear"
    BY <1>7 DEF Marking
  <2>2. SeeksIn(ent, shift, c) /\ cons[c].pos \in Nat
    BY <1>1, <1>2, TakesPos DEF Seeks, Seeking, Takes, Taking
  <2>3. SeeksIn(ent, shift, c)'
    BY <1>2, <1>3, <1>7, <2>2, SeeksInStays
  <2>4. (cons[c].slot = (shift[cons[c].ver] + Num(cons[c].pos)) % Places(cons[c].ver))'
    BY <1>1, <1>2, <1>7, <2>1, SlotStays DEF Seeks
  <2>5. EntryOf(shift, cons[c].ver, n) = ent[n]
    BY <1>2, <2>2 DEF SeeksIn
  <2>6. (EntryOf(shift, cons[c].ver, Num(cons[c].pos)) = ent[Num(cons[c].pos)])'
    BY <1>2, <1>7, <2>1, <2>5 DEF HeldSame, EntryOf, PointsTo, Places, Num
  <2>7. (cons[c].block = blk[Num(cons[c].pos)])'
    BY <1>1, <1>2, <1>7, <2>1 DEF Seeks, HeldSame, Num
  <2>8. Seeks(ent, blk, shift, c)'
    BY <2>1, <2>3, <2>4, <2>6, <2>7 DEF Seeks
  <2> QED
    BY <1>5, <2>8 DEF AllSeek
<1> QED
  BY <1>6, <1>7 DEF Counts

LEMMA CountsEmpty ==
  ASSUME CountInv, RangeInv, EmptiedByOne, NEW c \in Consumers, NEW n \in Nat, Counts(c, n),
         ~ Done(n), cons[c].pos \in Nat
  PROVE  EmptiedByOne'
<1>1. ASSUME NEW d \in Consumers, d # c PROVE cons'[d] = cons[d]
  BY <1>1 DEF Counts, Only
<1>2. ASSUME NEW d \in Consumers, d # c, cons'[d].pc \in {"clear", "release"}
      PROVE  /\ cons'[d].pos \in Nat /\ Done(Num(cons[d].pos))'
             /\ Num(cons'[d].pos) # n
  <2>1. cons'[d] = cons[d] /\ cons[d].pos \in Nat /\ Done(Num(cons[d].pos))
    BY <1>1, <1>2 DEF EmptiedByOne
  <2>2. PICK m \in Nat : m = Num(cons[d].pos)
    BY <2>1, NumNat
  <2>3. m # n
    BY <2>1, <2>2
  <2>4. Done(m)'
    BY <2>1, <2>2, <2>3, OtherCount DEF Counts, Takes, Taking
  <2> QED
    BY <2>1, <2>2, <2>3, <2>4 DEF Num, Done, Start
<1>3. ASSUME cons'[c].pc \in {"clear", "release"}
      PROVE  cons'[c].pos \in Nat /\ Num(cons'[c].pos) = n /\ Done(Num(cons[c].pos))'
  <2>1. Done(n)' /\ cons'[c].pos = cons[c].pos /\ Num(cons[c].pos) = n
    BY <1>3 DEF Counts, Marking, GoesOn, HeldSame
  <2> QED
    BY <2>1 DEF Num, Done, Start
<1>4. ASSUME NEW d \in Consumers, cons'[d].pc \in {"clear", "release"}
      PROVE  cons'[d].pos \in Nat /\ Done(Num(cons[d].pos))'
  BY <1>2, <1>3, <1>4
<1>5. ASSUME NEW d \in Consumers, NEW x \in Consumers,
             cons'[d].pc \in {"clear", "release"}, cons'[x].pc \in {"clear", "release"},
             Num(cons'[d].pos) = Num(cons'[x].pos)
      PROVE  d = x
  <2>1. CASE d = c
    BY <1>2, <1>3, <1>5, <2>1
  <2>2. CASE x = c
    BY <1>2, <1>3, <1>5, <2>2
  <2>3. CASE d # c /\ x # c
    BY <1>1, <1>5, <2>3 DEF EmptiedByOne
  <2> QED
    BY <2>1, <2>2, <2>3
<1> QED
  BY <1>4, <1>5 DEF EmptiedByOne, Num

LEMMA ListByCountDequeued ==
  ASSUME CountInv, RangeInv, NEW ent, NEW blk, NEW shift, NEW low,
         ImplicitWell(ent, blk, shift, low), NEW c \in Consumers, I!CountDequeued(c)
  PROVE  ImplicitWell(ent, blk, shift, low)'
<1>1. PICK n \in Nat :
        /\ Counts(c, n) /\ Keeps(c, cons[c].pos) /\ Entered(n) /\ HasBlock(n) /\ ~ Done(n)
        /\ cons[c].block = blk[n] /\ blk[n] \in Blocks \ free
        /\ dequeued' \in [Blocks -> Nat]
        /\ dequeued'[blk[n]] = Cardinality(GoneIn(n)')
        /\ \A b \in Blocks : b # blk[n] => dequeued'[b] = dequeued[b]
  BY CountDequeuedCounts
<1>2. /\ Entered(n)' /\ Begun' = Begun
      /\ \A m \in Nat : /\ Unentered(m)' <=> Unentered(m)
                        /\ Entered(m)' <=> Entered(m)
                        /\ HasBlock(m)' <=> HasBlock(m)
  BY <1>1, CountsKeep
<1>3. ListLike /\ UNCHANGED <<tailBlock, free, ppc>>
  BY <1>1, SameLike DEF Counts
<1>4. KeysInv(ent, shift, low)'
  BY <1>3, KeysStay DEF ImplicitWell
<1>5. EntriesRight(ent, blk, shift)'
  BY <1>2, <1>3, EntriesStay DEF ImplicitWell
<1>6. BlocksRight(blk)'
  BY <1>2, <1>3 DEF ImplicitWell, BlocksRight, Blocks
<1>7. CountsRight(blk)'
  <2>1. ASSUME NEW m \in Nat, Entered(m) \/ Unentered(m)
        PROVE  dequeued'[blk[m]] = Cardinality(GoneIn(m)')
    <3>1. HasBlock(m) /\ blk[m] \in Blocks
      BY <2>1 DEF HasBlock, ImplicitWell, BlocksRight
    <3>2. CASE m = n
      BY <1>1, <3>2
    <3>3. CASE m # n
      <4>1. blk[m] # blk[n]
        BY <1>1, <3>1, <3>3 DEF ImplicitWell, BlocksRight
      <4>2. GoneIn(m)' = GoneIn(m)
        BY <1>1, <3>3, OtherCount DEF Counts, Takes, Taking
      <4> QED
        BY <1>1, <2>1, <3>1, <4>1, <4>2 DEF ImplicitWell, CountsRight
    <3> QED
      BY <3>2, <3>3
  <2> QED
    BY <1>2, <2>1 DEF CountsRight
<1>8. BlocksTyped'
  BY <1>1, <1>3 DEF ImplicitWell, BlocksTyped, Blocks
<1>9. EmptiedByOne'
  <2>1. cons[c].pos \in Nat
    BY <1>1, TakesPos DEF Counts, Takes, Taking
  <2> QED
    BY <1>1, <2>1, CountsEmpty DEF ImplicitWell
<1>10. AllSeek(ent, blk, shift)'
  BY <1>1, CountsSeek
<1> QED
  BY <1>4, <1>5, <1>6, <1>7, <1>8, <1>9, <1>10 DEF ImplicitWell

-----------------------------------------------------------------------------
(* A consumer gives a block back that it has emptied.                      *)

LEMMA StartApart ==
  ASSUME NEW n \in Int, NEW m \in Int, Start(n) = Start(m)
  PROVE  n = m
<1>1. Start(n) \in Int /\ BlockSize \in Nat \ {0}
  BY StartIs, SizeIs
<1>2. ~ (n < m) /\ ~ (m < n)
  BY <1>1, StartOrder
<1> QED
  BY <1>2

(* Entries that are in use have different keys.                            *)
LEMMA EnteredApart ==
  ASSUME NEW ent, NEW blk, NEW shift, EntriesRight(ent, blk, shift),
         NEW n \in Nat, NEW m \in Nat, Entered(n), Entered(m), ent[n] = ent[m]
  PROVE  n = m
<1>1. KeyOf(ent[n]) = Start(n) /\ KeyOf(ent[m]) = Start(m)
  BY DEF EntriesRight
<1>2. Start(n) = Start(m)
  BY <1>1
<1> QED
  BY <1>2, StartApart

(* The value of an entry changes.                                          *)
ValueSet(e, w) ==
  /\ UNCHANGED headers /\ entries' \in Seq(Stored) /\ Len(entries)' = Len(entries)
  /\ \A f \in Nat : 1 <= f /\ f <= Len(entries) =>
       /\ KeyOf(f)' = KeyOf(f) /\ (Keyed(f)' <=> Keyed(f))
       /\ ValueOf(f)' = IF f = e THEN w ELSE ValueOf(f)

LEMMA ValueIsSet ==
  ASSUME ListTyped, NEW e \in Nat, 1 <= e, e <= Len(entries), NEW w \in Nat,
         UNCHANGED headers, entries' = [entries EXCEPT ![e].value = w]
  PROVE  ValueSet(e, w)
<1>1. PICK r : r = [entries[e] EXCEPT !.value = w]
  OBVIOUS
<1>2. entries[e] = [key |-> KeyOf(e), value |-> ValueOf(e)] /\ KeyOf(e) \in Nat /\ ValueOf(e) \in Nat
  BY EntryIs
<1>3. r = [key |-> KeyOf(e), value |-> w]
  BY <1>1, <1>2
<1>4. r \in Stored
  BY <1>2, <1>3 DEF Stored
<1>5. entries' = [entries EXCEPT ![e] = r]
  BY <1>1
<1>6. entries \in Seq(Stored) /\ Len(entries) \in Nat /\ e \in 1..Len(entries)
  BY NewestIs DEF ListTyped
<1>7. /\ entries' \in Seq(Stored) /\ Len(entries') = Len(entries)
      /\ \A j \in 1..Len(entries) : entries'[j] = IF j = e THEN r ELSE entries[j]
  BY <1>4, <1>5, <1>6, ExceptSeq
<1>8. ASSUME NEW f \in Nat, 1 <= f, f <= Len(entries)
      PROVE  /\ KeyOf(f)' = KeyOf(f) /\ (Keyed(f)' <=> Keyed(f))
             /\ ValueOf(f)' = IF f = e THEN w ELSE ValueOf(f)
  <2>1. f \in 1..Len(entries)
    BY <1>6, <1>8
  <2>2. entries'[f] = IF f = e THEN r ELSE entries[f]
    BY <1>7, <2>1
  <2> QED
    BY <1>3, <2>2 DEF KeyOf, ValueOf, Keyed
<1> QED
  BY <1>7, <1>8 DEF ValueSet

LEMMA HeadersNames ==
  ASSUME UNCHANGED headers
  PROVE  /\ Newest' = Newest
         /\ \A v : Places(v)' = Places(v) /\ TailOf(v)' = TailOf(v)
         /\ \A v, p : PointsTo(v, p)' = PointsTo(v, p)
         /\ \A shift, v, n : EntryOf(shift, v, n)' = EntryOf(shift, v, n)
BY DEF Newest, Places, TailOf, PointsTo, EntryOf

LEMMA ValueGrows ==
  ASSUME ListTyped, NEW e, NEW w, ValueSet(e, w), NEW shift
  PROVE  ListGrows(shift, shift)
<1>1. UNCHANGED headers /\ Newest \in Nat
  BY NewestIs DEF ValueSet
<1>2. ASSUME NEW v \in Nat, 1 <= v, v <= Newest, NEW p \in Nat, p < Places(v)
      PROVE  PointsTo(v, p)' = PointsTo(v, p) /\ (Keyed(PointsTo(v, p))' <=> Keyed(PointsTo(v, p)))
  <2>1. PICK f \in Nat : f = PointsTo(v, p) /\ 1 <= f /\ f <= Len(entries)
    BY <1>2, ListIs
  <2>2. PointsTo(v, p)' = f
    BY <1>1, <2>1, HeadersNames
  <2>3. Keyed(f)' <=> Keyed(f)
    BY <2>1 DEF ValueSet
  <2> QED
    BY <2>1, <2>2, <2>3 DEF Keyed, KeyOf
<1>3. ASSUME NEW v \in Nat, 1 <= v, v <= Newest
      PROVE  Keyed(PointsTo(v, TailOf(v)))' <=> Keyed(PointsTo(v, TailOf(v)))
  <2>1. PICK t \in Nat : t = TailOf(v) /\ t < Places(v)
    BY <1>3, ListIs
  <2>2. TailOf(v)' = t
    BY <1>1, <2>1, HeadersNames
  <2> QED
    BY <1>2, <1>3, <2>1, <2>2 DEF Keyed, KeyOf, PointsTo
<1>4. Newest' = Newest /\ \A v : Places(v)' = Places(v)
  BY <1>1, HeadersNames
<1> QED
  BY <1>1, <1>2, <1>3, <1>4 DEF ListGrows

LEMMA KeysByValue ==
  ASSUME NEW ent, NEW shift, NEW low, KeysInv(ent, shift, low), CountInv, Reached \in Nat,
         NEW e, NEW w \in Blocks \cup {0}, ValueSet(e, w), tailIndex' = tailIndex,
         Begun' = Begun, Reached' = Reached, ppc' = "block" <=> ppc = "block", ListStaged',
         ppc' \in {"publish", "block", "rewound", "value"} => ppc' = ppc,
         \/ w = 0
         \/ e = EntryOf(shift, Newest, Reached - 1) /\ low <= Reached - 1
              /\ KeyOf(e) = Start(Reached - 1)
  PROVE  KeysInv(ent, shift, low)'
<1>1. ListTyped /\ KeysCongruent(shift) /\ KeysLatest(shift, low) /\ KeyInserted(ent, shift)
  BY DEF KeysInv
<1>2. UNCHANGED headers
  BY DEF ValueSet
<1>3. ListTyped'
  <2>1. ASSUME NEW f \in Nat, 1 <= f, f <= Len(entries) PROVE ValueOf(f)' \in Blocks \cup {0}
    <3>1. ValueOf(f)' = IF f = e THEN w ELSE ValueOf(f)
      BY <2>1 DEF ValueSet
    <3> QED
      BY <1>1, <2>1, <3>1, EntryIs
  <2>2. entries' \in Seq(Stored) /\ Len(entries)' = Len(entries)
    BY DEF ValueSet
  <2> QED
    BY <1>1, <1>2, <2>1, <2>2, HeadersNames DEF ListTyped, Blocks
<1>4. ASSUME NEW v \in Nat, 1 <= v, v <= Newest, NEW p \in Nat, p < Places(v)
      PROVE  /\ PointsTo(v, p)' = PointsTo(v, p)
             /\ KeyOf(PointsTo(v, p))' = KeyOf(PointsTo(v, p))
             /\ Keyed(PointsTo(v, p))' <=> Keyed(PointsTo(v, p))
  <2>1. PICK f \in Nat : f = PointsTo(v, p) /\ 1 <= f /\ f <= Len(entries)
    BY <1>1, <1>4, ListIs
  <2>2. PointsTo(v, p)' = f
    BY <1>2, <2>1, HeadersNames
  <2>3. KeyOf(f)' = KeyOf(f) /\ (Keyed(f)' <=> Keyed(f))
    BY <2>1 DEF ValueSet
  <2> QED
    BY <2>1, <2>2, <2>3 DEF Keyed, KeyOf
<1>5. KeysCongruent(shift)'
  <2>1. Keyed(PointsTo(Newest, TailOf(Newest)))' <=> Keyed(PointsTo(Newest, TailOf(Newest)))
    <3>1. PICK t \in Nat, v \in Nat : t = TailOf(Newest) /\ v = Newest /\ 1 <= v /\ t < Places(v)
      BY <1>1, NewestIs
    <3>2. TailOf(Newest)' = t /\ Newest' = v
      BY <1>2, <3>1, HeadersNames DEF TailOf, Newest
    <3>3. Keyed(PointsTo(v, t))' <=> Keyed(PointsTo(v, t))
      BY <1>4, <3>1
    <3> QED
      BY <3>1, <3>2, <3>3 DEF Keyed, KeyOf, PointsTo
  <2>2. /\ shift \in [Nat -> Int] /\ Newest' = Newest /\ \A v : Places(v)' = Places(v)
        /\ TailOf(Newest)' = TailOf(Newest)
    BY <1>1, <1>2, HeadersNames DEF KeysCongruent, TailOf, Newest
  <2>3. ASSUME NEW v \in Nat, NEW p \in Nat, 1 <= v, v <= Newest, p < Places(v),
               Keyed(PointsTo(v, p))'
        PROVE  /\ Off(KeyOf(PointsTo(v, p)))' = 0
               /\ (p - Num(KeyOf(PointsTo(v, p)))') % Places(v) = shift[v] % Places(v)
    <3>1. PICK k : k = KeyOf(PointsTo(v, p)) /\ k = KeyOf(PointsTo(v, p))'
      BY <1>4, <2>3
    <3>2. Off(k) = 0 /\ (p - Num(k)) % Places(v) = shift[v] % Places(v)
      BY <1>1, <1>4, <2>3, <3>1 DEF KeysCongruent
    <3> QED
      BY <3>1, <3>2 DEF Off, Num
  <2>4. \A v, p \in Nat : 1 <= v /\ v < Newest /\ p < Places(v) => Keyed(PointsTo(v, p))'
    <3>1. Newest \in Nat
      BY <1>1, NewestIs
    <3> QED
      BY <1>1, <1>4, <3>1 DEF KeysCongruent
  <2> QED
    BY <1>1, <2>1, <2>2, <2>3, <2>4 DEF KeysCongruent
<1>6. ASSUME NEW n \in Int
      PROVE  /\ EntryOf(shift, Newest, n)' = EntryOf(shift, Newest, n)
             /\ KeyOf(EntryOf(shift, Newest, n))' = KeyOf(EntryOf(shift, Newest, n))
             /\ Keyed(EntryOf(shift, Newest, n))' <=> Keyed(EntryOf(shift, Newest, n))
             /\ ValueOf(EntryOf(shift, Newest, n))' =
                  IF EntryOf(shift, Newest, n) = e THEN w ELSE ValueOf(EntryOf(shift, Newest, n))
  <2>1. shift \in [Nat -> Int] /\ Newest \in Nat /\ 1 <= Newest
    BY <1>1, NewestIs DEF KeysCongruent
  <2>2. Newest <= Newest
    BY <2>1
  <2>3. /\ EntryOf(shift, Newest, n) \in Nat /\ 1 <= EntryOf(shift, Newest, n)
        /\ EntryOf(shift, Newest, n) <= Len(entries)
    BY <1>1, <2>1, <2>2, PlaceIs
  <2>4. PICK f \in Nat : f = EntryOf(shift, Newest, n) /\ 1 <= f /\ f <= Len(entries)
    BY <2>3
  <2>5. EntryOf(shift, Newest, n)' = f
    BY <1>2, <2>4, HeadersNames DEF Newest, EntryOf, PointsTo, Places
  <2>6. /\ KeyOf(f)' = KeyOf(f) /\ (Keyed(f)' <=> Keyed(f))
        /\ ValueOf(f)' = IF f = e THEN w ELSE ValueOf(f)
    BY <2>4 DEF ValueSet
  <2> QED
    BY <2>4, <2>5, <2>6 DEF KeyOf, Keyed, ValueOf
<1>7. KeysLatest(shift, low)'
  <2>1. Newest' = Newest /\ Places(Newest)' = Places(Newest)
    BY <1>2, HeadersNames DEF Places, Newest
  <2>2. ASSUME NEW n \in Int, Reached - Places(Newest) <= n, n < Reached
        PROVE  NumberedAs(low, n, EntryOf(shift, Newest, n))'
    <3>1. NumberedAs(low, n, EntryOf(shift, Newest, n))
      BY <1>1, <2>2 DEF KeysLatest
    <3>2. CASE ~ (n = Reached - Places(Newest) /\ ValueOf(EntryOf(shift, Newest, n)) = 0 /\ ppc # "block")
      BY <1>6, <3>1, <3>2 DEF NumberedAs, Start
    <3>3. CASE /\ n = Reached - Places(Newest) /\ ValueOf(EntryOf(shift, Newest, n)) = 0
               /\ ppc # "block"
      <4>1. CASE EntryOf(shift, Newest, n) = e /\ w # 0
        <5>1. e = EntryOf(shift, Newest, Reached - 1)
          BY <4>1
        <5>2. PICK m \in Int, z \in Nat \ {0}, r \in Nat :
                m = r - 1 /\ z = Places(Newest) /\ r = Reached
          BY <1>1, NewestIs
        <5>3. n - m < z /\ m - n < z
          BY <2>2, <5>2
        <5>4. n = m
          BY <1>1, <4>1, <5>1, <5>2, <5>3, EntriesApart DEF KeysCongruent
        <5>5. low <= n /\ KeyOf(EntryOf(shift, Newest, n)) = Start(n)
          BY <4>1, <5>2, <5>4
        <5> QED
          BY <1>6, <5>5 DEF NumberedAs, Start
      <4>2. CASE ~ (EntryOf(shift, Newest, n) = e /\ w # 0)
        <5>1. ValueOf(EntryOf(shift, Newest, n))' = 0
          BY <1>6, <3>3, <4>2
        <5> QED
          BY <2>1, <3>3, <5>1 DEF NumberedAs
      <4> QED
        BY <4>1, <4>2
    <3> QED
      BY <3>2, <3>3
  <2>3. low \in Nat /\ (low = 0 \/ low < Begun)
    BY <1>1 DEF KeysLatest
  <2>4. ASSUME NEW n \in Int, (Reached - Places(Newest) <= n)', (n < Reached)'
        PROVE  NumberedAs(low, n, EntryOf(shift, Newest, n))'
    BY <2>1, <2>2, <2>4
  <2> QED
    BY <2>3, <2>4 DEF KeysLatest
<1>8. KeyInserted(ent, shift)'
  <2>1. ASSUME ppc' \in {"publish", "block", "rewound", "value"} PROVE KeyInserted(ent, shift)'
    <3>1. ppc' = ppc /\ ListStaged /\ tailIndex' = tailIndex
      BY <1>1, <2>1 DEF ListTyped
    <3>2. PICK t \in Int : t = Num(tailIndex)
      BY BegunTyped
    <3>3. ent[t] = EntryOf(shift, Newest, t) /\ KeyOf(ent[t]) = Start(t)
      BY <1>1, <2>1, <3>1, <3>2 DEF KeyInserted
    <3>4. ent[t] = EntryOf(shift, Newest, t)' /\ KeyOf(ent[t])' = Start(t)
      BY <1>6, <3>3
    <3> QED
      BY <3>1, <3>2, <3>4 DEF KeyInserted, Num, EntryOf, KeyOf, Start
  <2> QED
    BY <2>1 DEF KeyInserted
<1> QED
  BY <1>3, <1>5, <1>7, <1>8 DEF KeysInv

LEMMA SeeksInGrows ==
  ASSUME CountInv, RangeInv, ListTyped, NEW ent, NEW shift, shift \in [Nat -> Int],
         NEW c \in Consumers, SeeksIn(ent, shift, c), ListGrows(shift, shift),
         cons'[c].ver = cons[c].ver, \A i \in Nat : Keeps(c, i)' => Keeps(c, i)
  PROVE  SeeksIn(ent, shift, c)'
<1>1. PICK v \in Nat : v = cons[c].ver /\ 1 <= v /\ v <= Newest /\ Keyed(PointsTo(v, TailOf(v)))
  BY DEF SeeksIn
<1>2. v <= Newest' /\ Keyed(PointsTo(v, TailOf(v)))'
  BY <1>1, NewestIs DEF ListGrows
<1>3. ASSUME NEW i \in Nat, Keeps(c, i)' PROVE EntryOf(shift, v, Num(i))' = ent[Num(i)]
  <2>1. PICK n \in Int : n = Num(i)
    BY NumNat
  <2>2. EntryOf(shift, v, n) = ent[n]
    BY <1>1, <1>3, <2>1 DEF SeeksIn
  <2>3. EntryOf(shift, v, n)' = EntryOf(shift, v, n)
    BY <1>1, GrowsEntry
  <2> QED
    BY <2>1, <2>2, <2>3 DEF EntryOf, Num
<1> QED
  BY <1>1, <1>2, <1>3 DEF SeeksIn, EntryOf, Num

(* Whoever took the last item frees the entry, and still has the block.    *)
Freed(c, n, e) ==
  /\ Only(c) /\ HeldSame(c) /\ KeepsSame /\ ValueSet(e, 0)
  /\ UNCHANGED <<tailIndex, headIndex, tailBlock, ppc, headers, dequeued, free>>
  /\ cons[c].pc = "clear" /\ cons'[c].pc = "release" /\ n = Num(cons[c].pos)
  /\ cons'[c].ver = cons[c].ver /\ cons'[c].slot = cons[c].slot /\ cons'[c].block = cons[c].block

LEMMA ClearEntryFrees ==
  ASSUME CountInv, RangeInv, NEW ent, NEW blk, NEW shift, NEW low,
         ImplicitWell(ent, blk, shift, low), NEW c \in Consumers, I!ClearEntry(c)
  PROVE  \E n \in Nat : /\ Freed(c, n, ent[n]) /\ Entered(n) /\ Done(n) /\ ent[n] \in Nat
                        /\ cons[c].pos \in Nat
<1>1. /\ Keeping(c) /\ UNCHANGED <<tailIndex, headIndex, tailBlock, ppc, headers, dequeued, free>>
      /\ entries' = [entries EXCEPT ![I!Place(c)].value = 0]
      /\ cons[c].pc = "clear" /\ cons'[c].pc = "release" /\ cons'[c].ver = cons[c].ver
      /\ cons'[c].slot = cons[c].slot /\ cons'[c].block = cons[c].block
  BY ClearEntryDoes
<1>2. HeldSame(c) /\ KeepsSame /\ Only(c)
  BY <1>1, KeepingKeeps, RangesAside DEF Keeping
<1>3. Takes(c) /\ Seeks(ent, blk, shift, c) /\ ListTyped /\ ListStaged /\ shift \in [Nat -> Int]
  BY <1>1 DEF Takes, Taking, ImplicitWell, AllSeek, KeysInv, KeysCongruent, ListTyped
<1>4. PICK n \in Nat : n = Num(cons[c].pos) /\ n < Begun /\ ~ Unentered(n) /\ cons[c].pos \in Nat
  BY <1>3, PosBegun
<1>5. Done(n) /\ Entered(n)
  BY <1>1, <1>4 DEF ImplicitWell, EmptiedByOne, Entered, Clears
<1>6. I!Place(c) = ent[n]
  <2>1. /\ cons[c].ver \in Nat /\ 1 <= cons[c].ver /\ cons[c].ver <= Newest
        /\ cons[c].slot = (shift[cons[c].ver] + Num(cons[c].pos)) % Places(cons[c].ver)
        /\ EntryOf(shift, cons[c].ver, Num(cons[c].pos)) = ent[Num(cons[c].pos)]
    BY <1>1, <1>3 DEF Seeks, Seeking, SeeksIn, Taking
  <2> QED
    BY <1>3, <1>4, <2>1, PlaceAt
<1>7. PICK e \in Nat : e = ent[n] /\ 1 <= e /\ e <= Len(entries)
  <2>1. ent[n] = EntryOf(shift, Newest, n)
    BY <1>5 DEF ImplicitWell, EntriesRight
  <2>2. Newest \in Nat /\ 1 <= Newest /\ Newest <= Newest
    BY <1>3, NewestIs
  <2> QED
    BY <1>3, <2>1, <2>2, PlaceIs
<1>8. ValueSet(e, 0)
  BY <1>1, <1>3, <1>6, <1>7, ValueIsSet
<1> QED
  BY <1>1, <1>2, <1>4, <1>5, <1>7, <1>8 DEF Freed

LEMMA FreedBlocks ==
  ASSUME RangeInv, EmptiedByOne, NEW c \in Consumers, NEW n \in Nat, NEW e, Freed(c, n, e),
         Entered(n), Done(n)
  PROVE  /\ Begun' = Begun /\ Reached' = Reached
         /\ \A m \in Nat : /\ Unentered(m)' <=> Unentered(m)
                           /\ Entered(m)' <=> Entered(m) /\ m # n
                           /\ HasBlock(m)' <=> HasBlock(m)
                           /\ (Done(m)' <=> Done(m)) /\ GoneIn(m)' = GoneIn(m)
<1>1. ASSUME NEW d \in Consumers, d # c PROVE cons'[d] = cons[d]
  BY <1>1 DEF Freed, Only
<1>2. Begun' = Begun /\ ppc' = ppc /\ Reached' = Reached
  BY DEF Freed, Begun, Reached
<1>3. ASSUME NEW m \in Nat PROVE (Done(m)' <=> Done(m)) /\ GoneIn(m)' = GoneIn(m)
  BY GoneSame DEF Freed, KeepsSame
<1>4. \A m : Unentered(m)' <=> Unentered(m)
  BY <1>2 DEF Unentered
<1>5. \A d \in Consumers : \A m : d # c =>
        (Clears(d, m)' <=> Clears(d, m)) /\ (Releases(d, m)' <=> Releases(d, m))
  BY <1>1 DEF Clears, Releases, Num
<1>6. /\ \A m : ~ Clears(c, m)' /\ (Clears(c, m) <=> m = n)
      /\ \A m : ~ Releases(c, m) /\ (Releases(c, m)' <=> m = n)
  BY DEF Clears, Releases, Freed, HeldSame, Num
<1>7. \A d \in Consumers : d # c => ~ Clears(d, n) /\ ~ Releases(d, n)
  BY <1>6 DEF EmptiedByOne, Clears, Releases, Freed
<1>8. ASSUME NEW m \in Nat PROVE Entered(m)' <=> Entered(m) /\ m # n
  <2>1. CASE m = n
    <3>1. Done(n)'
      BY <1>3
    <3>2. \A d \in Consumers : ~ Clears(d, n)'
      BY <1>5, <1>6, <1>7
    <3> QED
      BY <2>1, <3>1, <3>2 DEF Entered
  <2>2. CASE m # n
    <3>1. \A d \in Consumers : Clears(d, m)' <=> Clears(d, m)
      BY <1>5, <1>6, <2>2
    <3> QED
      BY <1>2, <1>3, <1>4, <2>2, <3>1 DEF Entered
  <2> QED
    BY <2>1, <2>2
<1>9. ASSUME NEW m \in Nat PROVE HasBlock(m)' <=> HasBlock(m)
  <2>1. CASE m = n
    BY <1>6, <2>1 DEF HasBlock
  <2>2. CASE m # n
    <3>1. \A d \in Consumers : Releases(d, m)' <=> Releases(d, m)
      BY <1>5, <1>6, <2>2
    <3> QED
      BY <1>4, <1>8, <2>2, <3>1 DEF HasBlock
  <2> QED
    BY <2>1, <2>2
<1> QED
  BY <1>2, <1>3, <1>4, <1>8, <1>9

LEMMA FreedEntries ==
  ASSUME NEW ent, NEW blk, NEW shift, EntriesRight(ent, blk, shift), ListTyped,
         shift \in [Nat -> Int], NEW n \in Nat, NEW e, e = ent[n], ValueSet(e, 0), Entered(n),
         Reached' = Reached, \A m \in Nat : Entered(m)' <=> Entered(m) /\ m # n
  PROVE  EntriesRight(ent, blk, shift)'
<1>1. UNCHANGED headers
  BY DEF ValueSet
<1>2. PICK v \in Nat : v = Newest /\ 1 <= v /\ v <= Newest
  BY NewestIs
<1>3. Newest' = v /\ Places(v)' = Places(v) /\ \A m : EntryOf(shift, v, m)' = EntryOf(shift, v, m)
  BY <1>1, <1>2, HeadersNames
<1>4. ASSUME NEW m \in Nat, Entered(m)'
      PROVE  /\ Reached' - Places(v)' <= m /\ ent[m] = EntryOf(shift, v, m)'
             /\ KeyOf(ent[m])' = Start(m) /\ ValueOf(ent[m])' = blk[m]
  <2>1. Entered(m) /\ m # n
    BY <1>4
  <2>2. ent[m] # e
    BY <2>1, EnteredApart
  <2>3. /\ Reached - Places(v) <= m /\ ent[m] = EntryOf(shift, v, m)
        /\ KeyOf(ent[m]) = Start(m) /\ ValueOf(ent[m]) = blk[m]
    BY <1>2, <2>1 DEF EntriesRight
  <2>4. PICK f \in Nat : f = ent[m] /\ 1 <= f /\ f <= Len(entries)
    <3>1. /\ EntryOf(shift, v, m) \in Nat /\ 1 <= EntryOf(shift, v, m)
          /\ EntryOf(shift, v, m) <= Len(entries)
      <4>1. m \in Int
        OBVIOUS
      <4> QED
        BY <1>2, <4>1, PlaceIs
    <3> QED
      BY <2>3, <3>1
  <2>5. KeyOf(f)' = KeyOf(f) /\ ValueOf(f)' = ValueOf(f)
    BY <2>2, <2>4 DEF ValueSet
  <2> QED
    BY <1>3, <2>3, <2>4, <2>5 DEF KeyOf, ValueOf
<1>5. ASSUME NEW f \in Nat, 1 <= f, f <= Len(entries)', ValueOf(f)' # 0
      PROVE  \E m \in Nat : Entered(m)' /\ ent[m] = f
  <2>1. f # e /\ ValueOf(f) # 0 /\ f <= Len(entries)
    BY <1>5 DEF ValueSet
  <2>2. PICK m \in Nat : Entered(m) /\ ent[m] = f
    BY <1>5, <2>1 DEF EntriesRight
  <2> QED
    BY <2>1, <2>2
<1> QED
  BY <1>3, <1>4, <1>5 DEF EntriesRight, KeyOf, ValueOf, EntryOf, Places, Start

LEMMA FreedSeeks ==
  ASSUME CountInv, RangeInv, ListTyped, NEW ent, NEW blk, NEW shift, shift \in [Nat -> Int],
         AllSeek(ent, blk, shift), NEW c \in Consumers, NEW n \in Nat, NEW e, Freed(c, n, e)
  PROVE  AllSeek(ent, blk, shift)'
<1>1. ListGrows(shift, shift) /\ UNCHANGED headers
  <2>1. ValueSet(e, 0)
    BY DEF Freed
  <2>2. UNCHANGED headers
    BY <2>1 DEF ValueSet
  <2> QED
    BY <2>1, <2>2, ValueGrows
<1>2. \A d \in Consumers, i \in Nat : Keeps(d, i)' => Keeps(d, i)
  BY DEF Freed, KeepsSame
<1>3. ASSUME NEW d \in Consumers, d # c PROVE Seeks(ent, blk, shift, d)'
  <2>1. cons'[d] = cons[d] /\ Seeks(ent, blk, shift, d)
    BY <1>3 DEF Freed, Only, AllSeek
  <2> QED
    BY <1>1, <1>2, <2>1, SeeksOn
<1>4. Seeks(ent, blk, shift, c)'
  <2>1. Seeks(ent, blk, shift, c) /\ HeldSame(c)
    BY DEF Freed, AllSeek
  <2>2. SeeksIn(ent, shift, c)
    BY <2>1 DEF Freed, Seeks, Seeking, Taking
  <2>3. SeeksIn(ent, shift, c)'
    BY <1>1, <1>2, <2>2, SeeksInGrows DEF Freed
  <2>4. (cons[c].slot = (shift[cons[c].ver] + Num(cons[c].pos)) % Places(cons[c].ver))'
    BY <1>1, <2>1 DEF Freed, Seeks, HeldSame, Places, Num
  <2>5. (cons[c].block = blk[Num(cons[c].pos)])'
    BY <2>1 DEF Freed, Seeks, HeldSame, Num
  <2> QED
    BY <2>3, <2>4, <2>5 DEF Freed, Seeks
<1> QED
  BY <1>3, <1>4 DEF AllSeek

(* Marked blocks stay with whoever emptied them.                           *)
LEMMA EmptiedStays ==
  ASSUME EmptiedByOne, \A m \in Nat : Done(m)' <=> Done(m),
         \A d \in Consumers : cons'[d].pc \in {"clear", "release"} =>
           cons[d].pc \in {"clear", "release"} /\ cons'[d].pos = cons[d].pos
  PROVE  EmptiedByOne'
<1>1. ASSUME NEW d \in Consumers, cons'[d].pc \in {"clear", "release"}
      PROVE  /\ cons'[d].pos \in Nat /\ cons'[d].pos = cons[d].pos /\ Done(Num(cons[d].pos))'
             /\ cons[d].pc \in {"clear", "release"}
  <2>1. /\ cons'[d].pos = cons[d].pos /\ cons[d].pos \in Nat /\ Done(Num(cons[d].pos))
        /\ cons[d].pc \in {"clear", "release"}
    BY <1>1 DEF EmptiedByOne
  <2>2. PICK m \in Nat : m = Num(cons[d].pos)
    BY <2>1, NumNat
  <2>3. Done(m)'
    BY <2>1, <2>2
  <2> QED
    BY <2>1, <2>2, <2>3 DEF Num, Done, Start
<1>2. ASSUME NEW d \in Consumers, NEW x \in Consumers,
             cons'[d].pc \in {"clear", "release"}, cons'[x].pc \in {"clear", "release"},
             Num(cons'[d].pos) = Num(cons'[x].pos)
      PROVE  d = x
  BY <1>1, <1>2 DEF EmptiedByOne
<1> QED
  BY <1>1, <1>2 DEF EmptiedByOne, Num

LEMMA ListByClearEntry ==
  ASSUME CountInv, RangeInv, NEW ent, NEW blk, NEW shift, NEW low,
         ImplicitWell(ent, blk, shift, low), NEW c \in Consumers, I!ClearEntry(c)
  PROVE  ImplicitWell(ent, blk, shift, low)'
<1>1. PICK n \in Nat : /\ Freed(c, n, ent[n]) /\ Entered(n) /\ Done(n) /\ ent[n] \in Nat
                       /\ cons[c].pos \in Nat
  BY ClearEntryFrees
<1>2. PICK e \in Nat : e = ent[n]
  BY <1>1
<1>3. /\ ListTyped /\ shift \in [Nat -> Int] /\ KeysInv(ent, shift, low) /\ ListStaged
      /\ EntriesRight(ent, blk, shift) /\ EmptiedByOne /\ AllSeek(ent, blk, shift)
  BY DEF ImplicitWell, KeysInv, KeysCongruent, ListTyped
<1>4. Freed(c, n, e) /\ ValueSet(e, 0) /\ UNCHANGED <<tailIndex, ppc, tailBlock, free, dequeued>>
  BY <1>1, <1>2 DEF Freed
<1>5. /\ Begun' = Begun /\ Reached' = Reached
      /\ \A m \in Nat : /\ Unentered(m)' <=> Unentered(m)
                        /\ Entered(m)' <=> Entered(m) /\ m # n
                        /\ HasBlock(m)' <=> HasBlock(m)
                        /\ (Done(m)' <=> Done(m)) /\ GoneIn(m)' = GoneIn(m)
  BY <1>1, <1>3, <1>4, FreedBlocks
<1>6. KeysInv(ent, shift, low)'
  <2>1. Reached \in Nat
    BY BegunTyped DEF Reached
  <2>2. ListStaged'
    BY <1>3, <1>4 DEF ListStaged, Off
  <2>3. 0 \in Blocks \cup {0}
    OBVIOUS
  <2> QED
    BY <1>3, <1>4, <1>5, <2>1, <2>2, <2>3, KeysByValue
<1>7. EntriesRight(ent, blk, shift)'
  BY <1>1, <1>2, <1>3, <1>4, <1>5, FreedEntries
<1>8. BlocksRight(blk)'
  BY <1>4, <1>5 DEF ImplicitWell, BlocksRight, Blocks
<1>9. CountsRight(blk)' /\ BlocksTyped'
  BY <1>4, <1>5 DEF ImplicitWell, CountsRight, BlocksTyped, Blocks
<1>10. EmptiedByOne'
  <2>1. ASSUME NEW d \in Consumers, cons'[d].pc \in {"clear", "release"}
        PROVE  cons[d].pc \in {"clear", "release"} /\ cons'[d].pos = cons[d].pos
    BY <1>4, <2>1 DEF Freed, Only, HeldSame
  <2> QED
    BY <1>3, <1>5, <2>1, EmptiedStays
<1>11. AllSeek(ent, blk, shift)'
  BY <1>3, <1>4, FreedSeeks
<1> QED
  BY <1>6, <1>7, <1>8, <1>9, <1>10, <1>11 DEF ImplicitWell

(* Whoever emptied a block gives it back, and goes on.                     *)
Returned(c, n) ==
  /\ GoesOn(c) /\ Only(c) /\ KeepsSame /\ cons[c].pc = "release" /\ n = Num(cons[c].pos)
  /\ UNCHANGED <<tailIndex, headIndex, tailBlock, ppc, headers, entries, dequeued>>
  /\ cons'[c].pc = "block" =>
       /\ cons'[c].ver = cons[c].ver
       /\ cons'[c].slot = (cons[c].slot + 1) % I!Size(headers[cons[c].ver])

LEMMA ReturnedBlocks ==
  ASSUME RangeInv, EmptiedByOne, NEW c \in Consumers, NEW n \in Nat, Returned(c, n),
         ~ Unentered(n)
  PROVE  /\ Begun' = Begun /\ HasBlock(n)
         /\ \A m \in Nat : /\ Unentered(m)' <=> Unentered(m)
                           /\ Entered(m)' <=> Entered(m)
                           /\ HasBlock(m)' <=> HasBlock(m) /\ m # n
                           /\ (Done(m)' <=> Done(m)) /\ GoneIn(m)' = GoneIn(m)
<1>1. ASSUME NEW d \in Consumers, d # c PROVE cons'[d] = cons[d]
  BY <1>1 DEF Returned, Only
<1>2. Begun' = Begun /\ ppc' = ppc
  BY DEF Returned, Begun
<1>3. ASSUME NEW m \in Nat PROVE (Done(m)' <=> Done(m)) /\ GoneIn(m)' = GoneIn(m)
  BY GoneSame DEF Returned, KeepsSame
<1>4. \A m : Unentered(m)' <=> Unentered(m)
  BY <1>2 DEF Unentered
<1>5. \A d \in Consumers : \A m : d # c =>
        (Clears(d, m)' <=> Clears(d, m)) /\ (Releases(d, m)' <=> Releases(d, m))
  BY <1>1 DEF Clears, Releases, Num
<1>6. /\ \A m : ~ Clears(c, m)' /\ ~ Clears(c, m)
      /\ \A m : ~ Releases(c, m)' /\ (Releases(c, m) <=> m = n)
  BY DEF Clears, Releases, Returned, GoesOn, Num
<1>7. \A d \in Consumers : d # c => ~ Clears(d, n) /\ ~ Releases(d, n)
  BY <1>6 DEF EmptiedByOne, Clears, Releases, Returned
<1>8. ASSUME NEW m \in Nat PROVE Entered(m)' <=> Entered(m)
  <2>1. \A d \in Consumers : Clears(d, m)' <=> Clears(d, m)
    BY <1>5, <1>6
  <2> QED
    BY <1>2, <1>3, <1>4, <2>1 DEF Entered
<1>9. ~ Entered(n)
  <2>1. Done(n)
    BY DEF EmptiedByOne, Returned
  <2>2. \A d \in Consumers : ~ Clears(d, n)
    BY <1>6, <1>7
  <2> QED
    BY <2>1, <2>2 DEF Entered
<1>10. HasBlock(n)
  BY <1>6 DEF HasBlock
<1>11. ASSUME NEW m \in Nat PROVE HasBlock(m)' <=> HasBlock(m) /\ m # n
  <2>1. CASE m = n
    <3>1. \A d \in Consumers : ~ Releases(d, n)'
      BY <1>5, <1>6, <1>7
    <3> QED
      BY <1>4, <1>8, <1>9, <2>1, <3>1 DEF HasBlock
  <2>2. CASE m # n
    <3>1. \A d \in Consumers : Releases(d, m)' <=> Releases(d, m)
      BY <1>5, <1>6, <2>2
    <3> QED
      BY <1>4, <1>8, <2>2, <3>1 DEF HasBlock
  <2> QED
    BY <2>1, <2>2
<1> QED
  BY <1>2, <1>3, <1>4, <1>8, <1>10, <1>11

LEMMA ReturnedFree ==
  ASSUME NEW blk, BlocksRight(blk), NEW n \in Nat, HasBlock(n),
         free' = free \cup {blk[n]}, UNCHANGED <<tailBlock, ppc>>, Begun' = Begun,
         \A m \in Nat : HasBlock(m)' <=> HasBlock(m) /\ m # n
  PROVE  BlocksRight(blk)'
<1>1. Blocks' = Blocks
  BY DEF Blocks
<1>2. ASSUME NEW m \in Nat, HasBlock(m)' PROVE blk[m] \in Blocks \ free'
  <2>1. HasBlock(m) /\ m # n
    BY <1>2
  <2>2. blk[m] \in Blocks \ free /\ blk[m] # blk[n]
    BY <2>1 DEF BlocksRight
  <2> QED
    BY <2>2
<1>3. ASSUME NEW b \in Blocks \ free' PROVE \E m \in Nat : HasBlock(m)' /\ blk[m] = b
  <2>1. PICK m \in Nat : HasBlock(m) /\ blk[m] = b
    BY <1>3 DEF BlocksRight
  <2>2. m # n
    BY <1>3, <2>1
  <2> QED
    BY <2>1, <2>2
<1>4. \A m, k \in Nat : HasBlock(m)' /\ HasBlock(k)' /\ blk[m] = blk[k] => m = k
  BY DEF BlocksRight
<1>5. ppc' = "value" => tailBlock' = blk[Begun' - 1]
  BY DEF BlocksRight
<1> QED
  BY <1>1, <1>2, <1>3, <1>4, <1>5 DEF BlocksRight

LEMMA ListByReleaseBlock ==
  ASSUME CountInv, RangeInv, NEW ent, NEW blk, NEW shift, NEW low,
         ImplicitWell(ent, blk, shift, low), NEW c \in Consumers, I!ReleaseBlock(c)
  PROVE  ImplicitWell(ent, blk, shift, low)'
<1>1. /\ GoesOn(c) /\ cons[c].pc = "release"
      /\ UNCHANGED <<tailIndex, headIndex, tailBlock, ppc, headers, entries, dequeued>>
      /\ free' = free \cup {cons[c].block}
      /\ cons'[c].pc = "block" =>
           /\ cons'[c].ver = cons[c].ver
           /\ cons'[c].slot = (cons[c].slot + 1) % I!Size(headers[cons[c].ver])
  BY ReleaseBlockDoes
<1>2. KeepsSame /\ Only(c) /\ Takes(c)
  BY <1>1, RangesOn DEF GoesOn, Takes, Taking
<1>3. /\ ListTyped /\ ListStaged /\ shift \in [Nat -> Int] /\ Seeks(ent, blk, shift, c)
      /\ EmptiedByOne /\ BlocksRight(blk) /\ AllSeek(ent, blk, shift)
  BY DEF ImplicitWell, KeysInv, KeysCongruent, ListTyped, AllSeek
<1>4. PICK n \in Nat : n = Num(cons[c].pos) /\ ~ Unentered(n)
  BY <1>2, <1>3, PosBegun
<1>5. Returned(c, n)
  BY <1>1, <1>2, <1>4 DEF Returned
<1>6. /\ Begun' = Begun /\ HasBlock(n)
      /\ \A m \in Nat : /\ Unentered(m)' <=> Unentered(m)
                        /\ Entered(m)' <=> Entered(m)
                        /\ HasBlock(m)' <=> HasBlock(m) /\ m # n
                        /\ (Done(m)' <=> Done(m)) /\ GoneIn(m)' = GoneIn(m)
  BY <1>3, <1>4, <1>5, ReturnedBlocks
<1>7. cons[c].block = blk[n] /\ blk[n] \in Blocks
  BY <1>1, <1>3, <1>4, <1>6 DEF Seeks, BlocksRight
<1>8. ListLike
  BY <1>1, SameLike
<1>9. KeysInv(ent, shift, low)' /\ EntriesRight(ent, blk, shift)'
  BY <1>6, <1>8, KeysStay, EntriesStay DEF ImplicitWell
<1>10. BlocksRight(blk)'
  BY <1>1, <1>3, <1>6, <1>7, ReturnedFree
<1>11. CountsRight(blk)' /\ BlocksTyped'
  BY <1>1, <1>6, <1>7 DEF ImplicitWell, CountsRight, BlocksTyped, Blocks
<1>12. EmptiedByOne'
  <2>1. ASSUME NEW d \in Consumers, cons'[d].pc \in {"clear", "release"}
        PROVE  cons[d].pc \in {"clear", "release"} /\ cons'[d].pos = cons[d].pos
    BY <1>1, <1>2, <2>1 DEF Only, GoesOn
  <2> QED
    BY <1>3, <1>6, <2>1, EmptiedStays
<1>13. AllSeek(ent, blk, shift)'
  <2>1. UNCHANGED <<headers, entries>> /\ \A d \in Consumers, i \in Int : Keeps(d, i)' => Keeps(d, i)
    BY <1>1, <1>2 DEF KeepsSame
  <2>2. ListGrows(shift, shift)
    BY <1>3, <2>1, LikeGrows
  <2>3. ASSUME NEW d \in Consumers, d # c PROVE Seeks(ent, blk, shift, d)'
    <3>1. cons'[d] = cons[d] /\ Seeks(ent, blk, shift, d) /\ \A i \in Nat : Keeps(d, i)' => Keeps(d, i)
      BY <1>2, <1>3, <2>1, <2>3 DEF Only, AllSeek
    <3> QED
      BY <1>3, <2>2, <3>1, SeeksOn
  <2>4. Seeks(ent, blk, shift, c)'
    BY <1>1, <1>3, <2>1, SeeksNext
  <2> QED
    BY <2>3, <2>4 DEF AllSeek
<1> QED
  BY <1>9, <1>10, <1>11, <1>12, <1>13 DEF ImplicitWell

LEMMA ListByDequeue ==
  ASSUME CountInv, RangeInv, NEW ent, NEW blk, NEW shift, NEW low,
         ImplicitWell(ent, blk, shift, low), NEW c \in Consumers, I!Dequeue(c)
  PROVE  ImplicitWell(ent, blk, shift, low)'
BY ListByClaim, ListByReadItems, ListByLoadHeader, ListByLoadHeaderTail, ListByLoadKey,
   ListByLoadValue, ListByCountDequeued, ListByClearEntry, ListByReleaseBlock DEF I!Dequeue

-----------------------------------------------------------------------------
(* The steps of an implicit producer.                                      *)

LEMMA ListEnqueueLeaves ==
  ASSUME I!Enqueue
  PROVE  UNCHANGED <<headIndex, cons>>
BY DEF I!Enqueue, I!Produce, I!StoreElem, I!StoreTail, I!InsertKey, I!GrowHeader, I!PublishTail,
  I!Requisition, I!Rewind, I!FreeEntry, I!StoreValue, I!counters

(* The consumers find what they seek, and keep what they have.             *)
LEMMA ProducerSeeks ==
  ASSUME CountInv, RangeInv, ListTyped, UNCHANGED <<headIndex, cons>>,
         NEW ent, NEW blk, NEW shift, shift \in [Nat -> Int], AllSeek(ent, blk, shift),
         NEW e2, NEW b2, NEW s2, ListGrows(shift, s2),
         \A n \in Nat : n < Begun => e2[n] = ent[n] /\ b2[n] = blk[n]
  PROVE  AllSeek(e2, b2, s2)'
<1>1. KeepsSame
  BY RangesOther
<1>2. ASSUME NEW c \in Consumers PROVE Seeks(e2, b2, s2, c)'
  <2>1. Seeks(ent, blk, shift, c) /\ cons'[c] = cons[c] /\ \A i \in Nat : Keeps(c, i)' => Keeps(c, i)
    BY <1>1 DEF AllSeek, KeepsSame
  <2> QED
    BY <2>1, SeeksOn
<1> QED
  BY <1>2 DEF AllSeek

LEMMA ProducerKeeps ==
  ASSUME RangeInv, UNCHANGED <<headIndex, cons>>
  PROVE  /\ KeepsSame
         /\ \A n \in Nat : (Done(n)' <=> Done(n)) /\ GoneIn(n)' = GoneIn(n)
         /\ \A c \in Consumers, n \in Nat :
              (Clears(c, n)' <=> Clears(c, n)) /\ (Releases(c, n)' <=> Releases(c, n))
         /\ EmptiedByOne => EmptiedByOne'
<1>1. KeepsSame
  BY RangesOther
<1>2. \A n \in Nat : (Done(n)' <=> Done(n)) /\ GoneIn(n)' = GoneIn(n)
  BY <1>1, GoneSame DEF KeepsSame
<1>3. EmptiedByOne => EmptiedByOne'
  BY <1>2, EmptiedStays
<1> QED
  BY <1>1, <1>2, <1>3 DEF Clears, Releases, Num

(* What a step leaves alone that is about nothing but the newest items.    *)
LEMMA ListByLike ==
  ASSUME CountInv, RangeInv, NEW ent, NEW blk, NEW shift, NEW low,
         ImplicitWell(ent, blk, shift, low), ListLike,
         UNCHANGED <<headIndex, cons, tailBlock, free, dequeued>>
  PROVE  ImplicitWell(ent, blk, shift, low)'
<1>1. ListTyped /\ shift \in [Nat -> Int]
  BY DEF ImplicitWell, KeysInv, KeysCongruent
<1>2. BlocksLike
  BY ProducerKeeps DEF BlocksLike, ListLike, KeepsSame
<1>3. KeysInv(ent, shift, low)'
  BY KeysStay DEF ImplicitWell
<1>4. EntriesRight(ent, blk, shift)'
  BY <1>2, BlocksNames, EntriesStay DEF ImplicitWell
<1>5. BlocksRight(blk)' /\ CountsRight(blk)' /\ BlocksTyped'
  BY <1>2, BlocksStay DEF ImplicitWell
<1>6. EmptiedByOne'
  BY ProducerKeeps DEF ImplicitWell
<1>7. AllSeek(ent, blk, shift)'
  <2>1. ListGrows(shift, shift)
    BY <1>1, LikeGrows DEF ListLike
  <2> QED
    BY <1>1, <2>1, ProducerSeeks DEF ImplicitWell
<1> QED
  BY <1>3, <1>4, <1>5, <1>6, <1>7 DEF ImplicitWell

LEMMA ListByProduce ==
  ASSUME CountInv, RangeInv, NEW ent, NEW blk, NEW shift, NEW low,
         ImplicitWell(ent, blk, shift, low), I!Produce, UNCHANGED I!listVars
  PROVE  ImplicitWell(ent, blk, shift, low)'
<1>1. ListStaged /\ tailIndex \in Nat
  BY DEF ImplicitWell, KeysInv, ListTyped, CountInv, CountersTyped
<1>2. UNCHANGED <<headIndex, cons, tailBlock, free, dequeued, headers, entries>>
  BY DEF I!Produce, I!StoreElem, I!StoreTail, I!counters, I!listVars
<1>3. ListLike
  <2>1. CASE I!StoreElem
    <3>1. (ppc = "idle" /\ Off(tailIndex) # 0) \/ ppc = "elem"
      BY <2>1 DEF I!StoreElem, I!HasRoom, Off
    <3>2. ppc' = "tail" /\ tailIndex' = tailIndex
      BY <2>1 DEF I!StoreElem, I!counters
    <3>3. Begun' = Begun
      BY <3>1, <3>2 DEF Begun
    <3>4. Reached' = Reached
      BY <3>1, <3>2, <3>3 DEF Reached
    <3> QED
      BY <1>2, <3>1, <3>2, <3>3, <3>4 DEF ListLike, ListStaged
  <2>2. CASE I!StoreTail
    <3>1. ppc = "tail" /\ ppc' = "idle" /\ tailIndex' = tailIndex + 1
      BY <2>2 DEF I!StoreTail
    <3>2. PICK t \in Nat, u \in Int : t = tailIndex /\ u = t + 1
      BY <1>1
    <3>3. /\ Off(u) = 0 => Num(u) = Num(t) + 1
          /\ Off(u) # 0 => Num(u) = Num(t)
      BY <3>2, NextNum
    <3>4. Begun = Num(t) + 1
      BY <3>1, <3>2 DEF Begun
    <3>5. Begun' = IF Off(u) = 0 THEN Num(u) ELSE Num(u) + 1
      BY <3>1, <3>2 DEF Begun, Off, Num
    <3>6. Begun' = Begun
      BY <3>3, <3>4, <3>5
    <3>7. Reached' = Reached
      BY <3>1, <3>6 DEF Reached
    <3> QED
      BY <1>2, <3>1, <3>6, <3>7 DEF ListLike, ListStaged
  <2> QED
    BY <2>1, <2>2 DEF I!Produce
<1> QED
  BY <1>2, <1>3, ListByLike

(* An entry that leads to a block has the block's number as its key.       *)
LEMMA ValueEntered ==
  ASSUME NEW ent, NEW blk, NEW shift, EntriesRight(ent, blk, shift),
         NEW e \in Nat, 1 <= e, e <= Len(entries), ValueOf(e) # 0
  PROVE  \E n \in Nat : /\ Entered(n) /\ ent[n] = e /\ n < Begun /\ KeyOf(e) = Start(n)
                        /\ Reached - Places(Newest) <= n /\ e = EntryOf(shift, Newest, n)
                        /\ ValueOf(e) = blk[n]
<1>1. PICK n \in Nat : Entered(n) /\ ent[n] = e
  BY DEF EntriesRight
<1>2. /\ n < Begun /\ KeyOf(e) = Start(n) /\ Reached - Places(Newest) <= n
      /\ e = EntryOf(shift, Newest, n) /\ ValueOf(e) = blk[n]
  BY <1>1 DEF EntriesRight, Entered
<1> QED
  BY <1>1, <1>2

(* No block starts at the key of an entry that was never used.             *)
LEMMA StartNotOne ==
  ASSUME NEW n \in Int
  PROVE  Start(n) # 1 /\ Start(n) \in Int
<1>1. PICK b \in Nat \ {0} : b = BlockSize /\ b > 1
  BY SizeAssumption, SizeIs
<1>2. 0 \in Offsets
  BY <1>1 DEF Offsets
<1>3. PICK s \in Int : s = Start(n)
  BY StartIs
<1>4. Off(s + 0) = 0
  BY <1>2, <1>3, ItemOf
<1>5. s # 1
  <2>1. 1 % b = 1
    <3>1. 1 \in 0..(b - 1)
      BY <1>1
    <3> QED
      BY <3>1, ModSmall
  <2>2. ASSUME s = 1 PROVE FALSE
    <3>1. Off(1) = 0
      BY <1>4, <2>2
    <3> QED
      BY <1>1, <2>1, <3>1 DEF Off
  <2> QED
    BY <2>2
<1> QED
  BY <1>3, <1>5

(* The key of an entry that leads nowhere changes.                         *)
KeySet(e, k) ==
  /\ UNCHANGED headers /\ entries' \in Seq(Stored) /\ Len(entries)' = Len(entries)
  /\ k # 1 /\ ValueOf(e) = 0
  /\ \A f \in Nat : 1 <= f /\ f <= Len(entries) =>
       /\ ValueOf(f)' = ValueOf(f) /\ KeyOf(f)' = (IF f = e THEN k ELSE KeyOf(f))
       /\ Keyed(f)' <=> Keyed(f) \/ f = e

LEMMA KeyIsSet ==
  ASSUME ListTyped, NEW e \in Nat, 1 <= e, e <= Len(entries), ValueOf(e) = 0,
         NEW k \in Nat, k # 1, UNCHANGED headers, entries' = [entries EXCEPT ![e].key = k]
  PROVE  KeySet(e, k)
<1>1. PICK r : r = [entries[e] EXCEPT !.key = k]
  OBVIOUS
<1>2. entries[e] = [key |-> KeyOf(e), value |-> ValueOf(e)] /\ KeyOf(e) \in Nat /\ ValueOf(e) \in Nat
  BY EntryIs
<1>3. r = [key |-> k, value |-> ValueOf(e)]
  BY <1>1, <1>2
<1>4. r \in Stored
  BY <1>2, <1>3 DEF Stored
<1>5. entries' = [entries EXCEPT ![e] = r]
  BY <1>1
<1>6. entries \in Seq(Stored) /\ Len(entries) \in Nat /\ e \in 1..Len(entries)
  BY NewestIs DEF ListTyped
<1>7. /\ entries' \in Seq(Stored) /\ Len(entries') = Len(entries)
      /\ \A j \in 1..Len(entries) : entries'[j] = IF j = e THEN r ELSE entries[j]
  BY <1>4, <1>5, <1>6, ExceptSeq
<1>8. ASSUME NEW f \in Nat, 1 <= f, f <= Len(entries)
      PROVE  /\ ValueOf(f)' = ValueOf(f) /\ KeyOf(f)' = (IF f = e THEN k ELSE KeyOf(f))
             /\ Keyed(f)' <=> Keyed(f) \/ f = e
  <2>1. f \in 1..Len(entries)
    BY <1>6, <1>8
  <2>2. entries'[f] = IF f = e THEN r ELSE entries[f]
    BY <1>7, <2>1
  <2> QED
    BY <1>3, <2>2 DEF KeyOf, ValueOf, Keyed
<1> QED
  BY <1>7, <1>8 DEF KeySet

(* The places of an index by their entries, after the key is set.          *)
LEMMA KeyPoints ==
  ASSUME ListTyped, NEW e, NEW k, KeySet(e, k)
  PROVE  /\ Newest' = Newest
         /\ \A v : Places(v)' = Places(v) /\ TailOf(v)' = TailOf(v)
         /\ \A shift, v, n : EntryOf(shift, v, n)' = EntryOf(shift, v, n)
         /\ \A v, p \in Nat : 1 <= v /\ v <= Newest /\ p < Places(v) =>
              /\ PointsTo(v, p)' = PointsTo(v, p)
              /\ ValueOf(PointsTo(v, p))' = ValueOf(PointsTo(v, p))
              /\ KeyOf(PointsTo(v, p))' = (IF PointsTo(v, p) = e THEN k ELSE KeyOf(PointsTo(v, p)))
              /\ Keyed(PointsTo(v, p))' <=> Keyed(PointsTo(v, p)) \/ PointsTo(v, p) = e
<1>1. UNCHANGED headers
  BY DEF KeySet
<1>2. ASSUME NEW v \in Nat, NEW p \in Nat, 1 <= v, v <= Newest, p < Places(v)
      PROVE  /\ PointsTo(v, p)' = PointsTo(v, p)
             /\ ValueOf(PointsTo(v, p))' = ValueOf(PointsTo(v, p))
             /\ KeyOf(PointsTo(v, p))' = (IF PointsTo(v, p) = e THEN k ELSE KeyOf(PointsTo(v, p)))
             /\ Keyed(PointsTo(v, p))' <=> Keyed(PointsTo(v, p)) \/ PointsTo(v, p) = e
  <2>1. PICK f \in Nat : f = PointsTo(v, p) /\ 1 <= f /\ f <= Len(entries)
    BY <1>2, ListIs
  <2>2. PointsTo(v, p)' = f
    BY <1>1, <2>1, HeadersNames
  <2>3. /\ ValueOf(f)' = ValueOf(f) /\ KeyOf(f)' = (IF f = e THEN k ELSE KeyOf(f))
        /\ Keyed(f)' <=> Keyed(f) \/ f = e
    BY <2>1 DEF KeySet
  <2> QED
    BY <2>1, <2>2, <2>3 DEF Keyed, KeyOf, ValueOf
<1> QED
  BY <1>1, <1>2, HeadersNames

LEMMA KeyGrows ==
  ASSUME ListTyped, NEW e, NEW k, KeySet(e, k), NEW shift
  PROVE  ListGrows(shift, shift)
<1>1. UNCHANGED headers /\ Newest \in Nat
  BY NewestIs DEF KeySet
<1>2. /\ Newest' = Newest
      /\ \A v : Places(v)' = Places(v) /\ TailOf(v)' = TailOf(v)
      /\ \A v, p \in Nat : 1 <= v /\ v <= Newest /\ p < Places(v) =>
           /\ PointsTo(v, p)' = PointsTo(v, p)
           /\ Keyed(PointsTo(v, p)) => Keyed(PointsTo(v, p))'
  BY KeyPoints
<1>3. ASSUME NEW v \in Nat, 1 <= v, v <= Newest, Keyed(PointsTo(v, TailOf(v)))
      PROVE  Keyed(PointsTo(v, TailOf(v)))'
  <2>1. PICK t \in Nat : t = TailOf(v) /\ t < Places(v)
    BY <1>3, ListIs
  <2>2. TailOf(v)' = t
    BY <1>2, <2>1
  <2>3. Keyed(PointsTo(v, t))'
    BY <1>2, <1>3, <2>1
  <2> QED
    BY <2>2, <2>3 DEF Keyed, KeyOf, PointsTo
<1> QED
  BY <1>1, <1>2, <1>3 DEF ListGrows

(* A number and one that its place had before are the same modulo the      *)
(* size of every index.                                                    *)
Agrees(p, n, s, z) == (p - n) % z = s % z

SamePlaces(p, s, n, m, z) == Agrees(p, n, s, z) /\ Agrees(p, m, s, z) => n % z = m % z
PlacesAgain(p, s, n, m, z) == Agrees(p, m, s, z) /\ n % z = m % z => Agrees(p, n, s, z)

LEMMA SamePlace ==
  ASSUME NEW p \in Int, NEW s \in Int, NEW n \in Int, NEW m \in Int, NEW z \in Nat \ {0}
  PROVE  SamePlaces(p, s, n, m, z)
<1> SUFFICES ASSUME (p - n) % z = s % z, (p - m) % z = s % z PROVE n % z = m % z
  BY DEF SamePlaces, Agrees
<1>1. PICK a \in Int, b \in Int : a = p - n /\ b = p - m
  OBVIOUS
<1>2. PICK c \in Int : c = n + m - p
  OBVIOUS
<1>3. Shifts(a, b, c, z)
  BY ModShifts
<1>4. (a + c) % z = (b + c) % z
  BY <1>1, <1>3 DEF Shifts
<1>5. a + c = m /\ b + c = n
  BY <1>1, <1>2
<1> QED
  BY <1>4, <1>5

LEMMA PlaceAgain ==
  ASSUME NEW p \in Int, NEW s \in Int, NEW n \in Int, NEW m \in Int, NEW z \in Nat \ {0}
  PROVE  PlacesAgain(p, s, n, m, z)
<1> SUFFICES ASSUME (p - m) % z = s % z, n % z = m % z PROVE (p - n) % z = s % z
  BY DEF PlacesAgain, Agrees
<1>1. PICK a \in Int, c \in Int : a = p - n - m /\ c = p - m
  OBVIOUS
<1>2. Shifts(n, m, a, z)
  BY ModShifts
<1>3. (n + a) % z = (m + a) % z
  BY <1>2 DEF Shifts
<1>4. n + a = p - m /\ m + a = p - n
  BY <1>1
<1> QED
  BY <1>3, <1>4

Divides(a, b, m, z) == a % z = b % z => a % m = b % m

LEMMA ModIsDivided ==
  ASSUME NEW a \in Int, NEW b \in Int, NEW m \in Nat \ {0}, NEW z \in Nat \ {0},
         NEW k \in Nat \ {0}, z = m * k
  PROVE  Divides(a, b, m, z)
BY ModDivides DEF Divides

(* The next number gets an entry that leads nowhere.                       *)
Inserted(ent, shift, e, n) ==
  /\ ppc = "idle" /\ ppc' = "publish" /\ Off(tailIndex) = 0 /\ n = Num(tailIndex)
  /\ tailIndex = Start(n) /\ Begun = n /\ Reached = n /\ Begun' = n /\ Reached' = n
  /\ UNCHANGED <<tailIndex, headIndex, cons, tailBlock, dequeued, free>>
  /\ e = EntryOf(shift, Newest, n) /\ KeySet(e, Start(n))

LEMMA InsertKeyInserts ==
  ASSUME CountInv, NEW ent, NEW blk, NEW shift, NEW low,
         ImplicitWell(ent, blk, shift, low), I!InsertKey
  PROVE  \E n \in Nat, e \in Nat : /\ Inserted(ent, shift, e, n)
                                   /\ 1 <= e /\ e <= Len(entries)
<1>1. ListTyped /\ KeysCongruent(shift) /\ EntriesRight(ent, blk, shift)
  BY DEF ImplicitWell, KeysInv
<1>2. ppc = "idle" /\ Off(tailIndex) = 0 /\ tailIndex \in Nat /\ Begun \in Nat
  BY BegunTyped DEF I!InsertKey, I!NeedsBlock, Off
<1>3. PICK n \in Nat : n = Num(tailIndex)
  BY <1>2, NumNat
<1>4. tailIndex = Start(n) /\ Begun = n /\ Reached = n
  BY <1>2, <1>3, StartOff DEF Begun, Reached
<1>5. I!Entry(I!header, I!header.tail + 1) = EntryOf(shift, Newest, n)
  <2>1. I!Entry(I!header, I!header.tail + 1) = PointsTo(Newest, (TailOf(Newest) + 1) % Places(Newest))
    BY HeaderEntry DEF TailOf
  <2> QED
    BY <1>1, <1>4, <2>1, TailPlace
<1>6. PICK e \in Nat : e = EntryOf(shift, Newest, n) /\ 1 <= e /\ e <= Len(entries)
  <2>1. Newest \in Nat /\ 1 <= Newest /\ Newest <= Newest /\ n \in Int /\ shift \in [Nat -> Int]
    BY <1>1, NewestIs DEF KeysCongruent
  <2>2. /\ EntryOf(shift, Newest, n) \in Nat /\ 1 <= EntryOf(shift, Newest, n)
        /\ EntryOf(shift, Newest, n) <= Len(entries)
    BY <1>1, <2>1, PlaceIs
  <2> QED
    BY <2>2
<1>7. /\ UNCHANGED <<tailIndex, headIndex, cons, tailBlock, dequeued, free, headers>>
      /\ ppc' = "publish" /\ entries' = [entries EXCEPT ![e].key = tailIndex]
      /\ KeyOf(e) = 1 \/ ValueOf(e) = 0
  BY <1>5, <1>6 DEF I!InsertKey, I!IsFree, I!counters, I!Invalid, I!NoBlock, KeyOf, ValueOf
<1>8. ValueOf(e) = 0
  <2>1. ASSUME ValueOf(e) # 0 PROVE KeyOf(e) # 1
    <3>1. PICK m \in Nat : KeyOf(e) = Start(m)
      BY <1>1, <1>6, <2>1, ValueEntered
    <3> QED
      BY <3>1, StartNotOne
  <2> QED
    BY <1>7, <2>1
<1>9. KeySet(e, Start(n))
  <2>1. PICK k \in Nat : k = tailIndex /\ k = Start(n)
    BY <1>2, <1>4
  <2>2. k # 1 /\ entries' = [entries EXCEPT ![e].key = k]
    BY <1>7, <2>1, StartNotOne
  <2>3. KeySet(e, k)
    BY <1>1, <1>6, <1>7, <1>8, <2>2, KeyIsSet
  <2> QED
    BY <2>1, <2>3
<1>10. Begun' = n /\ Reached' = n
  <2>1. Begun' = n
    BY <1>2, <1>3, <1>7 DEF Begun, Off, Num
  <2> QED
    BY <1>7, <2>1 DEF Reached
<1> QED
  BY <1>2, <1>3, <1>4, <1>6, <1>7, <1>9, <1>10 DEF Inserted

LEMMA InsertedListTyped ==
  ASSUME ListTyped, NEW e, NEW k, KeySet(e, k), ListStaged'
  PROVE  ListTyped'
<1>1. /\ Newest' = Newest
      /\ \A v : Places(v)' = Places(v) /\ TailOf(v)' = TailOf(v)
      /\ \A v, p \in Nat : 1 <= v /\ v <= Newest /\ p < Places(v) => PointsTo(v, p)' = PointsTo(v, p)
  BY KeyPoints
<1>2. headers' = headers /\ entries' \in Seq(Stored) /\ Len(entries)' = Len(entries)
  BY DEF KeySet
<1>3. \A f \in Nat : 1 <= f /\ f <= Len(entries)' => ValueOf(f)' \in Blocks' \cup {0}
  BY <1>2 DEF KeySet, ListTyped, Blocks
<1> QED
  BY <1>2, <1>3, HeadersNames DEF ListTyped

(* The place of the number in the newest index.                            *)
LEMMA PlaceOfEntry ==
  ASSUME ListTyped, NEW shift, shift \in [Nat -> Int], NEW n \in Int, NEW e, e = EntryOf(shift, Newest, n)
  PROVE  /\ \E p \in Nat : /\ p < Places(Newest) /\ PointsTo(Newest, p) = e
                           /\ Agrees(p, n, shift[Newest], Places(Newest))
         /\ \A p \in Nat : p < Places(Newest) /\ PointsTo(Newest, p) = e =>
              Agrees(p, n, shift[Newest], Places(Newest))
<1>1. PICK z \in Nat \ {0}, s \in Int, v \in Nat : z = Places(v) /\ s = shift[v] /\ v = Newest
  BY NewestIs
<1>2. PICK a \in Int : a = s + n
  BY <1>1
<1>3. PICK q \in Nat : q = a % z /\ q < z
  BY <1>2, PlaceTyped
<1>4. PointsTo(v, q) = e
  BY <1>1, <1>2, <1>3 DEF EntryOf
<1>5. Agrees(q, n, s, z)
  <2>1. q % z = a % z
    BY <1>3, ModMod
  <2>2. PICK c \in Int : c = 0 - n
    OBVIOUS
  <2>3. Shifts(q, a, c, z)
    BY <2>2, ModShifts
  <2>4. (q + c) % z = (a + c) % z
    BY <2>1, <2>3 DEF Shifts
  <2>5. q + c = q - n /\ a + c = s
    BY <1>2, <2>2
  <2> QED
    BY <2>4, <2>5 DEF Agrees
<1>6. ASSUME NEW p \in Nat, p < z, PointsTo(v, p) = e PROVE p = q
  BY <1>1, <1>3, <1>4, <1>6 DEF ListTyped
<1> QED
  BY <1>1, <1>3, <1>4, <1>5, <1>6

(* An entry that had a key gets one that is the same modulo every index.   *)
LEMMA InsertedCongruent ==
  ASSUME ListTyped, NEW shift, KeysCongruent(shift), NEW e, NEW n \in Nat,
         e = EntryOf(shift, Newest, n),
         NEW v \in Nat, 1 <= v, v <= Newest, NEW p \in Nat, p < Places(v), PointsTo(v, p) = e
  PROVE  Agrees(p, n, shift[v], Places(v))
<1>1. PICK z \in Nat \ {0}, s \in Int, w \in Nat :
        z = Places(w) /\ s = shift[w] /\ w = Newest /\ 1 <= w /\ w <= Newest
  BY NewestIs DEF KeysCongruent
<1>2. PICK y \in Nat \ {0}, r \in Int : y = Places(v) /\ r = shift[v]
  BY ListIs DEF KeysCongruent
<1>3. /\ \E q \in Nat : q < z /\ PointsTo(w, q) = e /\ Agrees(q, n, s, z)
      /\ \A q \in Nat : q < z /\ PointsTo(w, q) = e => Agrees(q, n, s, z)
  <2>1. shift \in [Nat -> Int] /\ n \in Int
    BY DEF KeysCongruent
  <2> QED
    BY <1>1, <2>1, PlaceOfEntry
<1>4. CASE v = w
  BY <1>1, <1>3, <1>4
<1>5. CASE v # w
  <2>1. Keyed(e) /\ v < Newest
    BY <1>1, <1>5 DEF KeysCongruent
  <2>2. KeyOf(e) \in Nat /\ Num(KeyOf(e)) \in Nat
    BY ListIs, EntryIs, NumNat
  <2>3. PICK m \in Int : m = Num(KeyOf(e))
    BY <2>2
  <2>4. Agrees(p, m, r, y)
    BY <1>2, <2>1, <2>3 DEF KeysCongruent, Agrees
  <2>5. PICK q \in Nat : q < z /\ PointsTo(w, q) = e /\ Agrees(q, n, s, z)
    BY <1>3
  <2>6. Agrees(q, m, s, z)
    BY <1>1, <2>1, <2>3, <2>5 DEF KeysCongruent, Agrees
  <2>7. SamePlaces(q, s, n, m, z)
    BY SamePlace
  <2>8. n % z = m % z
    BY <2>5, <2>6, <2>7 DEF SamePlaces
  <2>9. PICK k \in Nat \ {0} : z = y * k
    BY <1>1, <1>2 DEF ListTyped
  <2>10. Divides(n, m, y, z)
    BY <2>9, ModIsDivided
  <2>11. n % y = m % y
    BY <2>8, <2>10 DEF Divides
  <2>12. PlacesAgain(p, r, n, m, y)
    BY PlaceAgain
  <2>13. Agrees(p, n, r, y)
    BY <2>4, <2>11, <2>12 DEF PlacesAgain
  <2> QED
    BY <1>2, <2>13
<1> QED
  BY <1>4, <1>5

LEMMA InsertedKeys ==
  ASSUME CountInv, NEW ent, NEW shift, NEW low, KeysInv(ent, shift, low),
         NEW n \in Nat, NEW e \in Nat, Inserted(ent, shift, e, n), 1 <= e, e <= Len(entries),
         NEW e2, e2[n] = e
  PROVE  KeysInv(e2, shift, low)'
<1>1. ListTyped /\ KeysCongruent(shift) /\ KeysLatest(shift, low) /\ shift \in [Nat -> Int]
  BY DEF KeysInv, KeysCongruent
<1>2. PICK k \in Int : k = Start(n) /\ k # 1
  BY StartNotOne
<1>3. KeySet(e, k) /\ e = EntryOf(shift, Newest, n)
  BY <1>2 DEF Inserted
<1>4. /\ Newest' = Newest
      /\ \A v : Places(v)' = Places(v) /\ TailOf(v)' = TailOf(v)
      /\ \A v, m : EntryOf(shift, v, m)' = EntryOf(shift, v, m)
      /\ \A v, p \in Nat : 1 <= v /\ v <= Newest /\ p < Places(v) =>
           /\ PointsTo(v, p)' = PointsTo(v, p)
           /\ ValueOf(PointsTo(v, p))' = ValueOf(PointsTo(v, p))
           /\ KeyOf(PointsTo(v, p))' = (IF PointsTo(v, p) = e THEN k ELSE KeyOf(PointsTo(v, p)))
           /\ Keyed(PointsTo(v, p))' <=> Keyed(PointsTo(v, p)) \/ PointsTo(v, p) = e
  BY <1>1, <1>3, KeyPoints
<1>5. Off(k) = 0 /\ Num(k) = n
  BY <1>2 DEF Inserted
<1>6. ListTyped'
  <2>1. ListStaged'
    BY DEF Inserted, ListStaged, Off
  <2> QED
    BY <1>1, <1>3, <2>1, InsertedListTyped
<1>7. PICK w \in Nat, z \in Nat \ {0} : w = Newest /\ z = Places(w) /\ 1 <= w /\ w <= Newest
  BY <1>1, NewestIs
<1>8. KeysCongruent(shift)'
  <2>1. ASSUME NEW v \in Nat, NEW p \in Nat, 1 <= v, v <= Newest, p < Places(v),
               Keyed(PointsTo(v, p))'
        PROVE  /\ Off(KeyOf(PointsTo(v, p)))' = 0
               /\ (p - Num(KeyOf(PointsTo(v, p)))') % Places(v) = shift[v] % Places(v)
    <3>1. PICK f : f = PointsTo(v, p)
      OBVIOUS
    <3>2. CASE f = e
      <4>1. KeyOf(PointsTo(v, p))' = k
        BY <1>4, <2>1, <3>1, <3>2
      <4>2. (p - n) % Places(v) = shift[v] % Places(v)
        <5>1. PointsTo(v, p) = e
          BY <3>1, <3>2
        <5>2. Agrees(p, n, shift[v], Places(v))
          BY <1>1, <1>3, <2>1, <5>1, InsertedCongruent
        <5> QED
          BY <5>2 DEF Agrees
      <4> QED
        BY <1>5, <4>1, <4>2 DEF Off, Num
    <3>3. CASE f # e
      <4>1. PICK j : j = KeyOf(f) /\ j = KeyOf(PointsTo(v, p))'
        BY <1>4, <2>1, <3>1, <3>3
      <4>2. Keyed(f)
        BY <1>4, <2>1, <3>1, <3>3
      <4>3. Off(j) = 0 /\ (p - Num(j)) % Places(v) = shift[v] % Places(v)
        BY <1>1, <2>1, <3>1, <4>1, <4>2 DEF KeysCongruent
      <4> QED
        BY <4>1, <4>3 DEF Off, Num
    <3> QED
      BY <3>2, <3>3
  <2>2. \A v, p \in Nat : 1 <= v /\ v < Newest /\ p < Places(v) => Keyed(PointsTo(v, p))'
    BY <1>1, <1>4, <1>7 DEF KeysCongruent
  <2>3. ASSUME Reached > 0 PROVE Keyed(PointsTo(Newest, TailOf(Newest)))'
    <3>1. Keyed(PointsTo(Newest, TailOf(Newest)))
      BY <1>1, <2>3 DEF KeysCongruent
    <3>2. PICK t \in Nat : t = TailOf(w) /\ t < z
      BY <1>1, <1>7, NewestIs
    <3>3. Keyed(PointsTo(w, t))'
      BY <1>4, <1>7, <3>1, <3>2
    <3>4. TailOf(w)' = t /\ Newest' = w
      BY <1>4, <1>7, <3>2
    <3> QED
      BY <3>3, <3>4 DEF Keyed, KeyOf, PointsTo, TailOf
  <2>4. /\ Reached' = Reached /\ Places(Newest)' = Places(Newest) /\ TailOf(Newest)' = TailOf(Newest)
    BY <1>4, <1>7 DEF Inserted, Places, TailOf
  <2> QED
    BY <1>1, <1>4, <2>1, <2>2, <2>3, <2>4 DEF KeysCongruent
<1>9. ASSUME NEW m \in Int
      PROVE  /\ EntryOf(shift, w, m)' = EntryOf(shift, w, m)
             /\ ValueOf(EntryOf(shift, w, m))' = ValueOf(EntryOf(shift, w, m))
             /\ KeyOf(EntryOf(shift, w, m))' = (IF EntryOf(shift, w, m) = e THEN k ELSE KeyOf(EntryOf(shift, w, m)))
             /\ Keyed(EntryOf(shift, w, m))' <=> Keyed(EntryOf(shift, w, m)) \/ EntryOf(shift, w, m) = e
  <2>1. PICK p \in Nat : p = (shift[w] + m) % Places(w) /\ p < Places(w)
    BY <1>1, <1>7, PlaceIs
  <2>2. EntryOf(shift, w, m) = PointsTo(w, p)
    BY <2>1 DEF EntryOf
  <2>3. EntryOf(shift, w, m)' = PointsTo(w, p)'
    BY <1>4, <1>7, <2>1, <2>2
  <2> QED
    BY <1>4, <1>7, <2>1, <2>2, <2>3 DEF KeyOf, ValueOf, Keyed
<1>10. KeysLatest(shift, low)'
  <2>1. ASSUME NEW m \in Int, n - z <= m, m < n
        PROVE  NumberedAs(low, m, EntryOf(shift, w, m))'
    <3>1. CASE m = n - z
      <4>1. EntryOf(shift, w, m) = e
        <5>1. EntryOf(shift, Newest, n - Places(Newest)) = EntryOf(shift, Newest, n)
          <6>1. n \in Int
            OBVIOUS
          <6> QED
            BY <1>1, <6>1, EntryAgain
        <5>2. n - Places(Newest) = m
          BY <1>7, <3>1
        <5> QED
          BY <1>3, <1>7, <5>1, <5>2
      <4>2. ValueOf(EntryOf(shift, w, m))' = 0
        BY <1>3, <1>9, <4>1 DEF KeySet
      <4>3. ppc' # "block" /\ Reached' = n /\ Places(Newest)' = z
        BY <1>4, <1>7 DEF Inserted, Places
      <4> QED
        BY <3>1, <4>2, <4>3 DEF NumberedAs
    <3>2. CASE m # n - z
      <4>1. EntryOf(shift, w, m) # e
        <5>1. ASSUME EntryOf(shift, w, m) = e PROVE FALSE
          <6>1. m - n < Places(Newest) /\ n - m < Places(Newest) /\ n \in Int
            BY <1>7, <2>1, <3>2
          <6>2. EntryOf(shift, Newest, m) = EntryOf(shift, Newest, n)
            BY <1>3, <1>7, <5>1
          <6>3. m = n
            BY <1>1, <6>1, <6>2, EntriesApart
          <6> QED
            BY <2>1, <6>3
        <5> QED
          BY <5>1
      <4>2. NumberedAs(low, m, EntryOf(shift, w, m))
        BY <1>1, <1>7, <2>1 DEF KeysLatest, Inserted
      <4>3. (low <= m /\ KeyOf(EntryOf(shift, w, m)) = Start(m)) \/ (m < low /\ ~ Keyed(EntryOf(shift, w, m)))
        BY <1>7, <3>2, <4>2 DEF NumberedAs, Inserted
      <4> QED
        BY <1>9, <4>1, <4>3 DEF NumberedAs, Start
    <3> QED
      BY <3>1, <3>2
  <2>2. low \in Nat /\ (low = 0 \/ low < Begun')
    BY <1>1 DEF KeysLatest, Inserted
  <2>3. Newest' = w /\ Places(w)' = z /\ Reached' = n
    BY <1>4, <1>7 DEF Inserted
  <2> QED
    BY <2>1, <2>2, <2>3 DEF KeysLatest, Places, EntryOf
<1>11. KeyInserted(e2, shift)'
  <2>1. EntryOf(shift, w, n)' = e /\ KeyOf(e)' = k
    BY <1>3, <1>7, <1>9
  <2>2. Num(tailIndex)' = n /\ Newest' = w
    BY <1>4, <1>7 DEF Inserted, Num
  <2> QED
    BY <1>2, <2>1, <2>2 DEF KeyInserted, EntryOf, KeyOf, Start, Num
<1> QED
  BY <1>6, <1>8, <1>10, <1>11 DEF KeysInv

LEMMA InsertedBlocks ==
  ASSUME RangeInv, NEW ent, NEW shift, NEW n \in Nat, NEW e, Inserted(ent, shift, e, n)
  PROVE  \A m \in Nat : /\ Unentered(m)' <=> Unentered(m)
                        /\ Entered(m)' <=> Entered(m)
                        /\ HasBlock(m)' <=> HasBlock(m)
                        /\ GoneIn(m)' = GoneIn(m)
<1>1. /\ \A m \in Nat : (Done(m)' <=> Done(m)) /\ GoneIn(m)' = GoneIn(m)
      /\ \A c \in Consumers, m \in Nat :
           (Clears(c, m)' <=> Clears(c, m)) /\ (Releases(c, m)' <=> Releases(c, m))
  BY ProducerKeeps DEF Inserted
<1>2. \A m : ~ Unentered(m)' /\ ~ Unentered(m)
  BY DEF Inserted, Unentered
<1>3. \A m \in Nat : Entered(m)' <=> Entered(m)
  BY <1>1, <1>2 DEF Inserted, Entered
<1> QED
  BY <1>1, <1>2, <1>3 DEF HasBlock

LEMMA InsertedEntries ==
  ASSUME CountInv, RangeInv, ListTyped, NEW ent, NEW blk, NEW shift, shift \in [Nat -> Int],
         EntriesRight(ent, blk, shift), blk \in [Nat -> Nat],
         \A m \in Nat : HasBlock(m) => blk[m] \in Blocks,
         NEW n \in Nat, NEW e \in Nat, Inserted(ent, shift, e, n),
         NEW e2, \A m \in Nat : m < n => e2[m] = ent[m]
  PROVE  EntriesRight(e2, blk, shift)'
<1>1. \A m \in Nat : Entered(m)' <=> Entered(m)
  BY InsertedBlocks
<1>2. PICK k \in Int : k = Start(n) /\ KeySet(e, k)
  BY StartNotOne DEF Inserted
<1>3. PICK w \in Nat : w = Newest /\ 1 <= w /\ w <= Newest
  BY NewestIs
<1>4. /\ Newest' = w /\ Places(w)' = Places(w) /\ Len(entries)' = Len(entries)
      /\ \A m : EntryOf(shift, w, m)' = EntryOf(shift, w, m)
  BY <1>2, <1>3, KeyPoints DEF KeySet
<1>5. ASSUME NEW m \in Nat, Entered(m)'
      PROVE  /\ Reached' - Places(w)' <= m /\ e2[m] = EntryOf(shift, w, m)'
             /\ KeyOf(e2[m])' = Start(m) /\ ValueOf(e2[m])' = blk[m]
  <2>1. Entered(m) /\ HasBlock(m) /\ m < n
    BY <1>1, <1>5 DEF HasBlock, Entered, Inserted
  <2>2. /\ Reached - Places(w) <= m /\ ent[m] = EntryOf(shift, w, m)
        /\ KeyOf(ent[m]) = Start(m) /\ ValueOf(ent[m]) = blk[m]
    BY <1>3, <2>1 DEF EntriesRight
  <2>3. ValueOf(ent[m]) # 0
    BY <2>1, <2>2 DEF Blocks
  <2>4. ent[m] # e
    BY <1>2, <2>3 DEF KeySet
  <2>5. PICK f \in Nat : f = ent[m] /\ 1 <= f /\ f <= Len(entries)
    <3>1. m \in Int
      OBVIOUS
    <3>2. /\ EntryOf(shift, w, m) \in Nat /\ 1 <= EntryOf(shift, w, m)
          /\ EntryOf(shift, w, m) <= Len(entries)
      BY <1>3, <3>1, PlaceIs
    <3> QED
      BY <2>2, <3>2
  <2>6. KeyOf(f)' = KeyOf(f) /\ ValueOf(f)' = ValueOf(f)
    BY <1>2, <2>4, <2>5 DEF KeySet
  <2>7. e2[m] = f
    BY <2>1, <2>5
  <2>8. Reached' = Reached
    BY DEF Inserted
  <2> QED
    BY <1>4, <2>2, <2>5, <2>6, <2>7, <2>8 DEF KeyOf, ValueOf
<1>6. ASSUME NEW f \in Nat, 1 <= f, f <= Len(entries)', ValueOf(f)' # 0
      PROVE  \E m \in Nat : Entered(m)' /\ e2[m] = f
  <2>1. ValueOf(f) # 0 /\ f <= Len(entries)
    BY <1>2, <1>4, <1>6 DEF KeySet
  <2>2. PICK m \in Nat : Entered(m) /\ ent[m] = f
    BY <1>6, <2>1 DEF EntriesRight
  <2>3. m < n
    BY <2>2 DEF Entered, Inserted
  <2> QED
    BY <1>1, <2>2, <2>3
<1> QED
  BY <1>4, <1>5, <1>6 DEF EntriesRight, KeyOf, ValueOf, EntryOf, Places, Start

LEMMA ListByInsertKey ==
  ASSUME CountInv, RangeInv, NEW ent, NEW blk, NEW shift, NEW low,
         ImplicitWell(ent, blk, shift, low), I!InsertKey
  PROVE  \E e2 : ImplicitWell(e2, blk, shift, low)'
<1>1. PICK n \in Nat, e \in Nat : Inserted(ent, shift, e, n) /\ 1 <= e /\ e <= Len(entries)
  BY InsertKeyInserts
<1>2. PICK e2 : e2 = [ent EXCEPT ![n] = e]
  OBVIOUS
<1>3. /\ ent \in [Nat -> Nat] /\ blk \in [Nat -> Nat] /\ KeysInv(ent, shift, low) /\ BlocksRight(blk)
      /\ ListTyped /\ shift \in [Nat -> Int] /\ EntriesRight(ent, blk, shift)
      /\ AllSeek(ent, blk, shift) /\ CountsRight(blk) /\ BlocksTyped /\ EmptiedByOne
  BY DEF ImplicitWell, KeysInv, KeysCongruent
<1>4. e2 \in [Nat -> Nat] /\ e2[n] = e /\ \A m \in Nat : m < n => e2[m] = ent[m]
  BY <1>2, <1>3
<1>5. KeysInv(e2, shift, low)'
  BY <1>1, <1>3, <1>4, InsertedKeys
<1>6. EntriesRight(e2, blk, shift)'
  <2>1. \A m \in Nat : HasBlock(m) => blk[m] \in Blocks
    BY <1>3 DEF BlocksRight
  <2>2. Inserted(ent, shift, e, n) /\ \A m \in Nat : m < n => e2[m] = ent[m]
    BY <1>1, <1>4
  <2> QED
    BY <1>3, <2>1, <2>2, InsertedEntries
<1>7. /\ \A m \in Nat : /\ Unentered(m)' <=> Unentered(m)
                        /\ Entered(m)' <=> Entered(m)
                        /\ HasBlock(m)' <=> HasBlock(m)
                        /\ GoneIn(m)' = GoneIn(m)
      /\ UNCHANGED <<headIndex, cons, tailBlock, dequeued, free>>
      /\ ppc' # "value" /\ Begun = n /\ Blocks' = Blocks
  BY <1>1, InsertedBlocks DEF Inserted, Blocks
<1>8. BlocksRight(blk)' /\ CountsRight(blk)' /\ BlocksTyped'
  BY <1>3, <1>7 DEF BlocksRight, CountsRight, BlocksTyped
<1>9. EmptiedByOne'
  BY <1>3, <1>7, ProducerKeeps
<1>10. AllSeek(e2, blk, shift)'
  <2>1. ListGrows(shift, shift)
    BY <1>1, <1>3, KeyGrows DEF Inserted
  <2> QED
    BY <1>3, <1>4, <1>7, <2>1, ProducerSeeks
<1>11. ImplicitWell(e2, blk, shift, low)'
  BY <1>3, <1>4, <1>5, <1>6, <1>8, <1>9, <1>10 DEF ImplicitWell
<1> QED
  BY <1>11
=============================================================================

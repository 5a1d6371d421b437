------------------------------ MODULE AudioProofs ------------------------------
(***************************************************************************)
(* What the persister, the flush of touches, the eviction, the warmer and  *)
(* a restart keep of the cache: pins, the audio of timestamps, the size    *)
(* that an eviction leaves, and audio that was announced.  And what the    *)
(* browser plays: the block under the cursor, whatever answers come late.  *)
(***************************************************************************)
EXTENDS Audio, SumTheorems

-----------------------------------------------------------------------------
(* Sequences of variants                                                    *)

LEMMA RangeOfEmpty == Range(<<>>) = {}
BY DEF Range

LEMMA RangeOfAppend ==
    ASSUME NEW S, NEW s \in Seq(S), NEW x \in S
    PROVE  /\ Append(s, x) \in Seq(S)
           /\ Range(Append(s, x)) = Range(s) \cup {x}
<1>1. Append(s, x) \in Seq(S) /\ Len(Append(s, x)) = Len(s) + 1 /\ Len(s) \in Nat
      OBVIOUS
<1>2. \A i \in 1..Len(s) : Append(s, x)[i] = s[i]
      OBVIOUS
<1>3. Append(s, x)[Len(s) + 1] = x
      OBVIOUS
<1>4. DOMAIN s = 1..Len(s) /\ DOMAIN Append(s, x) = 1..Len(s) + 1
      BY <1>1
<1>5. ASSUME NEW y \in Range(Append(s, x))  PROVE y \in Range(s) \cup {x}
  <2>1. PICK i \in 1..Len(s) + 1 : y = Append(s, x)[i]
        BY <1>4, <1>5 DEF Range
  <2>2. CASE i = Len(s) + 1
        BY <1>3, <2>1, <2>2
  <2>3. CASE i # Len(s) + 1
    <3>1. i \in 1..Len(s)
          BY <1>1, <2>3
    <3>2. y = s[i]
          BY <1>2, <2>1, <3>1
    <3>3. QED
          BY <1>4, <3>1, <3>2 DEF Range
  <2>4. QED
        BY <2>2, <2>3
<1>6. ASSUME NEW y \in Range(s)  PROVE y \in Range(Append(s, x))
  <2>1. PICK i \in 1..Len(s) : y = s[i]
        BY <1>4, <1>6 DEF Range
  <2>2. y = Append(s, x)[i] /\ i \in 1..Len(s) + 1
        BY <1>1, <1>2, <2>1
  <2>3. QED
        BY <1>4, <2>2 DEF Range
<1>7. x \in Range(Append(s, x))
  <2>1. Len(s) + 1 \in 1..Len(s) + 1
        BY <1>1
  <2>2. QED
        BY <1>3, <1>4, <2>1 DEF Range
<1>8. QED
      BY <1>1, <1>5, <1>6, <1>7

LEMMA RangeOfTail ==
    ASSUME NEW S, NEW s \in Seq(S), s # <<>>
    PROVE  /\ Head(s) \in S /\ Tail(s) \in Seq(S)
           /\ Range(s) = {Head(s)} \cup Range(Tail(s))
<1>1. Len(s) \in Nat /\ Len(s) # 0 /\ Head(s) = s[1] /\ Tail(s) \in Seq(S) /\ Len(Tail(s)) = Len(s) - 1
      OBVIOUS
<1>2. DOMAIN s = 1..Len(s) /\ DOMAIN Tail(s) = 1..Len(s) - 1
      BY <1>1
<1>3. \A i \in 1..Len(s) - 1 : Tail(s)[i] = s[i + 1]
      BY <1>1
<1>4. 1 \in DOMAIN s /\ Head(s) \in Range(s) /\ Head(s) \in S
      BY <1>1, <1>2 DEF Range
<1>5. ASSUME NEW y \in Range(s)  PROVE y \in {Head(s)} \cup Range(Tail(s))
  <2>1. PICK i \in 1..Len(s) : y = s[i]
        BY <1>2, <1>5 DEF Range
  <2>2. CASE i = 1
        BY <1>1, <2>1, <2>2
  <2>3. CASE i # 1
    <3>1. i - 1 \in 1..Len(s) - 1 /\ (i - 1) + 1 = i
          BY <1>1, <2>3
    <3>2. y = Tail(s)[i - 1]
          BY <1>3, <2>1, <3>1
    <3>3. QED
          BY <1>2, <3>1, <3>2 DEF Range
  <2>4. QED
        BY <2>2, <2>3
<1>6. ASSUME NEW y \in Range(Tail(s))  PROVE y \in Range(s)
  <2>1. PICK i \in 1..Len(s) - 1 : y = Tail(s)[i]
        BY <1>2, <1>6 DEF Range
  <2>2. y = s[i + 1] /\ i + 1 \in 1..Len(s)
        BY <1>1, <1>3, <2>1
  <2>3. QED
        BY <1>2, <2>2 DEF Range
<1>7. QED
      BY <1>1, <1>4, <1>5, <1>6

LEMMA RangeInSet == ASSUME NEW S, NEW s \in Seq(S)  PROVE Range(s) \subseteq S
BY DEF Range

-----------------------------------------------------------------------------
(* Rows                                                                     *)

LEMMA AudioRows ==
    /\ \A v \in Variants : Audio(v) \in Rows
    /\ \A v, w : Audio(v) = Audio(w) => v = w
    /\ \A v, w : Audio(v) # Stamps(w)
    /\ \A v, w : Stamps(v) = Stamps(w) => v = w
<1>1. \A v \in Variants : Audio(v) \in Rows
      BY DEF Rows
<1>2. \A v : Audio(v).variant = v /\ Audio(v).part = "audio"
      BY DEF Audio
<1>3. \A v : Stamps(v).variant = v /\ Stamps(v).part = "timestamps"
      BY DEF Stamps
<1>4. QED
      BY <1>1, <1>2, <1>3

LEMMA StampRows == \A v : Stamps(v) \in Rows <=> v \in Timed
<1>1. ASSUME NEW v, Stamps(v) \in Rows  PROVE v \in Timed
  <2>1. \A w : Stamps(v) # Audio(w)
        BY AudioRows
  <2>2. PICK w \in Timed : Stamps(v) = Stamps(w)
        BY <1>1, <2>1 DEF Rows
  <2>3. QED
        BY <2>2, AudioRows
<1>2. QED
      BY <1>1 DEF Rows

LEMMA RowKinds ==
    ASSUME NEW r \in Rows
    PROVE  /\ r.variant \in Variants
           /\ r = Audio(r.variant) \/ r = Stamps(r.variant)
<1>1. CASE \E v \in Variants : r = Audio(v)
  <2>1. PICK v \in Variants : r = Audio(v)
        BY <1>1
  <2>2. r.variant = v
        BY <2>1 DEF Audio
  <2>3. QED
        BY <2>1, <2>2
<1>2. CASE \E v \in Timed : r = Stamps(v)
  <2>1. PICK v \in Timed : r = Stamps(v)
        BY <1>2
  <2>2. r.variant = v /\ v \in Variants
        BY <2>1, CacheAssumption DEF Stamps
  <2>3. QED
        BY <2>1, <2>2
<1>3. QED
      BY <1>1, <1>2 DEF Rows

LEMMA RowsFinite == IsFiniteSet(Rows)
<1>1. IsFiniteSet(Variants) /\ IsFiniteSet(Timed)
      BY CacheAssumption, FS_Subset
<1>2. PICK audio : audio = [v \in Variants |-> Audio(v)]
      OBVIOUS
<1>3. PICK stamps : stamps = [v \in Timed |-> Stamps(v)]
      OBVIOUS
<1>4. PICK A, B : A = {Audio(v) : v \in Variants} /\ B = {Stamps(v) : v \in Timed}
      OBVIOUS
<1>5. audio \in Surjection(Variants, A) /\ stamps \in Surjection(Timed, B)
      BY <1>2, <1>3, <1>4 DEF Surjection
<1>6. IsFiniteSet(A) /\ IsFiniteSet(B)
      BY <1>1, <1>5, FS_Surjection
<1>7. IsFiniteSet(A \cup B)
      BY <1>6, FS_Union
<1>8. QED
      BY <1>4, <1>7 DEF Rows

LEMMA SizesNat == \A r \in Rows : Size[r] \in Nat
<1>1. ASSUME NEW r \in Rows  PROVE Size[r] \in Nat
  <2>1. Size[r] = IF r.part = "audio" THEN AudioSize[r.variant] ELSE StampSize
        BY DEF Size
  <2>2. AudioSize[r.variant] \in Nat /\ StampSize \in Nat
        BY RowKinds, CacheAssumption
  <2>3. QED
        BY <2>1, <2>2
<1>2. QED
      BY <1>1

-----------------------------------------------------------------------------
(* Tables                                                                   *)

Kinds == {"none", "free", "pinned"}

\* last_accessed orders rows
Orders(older, rows) ==
    /\ older \subseteq rows \X rows
    /\ \A r \in Rows : <<r, r>> \notin older
    /\ \A q, r, s \in Rows : <<q, r>> \in older /\ <<r, s>> \in older => <<q, s>> \in older

LEMMA TablesAre ==
    \A t : TableOK(t) <=> /\ t \in Table
                          /\ t.pin \in [Rows -> Kinds]
                          /\ Held(t) \subseteq Rows
                          /\ Orders(t.older, Held(t))
BY DEF TableOK, Table, Kinds, Orders, Held

LEMMA MakeTable ==
    ASSUME NEW pin \in [Rows -> Kinds], NEW older,
           Orders(older, {r \in Rows : pin[r] # "none"})
    PROVE  TableOK([pin |-> pin, older |-> older])
<1>1. PICK t : t = [pin |-> pin, older |-> older]
      OBVIOUS
<1>2. t.pin = pin /\ t.older = older
      BY <1>1
<1>3. Held(t) = {r \in Rows : pin[r] # "none"}
      BY <1>2 DEF Held, Holds
<1>4. older \subseteq Rows \X Rows
      BY DEF Orders
<1>5. t \in Table
      BY <1>1, <1>4 DEF Table, Kinds
<1>6. QED
      BY <1>1, <1>2, <1>3, <1>5, TablesAre

\* Rows that become the most recent ones leave an order
LEMMA RenewedOrders ==
    ASSUME NEW t, TableOK(t), NEW rows \in SUBSET Rows
    PROVE  Orders(Renewed(t, rows), Held(t) \cup rows)
<1>1. Orders(t.older, Held(t)) /\ Held(t) \subseteq Rows
      BY TablesAre
<1>2. PICK older : older = Renewed(t, rows)
      OBVIOUS
<1>3. ASSUME NEW q, NEW r
      PROVE  <<q, r>> \in older <=> \/ <<q, r>> \in t.older /\ q \notin rows /\ r \notin rows
                                    \/ q \in Held(t) /\ q \notin rows /\ r \in rows
      BY <1>2 DEF Renewed, Except
<1>4. older \subseteq (Held(t) \cup rows) \X (Held(t) \cup rows)
  <2>1. Except(t.older, rows) \subseteq Held(t) \X Held(t)
        BY <1>1 DEF Except, Orders
  <2>2. QED
        BY <1>2, <2>1 DEF Renewed
<1>5. \A r \in Rows : <<r, r>> \notin older
      BY <1>1, <1>3 DEF Orders
<1>6. ASSUME NEW q \in Rows, NEW r \in Rows, NEW s \in Rows, <<q, r>> \in older, <<r, s>> \in older
      PROVE  <<q, s>> \in older
  <2>1. q \notin rows /\ r \notin rows /\ <<q, r>> \in t.older
        BY <1>3, <1>6
  <2>2. CASE s \in rows
    <3>1. q \in Held(t)
          BY <1>1, <2>1 DEF Orders
    <3>2. QED
          BY <1>3, <2>1, <2>2, <3>1
  <2>3. CASE s \notin rows
    <3>1. <<r, s>> \in t.older
          BY <1>3, <1>6, <2>3
    <3>2. <<q, s>> \in t.older
          BY <1>1, <2>1, <3>1 DEF Orders
    <3>3. QED
          BY <1>3, <2>1, <2>3, <3>2
  <2>4. QED
        BY <2>2, <2>3
<1>7. QED
      BY <1>2, <1>4, <1>5, <1>6 DEF Orders

LEMMA ExceptOrders ==
    ASSUME NEW t, TableOK(t), NEW rows
    PROVE  Orders(Except(t.older, rows), Held(t) \ rows)
<1>1. Orders(t.older, Held(t)) /\ Held(t) \subseteq Rows
      BY TablesAre
<1>2. PICK older : older = Except(t.older, rows)
      OBVIOUS
<1>3. ASSUME NEW q, NEW r
      PROVE  <<q, r>> \in older <=> <<q, r>> \in t.older /\ q \notin rows /\ r \notin rows
      BY <1>2 DEF Except
<1>4. older \subseteq (Held(t) \ rows) \X (Held(t) \ rows)
      BY <1>1, <1>2 DEF Except, Orders
<1>5. \A r \in Rows : <<r, r>> \notin older
      BY <1>1, <1>3 DEF Orders
<1>6. \A q, r, s \in Rows : <<q, r>> \in older /\ <<r, s>> \in older => <<q, s>> \in older
      BY <1>1, <1>3 DEF Orders
<1>7. QED
      BY <1>2, <1>4, <1>5, <1>6 DEF Orders

\* store: this row is there and free, no other changes
LEMMA ReplacedTable ==
    ASSUME NEW t, TableOK(t), NEW r \in Rows
    PROVE  /\ TableOK(Replaced(t, r))
           /\ \A q \in Rows : Replaced(t, r).pin[q] = IF q = r THEN "free" ELSE t.pin[q]
<1>1. t.pin \in [Rows -> Kinds]
      BY TablesAre
<1>2. PICK pin : pin = [t.pin EXCEPT ![r] = "free"]
      OBVIOUS
<1>3. pin \in [Rows -> Kinds] /\ \A q \in Rows : pin[q] = IF q = r THEN "free" ELSE t.pin[q]
      BY <1>1, <1>2 DEF Kinds
<1>4. {q \in Rows : pin[q] # "none"} = Held(t) \cup {r}
      BY <1>3 DEF Held, Holds
<1>5. Orders(Renewed(t, {r}), Held(t) \cup {r})
      BY RenewedOrders
<1>6. PICK older : older = Renewed(t, {r})
      OBVIOUS
<1>7. Replaced(t, r) = [pin |-> pin, older |-> older]
      BY <1>2, <1>6 DEF Replaced
<1>8. TableOK([pin |-> pin, older |-> older])
      BY <1>3, <1>4, <1>5, <1>6, MakeTable
<1>9. QED
      BY <1>3, <1>7, <1>8

\* The flush of touches moves rows in time only
LEMMA FlushedTable ==
    ASSUME NEW t, TableOK(t)
    PROVE  TableOK(Flushed(t)) /\ Flushed(t).pin = t.pin
<1>1. t.pin \in [Rows -> Kinds] /\ t \in Table /\ Held(t) \subseteq Rows
      BY TablesAre
<1>2. PICK rows \in SUBSET Rows : rows = touched \cap Held(t)
      BY <1>1
<1>3. Orders(Renewed(t, rows), Held(t) \cup rows)
      BY RenewedOrders
<1>4. Held(t) \cup rows = {r \in Rows : t.pin[r] # "none"}
      BY <1>2 DEF Held, Holds
<1>5. PICK older : older = Renewed(t, rows)
      OBVIOUS
<1>6. Flushed(t) = [pin |-> t.pin, older |-> older]
      BY <1>1, <1>2, <1>5 DEF Flushed, Table
<1>7. TableOK([pin |-> t.pin, older |-> older])
      BY <1>1, <1>3, <1>4, <1>5, MakeTable
<1>8. QED
      BY <1>6, <1>7

LEMMA DroppedTable ==
    ASSUME NEW t, TableOK(t), NEW rows
    PROVE  /\ TableOK(Dropped(t, rows))
           /\ \A r \in Rows : Dropped(t, rows).pin[r] = IF r \in rows THEN "none" ELSE t.pin[r]
<1>1. t.pin \in [Rows -> Kinds]
      BY TablesAre
<1>2. PICK pin : pin = [r \in Rows |-> IF r \in rows THEN "none" ELSE t.pin[r]]
      OBVIOUS
<1>3. pin \in [Rows -> Kinds] /\ \A r \in Rows : pin[r] = IF r \in rows THEN "none" ELSE t.pin[r]
      BY <1>1, <1>2 DEF Kinds
<1>4. {r \in Rows : pin[r] # "none"} = Held(t) \ rows
      BY <1>3 DEF Held, Holds
<1>5. PICK older : older = Except(t.older, rows)
      OBVIOUS
<1>6. Orders(older, Held(t) \ rows)
      BY <1>5, ExceptOrders
<1>7. Dropped(t, rows) = [pin |-> pin, older |-> older]
      BY <1>2, <1>5 DEF Dropped
<1>8. TableOK([pin |-> pin, older |-> older])
      BY <1>3, <1>4, <1>6, MakeTable
<1>9. QED
      BY <1>3, <1>7, <1>8

\* pin and unpin_all change flags of rows that are there
LEMMA RepinnedTable ==
    ASSUME NEW t, TableOK(t), NEW pin \in [Rows -> Kinds],
           \A r \in Rows : pin[r] = "none" <=> t.pin[r] = "none"
    PROVE  TableOK([t EXCEPT !.pin = pin]) /\ [t EXCEPT !.pin = pin].pin = pin
<1>1. t \in Table /\ Orders(t.older, Held(t))
      BY TablesAre
<1>2. PICK older : older = t.older
      OBVIOUS
<1>3. [t EXCEPT !.pin = pin] = [pin |-> pin, older |-> older]
      BY <1>1, <1>2 DEF Table
<1>4. {r \in Rows : pin[r] # "none"} = Held(t)
      BY DEF Held, Holds
<1>5. TableOK([pin |-> pin, older |-> older])
      BY <1>1, <1>2, <1>4, MakeTable
<1>6. QED
      BY <1>3, <1>5

-----------------------------------------------------------------------------
(* What an eviction leaves                                                  *)

LEMMA TotalsNat ==
    ASSUME NEW rows \in SUBSET Rows
    PROVE  IsFiniteSet(rows) /\ Cardinality(rows) \in Nat /\ Total(rows) \in Nat
<1>1. IsFiniteSet(rows)
      BY RowsFinite, FS_Subset
<1>2. \A r \in rows : Size[r] \in Nat
      BY SizesNat
<1>3. SumOf(Size, rows) \in Nat
      BY <1>1, <1>2, SumNat
<1>4. QED
      BY <1>1, <1>3, FS_CardinalityType DEF Total

\* Rows of one size take their number times that size
LEMMA UniformTotal ==
    ASSUME NEW rows \in SUBSET Rows, Uniform(rows), NEW s \in rows
    PROVE  \A T \in SUBSET rows : Total(T) = Cardinality(T) * Size[s]
<1> DEFINE Good == {T \in SUBSET rows : Total(T) = Cardinality(T) * Size[s]}
<1>1. IsFiniteSet(rows) /\ Size[s] \in Nat
      BY TotalsNat, SizesNat
<1>2. {} \in Good
      BY <1>1, SumEmpty, FS_EmptySet DEF Total
<1>3. ASSUME NEW T \in SUBSET rows, NEW x \in T, T \ {x} \in Good
      PROVE  T \in Good
  <2>1. T \in SUBSET Rows /\ T \ {x} \in SUBSET Rows
        OBVIOUS
  <2>2. IsFiniteSet(T) /\ Cardinality(T) \in Nat /\ Cardinality(T \ {x}) \in Nat
        BY <2>1, TotalsNat
  <2>3. \A y \in T : Size[y] \in Int
        BY <2>1, SizesNat
  <2>4. Total(T) = Size[x] + Total(T \ {x})
        BY <2>2, <2>3, SumRemove DEF Total
  <2>5. Size[x] = Size[s]
        BY <1>3 DEF Uniform
  <2>6. Cardinality(T \ {x}) = Cardinality(T) - 1
        BY <2>2, FS_RemoveElement
  <2>7. Total(T \ {x}) = Cardinality(T \ {x}) * Size[s]
        BY <1>3
  <2>8. PICK k \in Nat, m \in Nat, z \in Nat :
            k = Cardinality(T) /\ m = Cardinality(T \ {x}) /\ z = Size[s]
        BY <1>1, <2>2
  <2>9. m = k - 1 /\ Total(T) = z + m * z
        BY <2>4, <2>5, <2>6, <2>7, <2>8
  <2>10. z + m * z = k * z
    <3>1. m + 1 = k
          BY <2>9
    <3>2. (m + 1) * z = m * z + z
          OBVIOUS
    <3>3. QED
          BY <3>1, <3>2
  <2>11. QED
        BY <2>8, <2>9, <2>10
<1> HIDE DEF Good
<1>4. \A T \in SUBSET rows : T \in Good
      BY <1>1, <1>2, <1>3, SubsetInduction
<1>5. QED
      BY <1>4 DEF Good

LEMMA Division ==
    ASSUME NEW a \in Nat, NEW b \in Nat, b > 0
    PROVE  a \div b \in Nat /\ a < b * ((a \div b) + 1)
OBVIOUS

LEMMA NatTimes ==
    ASSUME NEW a \in Nat, NEW b \in Nat
    PROVE  a * b \in Nat
OBVIOUS

LEMMA TimesMonotone ==
    ASSUME NEW a \in Nat, NEW b \in Nat, NEW c \in Nat, a <= b
    PROVE  a * c <= b * c
OBVIOUS

LEMMA TimesCancel ==
    ASSUME NEW a \in Nat, NEW b \in Nat, NEW c \in Nat, a * c < b * c
    PROVE  a < b
<1>1. CASE b <= a
  <2>1. b * c <= a * c
        BY <1>1, TimesMonotone
  <2>2. QED
        BY <2>1, NatTimes
<1>2. QED
      BY <1>1

\* A fifth more than the excess over the average leaves the limit or less
LEMMA EstimateEnough ==
    ASSUME NEW n \in Nat, NEW z \in Nat, NEW limit \in Nat, n * z > limit,
           NEW q, q = (((n * z - limit) * n * 12) \div ((n * z) * 10)) + 1
    PROVE  /\ q \in Nat
           /\ q <= n => (n - q) * z <= limit
<1>1. PICK total \in Nat : total = n * z
      BY NatTimes
<1>2. PICK excess \in Nat : excess = n * z - limit /\ excess > 0
      BY <1>1
<1>3. PICK a \in Nat : a = (excess * n) * 12
      BY NatTimes
<1>4. PICK b \in Nat : b = total * 10 /\ b > 0
      BY <1>1
<1>5. q = (a \div b) + 1
      BY <1>1, <1>2, <1>3, <1>4
<1>6. (a \div b) \in Nat /\ a < b * ((a \div b) + 1)
      BY <1>4, Division
<1>7. q \in Nat /\ a < b * q
      BY <1>5, <1>6
<1>8. (excess * 12) * n < ((z * q) * 10) * n
  <2>1. a = (excess * 12) * n
        BY <1>3
  <2>2. b * q = ((z * q) * 10) * n
    <3>1. b = (n * z) * 10
          BY <1>1, <1>4
    <3>2. ((n * z) * 10) * q = ((z * q) * 10) * n
          BY <1>7
    <3>3. QED
          BY <3>1, <3>2
  <2>3. QED
        BY <1>7, <2>1, <2>2
<1>9. PICK zq \in Nat : zq = z * q
      BY <1>7, NatTimes
<1>10. excess * 12 < zq * 10
  <2>1. excess * 12 \in Nat /\ zq * 10 \in Nat
        BY NatTimes
  <2>2. (excess * 12) * n < (zq * 10) * n
        BY <1>8, <1>9
  <2>3. QED
        BY <2>1, <2>2, TimesCancel
<1>11. excess <= zq
       BY <1>10
<1>12. (n - q) * z = total - zq
       BY <1>1, <1>7, <1>9
<1>13. QED
       BY <1>1, <1>2, <1>7, <1>11, <1>12

LEMMA EstimateNat ==
    ASSUME NEW rows \in SUBSET Rows, Total(rows) > MaxSize
    PROVE  Estimate(rows) \in Nat
<1>1. PICK n \in Nat, total \in Nat : n = Cardinality(rows) /\ total = Total(rows)
      BY TotalsNat
<1>2. MaxSize \in Nat /\ total > MaxSize
      BY <1>1, CacheAssumption
<1>3. PICK a \in Nat : a = ((total - MaxSize) * n) * 12
  <2>1. PICK excess \in Nat : excess = total - MaxSize
        BY <1>2
  <2>2. (excess * n) * 12 \in Nat
        BY NatTimes
  <2>3. QED
        BY <2>1, <2>2
<1>4. PICK b \in Nat : b = total * 10 /\ b > 0
      BY <1>2
<1>5. Estimate(rows) = (a \div b) + 1
      BY <1>1, <1>3, <1>4 DEF Estimate
<1>6. (a \div b) \in Nat
      BY <1>4, Division
<1>7. QED
      BY <1>5, <1>6

LEMMA VictimsSuffice ==
    ASSUME NEW t, NEW rows, rows = FreeRows(t), Uniform(rows), Total(rows) > MaxSize,
           NEW victims \in Victims(t, Estimate(rows))
    PROVE  Total(rows \ victims) <= MaxSize
<1>1. rows \in SUBSET Rows /\ victims \in SUBSET rows /\ MaxSize \in Nat
      BY CacheAssumption DEF FreeRows, Victims, Oldest
<1>2. IsFiniteSet(rows) /\ Cardinality(rows) \in Nat /\ Total(rows) \in Nat
      BY <1>1, TotalsNat
<1>3. Total({}) = 0
      BY SumEmpty DEF Total
<1>4. CASE victims = rows
      BY <1>1, <1>3, <1>4
<1>5. CASE victims # rows
  <2>1. PICK r \in rows : TRUE
        BY <1>1, <1>5
  <2>2. Total(rows) = Cardinality(rows) * Size[r]
        /\ Total(rows \ victims) = Cardinality(rows \ victims) * Size[r]
        BY <1>1, UniformTotal
  <2>3. Cardinality(victims) = Estimate(rows)
        BY <1>5 DEF Victims, Oldest
  <2>4. Cardinality(rows \ victims) = Cardinality(rows) - Cardinality(victims)
    <3>1. rows \cap victims = victims
          BY <1>1
    <3>2. Cardinality(rows \ victims) = Cardinality(rows) - Cardinality(rows \cap victims)
          BY <1>2, FS_Difference
    <3>3. QED
          BY <3>1, <3>2
  <2>5. Cardinality(victims) <= Cardinality(rows)
        BY <1>1, <1>2, FS_Subset
  <2>6. PICK n \in Nat, z \in Nat : n = Cardinality(rows) /\ z = Size[r]
        BY <1>1, <1>2, SizesNat
  <2>7. PICK q : q = (((n * z - MaxSize) * n * 12) \div ((n * z) * 10)) + 1
        OBVIOUS
  <2>8. Estimate(rows) = q /\ n * z > MaxSize
        BY <2>2, <2>6, <2>7 DEF Estimate
  <2>9. q \in Nat /\ (q <= n => (n - q) * z <= MaxSize)
        BY <1>1, <2>7, <2>8, EstimateEnough
  <2>10. Total(rows \ victims) = (n - q) * z /\ q <= n
        BY <2>2, <2>3, <2>4, <2>5, <2>6, <2>8
  <2>11. QED
        BY <2>9, <2>10
<1>6. QED
      BY <1>4, <1>5

-----------------------------------------------------------------------------
(* The inductive invariant. Two facts are about a table that is being      *)
(* written: what was committed is still there, so that a commit takes      *)
(* nothing away, and timestamps are written while their audio is there.    *)
(* The rest is where an announced variant is at each point of the          *)
(* hand-over, while no failure has happened.                               *)

TableHas(v) == Holds(table, Audio(v)) \/ Audio(v) \in evicted
DiskHas(v)  == Holds(disk, Audio(v)) \/ Audio(v) \in evicted

CommittedStays == \A r \in Rows : Holds(disk, r) => Holds(table, r)

StampsStored == \A v \in Timed :
    /\ Holds(table, Stamps(v)) => TableHas(v)
    /\ Holds(disk, Stamps(v)) => DiskHas(v)

SecondRow == ppc = "second" =>
    todo # <<>> /\ Stamps(Head(todo)) \in found /\ TableHas(Head(todo))

QuotaRight == ppc = "evict" => Total(counted) > MaxSize /\ quota = Estimate(counted)

Carried == finalizing \cup Range(queue) \cup Range(batch)
InRedis == \A v \in Carried : Audio(v) \in hot
Located == \A v \in announced : v \in Carried \/ DiskHas(v)
AllFound == ppc \in {"stamps", "write", "second"} => \A v \in Range(batch) : Audio(v) \in found
Written == ppc \in {"write", "second"} => \A v \in Range(batch) : v \in Range(todo) \/ TableHas(v)
Committed == ppc \in {"measure", "evict"} => \A v \in Range(batch) : DiskHas(v)
HandedOver == InRedis /\ Located /\ AllFound /\ Written /\ Committed

CacheInd ==
    /\ TypeOK /\ PinsHold
    /\ CommittedStays /\ StampsStored /\ SecondRow /\ QuotaRight
    /\ events = 0 => HandedOver

-----------------------------------------------------------------------------
(* What a step may do to the tables: the six ways they move                 *)

Rests == UNCHANGED <<table, disk, open, evicted, shielded>>

Stores(r) ==
    /\ TableOK(table')
    /\ \A q \in Rows : table'.pin[q] = IF q = r THEN "free" ELSE table.pin[q]
    /\ open' = TRUE
    /\ \A v \in shielded' : v \in shielded /\ Audio(v) # r
    /\ UNCHANGED <<disk, evicted>>

Commits ==
    /\ TableOK(table') /\ table'.pin = table.pin /\ disk' = table' /\ open' = FALSE
    /\ UNCHANGED <<evicted, shielded>>

Evicts(rows) ==
    /\ rows \subseteq FreeRows(table)
    /\ TableOK(table') /\ disk' = table' /\ open' = FALSE
    /\ \A r \in Rows : table'.pin[r] = IF r \in rows THEN "none" ELSE table.pin[r]
    /\ evicted' = evicted \cup rows
    /\ UNCHANGED shielded

Repins ==
    /\ TableOK(table') /\ disk' = table'
    /\ \A r \in Rows : table'.pin[r] = "none" <=> table.pin[r] = "none"
    /\ \A v \in shielded' : v \in Variants /\ table'.pin[Audio(v)] = "pinned"
    /\ UNCHANGED <<open, evicted>>

RollsBack ==
    /\ table' = disk /\ open' = FALSE /\ UNCHANGED <<disk, evicted, shielded>>
    /\ Event /\ ppc' = "wait"

\* The step is not a restart
Runs == events' = 0 \/ ppc' # "wait"

TablesMove ==
    \/ Rests
    \/ \E r \in Rows : Stores(r) /\ (r.part = "timestamps" => r = Stamps(Head(todo)) /\ ppc = "second")
    \/ Commits
    \/ \E rows \in SUBSET Rows : Evicts(rows)
    \/ Repins
    \/ RollsBack

LEMMA WritingMoves ==
    ASSUME TypeOK, SecondRow, WriteAudio \/ WriteStamps
    PROVE  TablesMove
<1>1. TableOK(table) /\ todo \in Seq(Variants) /\ found \subseteq Rows /\ shielded \subseteq Variants
      BY DEF TypeOK
<1>2. CASE WriteAudio
  <2>1. todo # <<>> /\ table' = Replaced(table, Audio(Head(todo))) /\ open' = TRUE
        /\ shielded' = shielded \ {Head(todo)} /\ UNCHANGED <<disk, evicted>>
        BY <1>2 DEF WriteAudio
  <2>2. PICK v \in Variants : v = Head(todo)
        BY <1>1, <2>1, RangeOfTail
  <2>3. PICK r \in Rows : r = Audio(v)
        BY AudioRows
  <2>4. table' = Replaced(table, r)
        BY <2>1, <2>2, <2>3
  <2>5. TableOK(table') /\ \A q \in Rows : table'.pin[q] = IF q = r THEN "free" ELSE table.pin[q]
        BY <1>1, <2>4, ReplacedTable
  <2>6. \A w \in shielded' : w \in shielded /\ Audio(w) # r
        BY <2>1, <2>2, <2>3, AudioRows
  <2>7. Stores(r)
        BY <2>1, <2>5, <2>6 DEF Stores
  <2>8. r.part # "timestamps"
        BY <2>3 DEF Audio
  <2>9. QED
        BY <2>7, <2>8 DEF TablesMove
<1>3. CASE WriteStamps
  <2>1. ppc = "second" /\ table' = Replaced(table, Stamps(Head(todo))) /\ open' = TRUE
        /\ UNCHANGED <<disk, evicted, shielded>>
        BY <1>3 DEF WriteStamps
  <2>2. Stamps(Head(todo)) \in Rows
        BY <1>1, <2>1 DEF SecondRow
  <2>3. PICK r \in Rows : r = Stamps(Head(todo))
        BY <2>2
  <2>4. table' = Replaced(table, r)
        BY <2>1, <2>3
  <2>5. TableOK(table') /\ \A q \in Rows : table'.pin[q] = IF q = r THEN "free" ELSE table.pin[q]
        BY <1>1, <2>4, ReplacedTable
  <2>6. \A w \in shielded' : w \in shielded /\ Audio(w) # r
        BY <2>1, <2>3, AudioRows
  <2>7. Stores(r)
        BY <2>1, <2>5, <2>6 DEF Stores
  <2>8. QED
        BY <2>1, <2>3, <2>7 DEF TablesMove
<1>4. QED
      BY <1>2, <1>3

LEMMA CommittingMoves ==
    ASSUME TypeOK, Flush \/ Commit \/ Crash \/ Shutdown
    PROVE  TablesMove
<1>1. TableOK(table)
      BY DEF TypeOK
<1>2. TableOK(Flushed(table)) /\ Flushed(table).pin = table.pin
      BY <1>1, FlushedTable
<1>3. CASE Flush
  <2>1. table' = Flushed(table) /\ disk' = Flushed(table) /\ open' = FALSE
        /\ UNCHANGED <<evicted, shielded>>
        BY <1>3 DEF Flush
  <2>2. Commits
        BY <1>2, <2>1 DEF Commits
  <2>3. QED
        BY <2>2 DEF TablesMove
<1>4. CASE Commit
  <2>1. UNCHANGED <<table, evicted, shielded>> /\ disk' = table /\ open' = FALSE
        BY <1>4 DEF Commit
  <2>2. Commits
        BY <1>1, <2>1 DEF Commits
  <2>3. QED
        BY <2>2 DEF TablesMove
<1>5. CASE Crash
  <2>1. RollsBack
        BY <1>5 DEF Crash, Stopped, RollsBack
  <2>2. QED
        BY <2>1 DEF TablesMove
<1>6. CASE Shutdown
  <2>1. open' = FALSE /\ UNCHANGED <<evicted, shielded>> /\ Event /\ ppc' = "wait"
        BY <1>6 DEF Shutdown, Stopped
  <2>2. CASE touched = {}
    <3>1. table' = disk /\ UNCHANGED disk
          BY <1>6, <2>2 DEF Shutdown
    <3>2. RollsBack
          BY <2>1, <3>1 DEF RollsBack
    <3>3. QED
          BY <3>2 DEF TablesMove
  <2>3. CASE touched # {}
    <3>1. table' = Flushed(table) /\ disk' = Flushed(table)
          BY <1>6, <2>3 DEF Shutdown
    <3>2. Commits
          BY <1>2, <2>1, <3>1 DEF Commits
    <3>3. QED
          BY <3>2 DEF TablesMove
  <2>4. QED
        BY <2>2, <2>3
<1>7. QED
      BY <1>3, <1>4, <1>5, <1>6

LEMMA EvictingMoves ==
    ASSUME TypeOK, Evict
    PROVE  TablesMove
<1>1. TableOK(table)
      BY DEF TypeOK
<1>2. PICK victims \in Victims(table, quota) :
          /\ table' = Dropped(table, victims) /\ disk' = Dropped(table, victims)
          /\ open' = FALSE /\ evicted' = evicted \cup victims
      BY DEF Evict
<1>3. victims \subseteq FreeRows(table) /\ victims \in SUBSET Rows
      BY <1>2 DEF Victims, Oldest, FreeRows
<1>4. UNCHANGED shielded
      BY DEF Evict
<1>5. TableOK(table') /\ \A r \in Rows : table'.pin[r] = IF r \in victims THEN "none" ELSE table.pin[r]
      BY <1>1, <1>2, DroppedTable
<1>6. Evicts(victims)
      BY <1>2, <1>3, <1>4, <1>5 DEF Evicts
<1>7. QED
      BY <1>3, <1>6 DEF TablesMove

LEMMA WarmingMoves ==
    ASSUME TypeOK, UnpinAll \/ Pin
    PROVE  TablesMove
<1>1. TableOK(table) /\ warmed \subseteq Variants
      BY CacheAssumption DEF TypeOK
<1>2. table.pin \in [Rows -> Kinds]
      BY <1>1, TablesAre
<1>3. CASE UnpinAll
  <2>1. PICK pin : pin = [r \in Rows |-> IF table.pin[r] = "pinned" THEN "free" ELSE table.pin[r]]
        OBVIOUS
  <2>2. pin \in [Rows -> Kinds] /\ \A r \in Rows : pin[r] = "none" <=> table.pin[r] = "none"
        BY <1>2, <2>1 DEF Kinds
  <2>3. table' = [table EXCEPT !.pin = pin] /\ disk' = table' /\ shielded' = {}
        /\ UNCHANGED <<open, evicted>>
        BY <1>3, <2>1 DEF UnpinAll, WarmFrame
  <2>4. TableOK(table') /\ table'.pin = pin
        BY <1>1, <2>2, <2>3, RepinnedTable
  <2>5. Repins
        BY <2>2, <2>3, <2>4 DEF Repins
  <2>6. QED
        BY <2>5 DEF TablesMove
<1>4. CASE Pin
  <2>1. PICK unpinned : unpinned = {v \in warmed : table.pin[Audio(v)] = "free"}
        OBVIOUS
  <2>2. PICK pin : pin = [r \in Rows |-> IF r \in {Audio(v) : v \in unpinned} THEN "pinned"
                                                                        ELSE table.pin[r]]
        OBVIOUS
  <2>3. \A r \in Rows : r \in {Audio(v) : v \in unpinned} => table.pin[r] = "free"
        BY <2>1
  <2>4. pin \in [Rows -> Kinds] /\ \A r \in Rows : pin[r] = "none" <=> table.pin[r] = "none"
        BY <1>2, <2>2, <2>3 DEF Kinds
  <2>5. table' = [table EXCEPT !.pin = pin] /\ disk' = table' /\ shielded' = unpinned
        /\ UNCHANGED <<open, evicted>>
        BY <1>4, <2>1, <2>2 DEF Pin, WarmFrame
  <2>6. TableOK(table') /\ table'.pin = pin
        BY <1>1, <2>4, <2>5, RepinnedTable
  <2>7. \A v \in unpinned : v \in Variants /\ pin[Audio(v)] = "pinned"
        BY <1>1, <2>1, <2>2, AudioRows
  <2>8. Repins
        BY <2>4, <2>5, <2>6, <2>7 DEF Repins
  <2>9. QED
        BY <2>8 DEF TablesMove
<1>5. QED
      BY <1>3, <1>4

LEMMA RestingMoves ==
    ASSUME \/ \E v \in Variants : FindUncached(v) \/ Claim(v) \/ Announce(v) \/ Enqueue(v) \/ WarmText(v)
           \/ \E r \in Rows : Lapse(r) \/ Retrieve(r)
           \/ FlushFails \/ Collect \/ FetchAudio \/ FetchStamps \/ Skip \/ Measure \/ PersistFails
           \/ WarmStart \/ WarmDies \/ UNCHANGED vars
    PROVE  TablesMove
<1>1. Rests
      BY DEF Rests, FindUncached, Claim, Announce, Enqueue, WarmText, WarmFrame, Lapse, Retrieve,
             FlushFails, Collect, FetchAudio, FetchStamps, Skip, Measure, PersistFails, WarmStart,
             WarmDies, vars, sqliteVars
<1>2. QED
      BY <1>1 DEF TablesMove

LEMMA TablesStep ==
    ASSUME TypeOK, SecondRow, [Next]_vars
    PROVE  TablesMove
BY WritingMoves, CommittingMoves, EvictingMoves, WarmingMoves, RestingMoves
   DEF Next, Persister, Result

LEMMA PinsStep ==
    ASSUME TypeOK, PinsHold, TablesMove
    PROVE  PinsHold' /\ shielded' \subseteq Variants
<1>1. shielded \subseteq Variants
      BY DEF TypeOK
<1>2. \A v \in Variants : Audio(v) \in Rows
      BY AudioRows
<1>3. \A v \in shielded : table.pin[Audio(v)] = "pinned" /\ disk.pin[Audio(v)] = "pinned"
      BY DEF PinsHold
<1>4. CASE Rests
      BY <1>1, <1>4 DEF Rests, PinsHold
<1>5. ASSUME NEW r \in Rows, Stores(r)
      PROVE  PinsHold' /\ shielded' \subseteq Variants
  <2>1. ASSUME NEW v \in shielded'
        PROVE  v \in Variants /\ table'.pin[Audio(v)] = "pinned" /\ disk'.pin[Audio(v)] = "pinned"
    <3>1. v \in shielded /\ Audio(v) # r /\ disk' = disk
          BY <1>5, <2>1 DEF Stores
    <3>2. Audio(v) \in Rows
          BY <1>1, <1>2, <3>1
    <3>3. table'.pin[Audio(v)] = table.pin[Audio(v)]
          BY <1>5, <3>1, <3>2 DEF Stores
    <3>4. QED
          BY <1>1, <1>3, <3>1, <3>3
  <2>2. QED
        BY <2>1 DEF PinsHold
<1>6. CASE Commits
      BY <1>1, <1>3, <1>6 DEF Commits, PinsHold
<1>7. ASSUME NEW rows \in SUBSET Rows, Evicts(rows)
      PROVE  PinsHold' /\ shielded' \subseteq Variants
  <2>1. shielded' = shielded /\ disk' = table'
        BY <1>7 DEF Evicts
  <2>2. ASSUME NEW v \in shielded
        PROVE  table'.pin[Audio(v)] = "pinned"
    <3>1. Audio(v) \in Rows /\ Audio(v) \notin rows
          BY <1>1, <1>2, <1>3, <1>7 DEF Evicts, FreeRows
    <3>2. table'.pin[Audio(v)] = table.pin[Audio(v)]
          BY <1>7, <3>1 DEF Evicts
    <3>3. QED
          BY <1>3, <3>2
  <2>3. QED
        BY <1>1, <2>1, <2>2 DEF PinsHold
<1>8. CASE Repins
      BY <1>8 DEF Repins, PinsHold
<1>9. CASE RollsBack
      BY <1>1, <1>3, <1>9 DEF RollsBack, PinsHold
<1>10. QED
       BY <1>4, <1>5, <1>6, <1>7, <1>8, <1>9 DEF TablesMove

LEMMA TablesTyped ==
    ASSUME TypeOK, TablesMove
    PROVE  /\ TableOK(table') /\ TableOK(disk')
           /\ open' \in BOOLEAN /\ (~open' => table' = disk')
           /\ evicted' \subseteq Rows
<1>1. TableOK(table) /\ TableOK(disk) /\ open \in BOOLEAN /\ (~open => table = disk) /\ evicted \subseteq Rows
      BY DEF TypeOK
<1>2. CASE Rests
      BY <1>1, <1>2 DEF Rests
<1>3. ASSUME NEW r \in Rows, Stores(r)
      PROVE  /\ TableOK(table') /\ TableOK(disk')
             /\ open' \in BOOLEAN /\ (~open' => table' = disk')
             /\ evicted' \subseteq Rows
      BY <1>1, <1>3 DEF Stores
<1>4. CASE Commits
      BY <1>1, <1>4 DEF Commits
<1>5. ASSUME NEW rows \in SUBSET Rows, Evicts(rows)
      PROVE  /\ TableOK(table') /\ TableOK(disk')
             /\ open' \in BOOLEAN /\ (~open' => table' = disk')
             /\ evicted' \subseteq Rows
      BY <1>1, <1>5 DEF Evicts
<1>6. CASE Repins
      BY <1>1, <1>6 DEF Repins
<1>7. CASE RollsBack
      BY <1>1, <1>7 DEF RollsBack
<1>8. QED
      BY <1>2, <1>3, <1>4, <1>5, <1>6, <1>7 DEF TablesMove

\* A row that was there is there or was evicted, but for a restart
LEMMA RowsStay ==
    ASSUME TypeOK, CommittedStays, TablesMove, NEW r \in Rows
    PROVE  /\ evicted \subseteq evicted'
           /\ Holds(disk, r) => Holds(disk', r) \/ r \in evicted'
           /\ Runs /\ Holds(table, r) => Holds(table', r) \/ r \in evicted'
<1>1. Holds(disk, r) => Holds(table, r)
      BY DEF CommittedStays
<1>2. CASE Rests
      BY <1>2 DEF Rests
<1>3. ASSUME NEW q \in Rows, Stores(q)
      PROVE  /\ evicted \subseteq evicted'
             /\ Holds(disk, r) => Holds(disk', r)
             /\ Holds(table, r) => Holds(table', r)
      BY <1>3 DEF Stores, Holds
<1>4. CASE Commits
      BY <1>1, <1>4 DEF Commits, Holds
<1>5. ASSUME NEW rows \in SUBSET Rows, Evicts(rows)
      PROVE  /\ evicted \subseteq evicted'
             /\ Holds(disk, r) => Holds(disk', r) \/ r \in evicted'
             /\ Holds(table, r) => Holds(table', r) \/ r \in evicted'
      BY <1>1, <1>5 DEF Evicts, Holds
<1>6. CASE Repins
      BY <1>1, <1>6 DEF Repins, Holds
<1>7. CASE RollsBack
      BY <1>7 DEF RollsBack, Runs, Event, TypeOK
<1>8. QED
      BY <1>2, <1>3, <1>4, <1>5, <1>6, <1>7 DEF TablesMove

LEMMA CommittedStaysStep ==
    ASSUME TypeOK, CommittedStays, TablesMove
    PROVE  CommittedStays'
<1>1. \A r \in Rows : Holds(disk, r) => Holds(table, r)
      BY DEF CommittedStays
<1>2. CASE Rests
      BY <1>1, <1>2 DEF Rests, CommittedStays
<1>3. ASSUME NEW q \in Rows, Stores(q)  PROVE CommittedStays'
  <2>1. disk' = disk /\ \A r \in Rows : Holds(table, r) => Holds(table', r)
        BY <1>3 DEF Stores, Holds
  <2>2. QED
        BY <1>1, <2>1 DEF CommittedStays
<1>4. CASE Commits
      BY <1>4 DEF Commits, CommittedStays
<1>5. ASSUME NEW rows \in SUBSET Rows, Evicts(rows)  PROVE CommittedStays'
      BY <1>5 DEF Evicts, CommittedStays
<1>6. CASE Repins
      BY <1>6 DEF Repins, CommittedStays
<1>7. CASE RollsBack
      BY <1>7 DEF RollsBack, CommittedStays
<1>8. QED
      BY <1>2, <1>3, <1>4, <1>5, <1>6, <1>7 DEF TablesMove

LEMMA StampsStoredStep ==
    ASSUME TypeOK, CommittedStays, StampsStored, SecondRow, TablesMove
    PROVE  StampsStored'
<1> SUFFICES ASSUME NEW v \in Timed
             PROVE  /\ Holds(table', Stamps(v)) => Holds(table', Audio(v)) \/ Audio(v) \in evicted'
                    /\ Holds(disk', Stamps(v)) => Holds(disk', Audio(v)) \/ Audio(v) \in evicted'
    BY DEF StampsStored, TableHas, DiskHas
<1>1. /\ Holds(table, Stamps(v)) => Holds(table, Audio(v)) \/ Audio(v) \in evicted
      /\ Holds(disk, Stamps(v)) => Holds(disk, Audio(v)) \/ Audio(v) \in evicted
      BY DEF StampsStored, TableHas, DiskHas
<1>2. PICK a \in Rows, s \in Rows : a = Audio(v) /\ s = Stamps(v)
      BY AudioRows, StampRows, CacheAssumption
<1>3. CASE Rests
      BY <1>1, <1>3 DEF Rests
<1>4. ASSUME NEW r \in Rows, Stores(r),
             r.part = "timestamps" => r = Stamps(Head(todo)) /\ ppc = "second"
      PROVE  /\ Holds(table', s) => Holds(table', a) \/ a \in evicted'
             /\ Holds(disk', s) => Holds(disk', a) \/ a \in evicted'
  <2>1. disk' = disk /\ evicted' = evicted /\ (Holds(table, a) => Holds(table', a))
        BY <1>4 DEF Stores, Holds
  <2>2. CASE r = s
    <3>1. r.part = "timestamps"
          BY <1>2, <2>2 DEF Stamps
    <3>2. ppc = "second" /\ Head(todo) = v
          BY <1>2, <1>4, <2>2, <3>1, AudioRows
    <3>3. Holds(table, a) \/ a \in evicted
          BY <1>2, <3>2 DEF SecondRow, TableHas
    <3>4. QED
          BY <1>1, <1>2, <2>1, <3>3
  <2>3. CASE r # s
    <3>1. Holds(table', s) => Holds(table, s)
          BY <1>4, <2>3 DEF Stores, Holds
    <3>2. QED
          BY <1>1, <1>2, <2>1, <3>1
  <2>4. QED
        BY <2>2, <2>3
<1>5. CASE Commits
      BY <1>1, <1>5 DEF Commits, Holds
<1>6. ASSUME NEW rows \in SUBSET Rows, Evicts(rows)
      PROVE  /\ Holds(table', s) => Holds(table', a) \/ a \in evicted'
             /\ Holds(disk', s) => Holds(disk', a) \/ a \in evicted'
  <2>1. disk' = table' /\ evicted' = evicted \cup rows
        /\ (Holds(table', s) => Holds(table, s)) /\ (Holds(table, a) => Holds(table', a) \/ a \in rows)
        BY <1>6 DEF Evicts, Holds
  <2>2. QED
        BY <1>1, <1>2, <2>1
<1>7. CASE Repins
  <2>1. disk' = table' /\ evicted' = evicted
        /\ (Holds(table', s) <=> Holds(table, s)) /\ (Holds(table', a) <=> Holds(table, a))
        BY <1>7 DEF Repins, Holds
  <2>2. QED
        BY <1>1, <1>2, <2>1
<1>8. CASE RollsBack
      BY <1>1, <1>8 DEF RollsBack
<1>9. QED
      BY <1>2, <1>3, <1>4, <1>5, <1>6, <1>7, <1>8 DEF TablesMove

-----------------------------------------------------------------------------
(* The types of the requests, the persister and the warmer                  *)

RequestTypes ==
    /\ hot \subseteq Rows
    /\ queue \in Seq(Variants)
    /\ missed \subseteq Variants /\ inflight \subseteq Variants
    /\ finalizing \subseteq Variants /\ announced \subseteq Variants
    /\ requests \in Nat /\ events \in Nat

PersisterTypes ==
    /\ ppc \in {"wait", "stamps", "write", "second", "measure", "evict"}
    /\ batch \in Seq(Variants) /\ Len(batch) <= MaxBatch
    /\ found \subseteq Rows /\ todo \in Seq(Variants)
    /\ quota \in Nat /\ counted \subseteq Rows

WarmerTypes ==
    /\ wpc \in {"idle", "warm", "pin"} /\ left \subseteq Warm /\ warmed \subseteq Warm
    /\ touched \subseteq Rows

TableTypes ==
    /\ TableOK(table) /\ TableOK(disk)
    /\ open \in BOOLEAN /\ (~open => table = disk)
    /\ evicted \subseteq Rows
    /\ shielded \subseteq Variants

LEMMA TypesAre == TypeOK <=> RequestTypes /\ PersisterTypes /\ WarmerTypes /\ TableTypes
BY DEF TypeOK, RequestTypes, PersisterTypes, WarmerTypes, TableTypes

LEMMA RequestTypesStep ==
    ASSUME RequestTypes, [Next]_vars
    PROVE  RequestTypes'
<1> USE DEF RequestTypes
<1>1. ASSUME NEW v \in Variants, FindUncached(v)  PROVE RequestTypes'
      BY <1>1 DEF FindUncached
<1>2. ASSUME NEW v \in Variants, Claim(v)  PROVE RequestTypes'
      BY <1>2 DEF Claim
<1>3. ASSUME NEW v \in Variants, Announce(v)  PROVE RequestTypes'
      BY <1>3 DEF Announce
<1>4. ASSUME NEW v \in Variants, Enqueue(v)  PROVE RequestTypes'
  <2>1. queue' \in Seq(Variants)
        BY <1>4, RangeOfAppend DEF Enqueue
  <2>2. QED
        BY <1>4, <2>1 DEF Enqueue
<1>5. ASSUME NEW r \in Rows, Lapse(r)  PROVE RequestTypes'
  <2>1. events' \in Nat
        BY <1>5 DEF Lapse, Event
  <2>2. QED
        BY <1>5, <2>1 DEF Lapse, requestVars
<1>6. CASE Collect
  <2>1. queue' \in Seq(Variants)
        BY <1>6, RangeOfTail DEF Collect
  <2>2. QED
        BY <1>6, <2>1 DEF Collect, PersistFrame, requestVars
<1>7. CASE Crash \/ Shutdown
      BY <1>7 DEF Crash, Shutdown, Stopped, Event
<1>8. CASE FlushFails \/ PersistFails \/ WarmDies
      BY <1>8 DEF FlushFails, PersistFails, PersistFrame, WarmDies, Event, requestVars
<1>9. ASSUME \/ \E v \in Variants : WarmText(v)
             \/ \E r \in Rows : Retrieve(r)
             \/ Flush \/ FetchAudio \/ FetchStamps \/ Skip \/ WriteAudio \/ WriteStamps
             \/ Commit \/ Measure \/ Evict \/ WarmStart \/ UnpinAll \/ Pin \/ UNCHANGED vars
      PROVE  RequestTypes'
  <2>1. UNCHANGED <<hot, queue, requestVars, events>>
        BY <1>9 DEF WarmText, WarmFrame, Retrieve, Flush, FetchAudio, FetchStamps, Skip, WriteAudio,
                    WriteStamps, Commit, Measure, Evict, PersistFrame, WarmStart, UnpinAll, Pin, vars
  <2>2. QED
        BY <2>1 DEF requestVars
<1>10. QED
       BY <1>1, <1>2, <1>3, <1>4, <1>5, <1>6, <1>7, <1>8, <1>9 DEF Next, Persister, Result

LEMMA PersisterTypesStep ==
    ASSUME TypeOK, SecondRow, [Next]_vars
    PROVE  PersisterTypes'
<1>1. PersisterTypes /\ queue \in Seq(Variants) /\ MaxBatch \in Nat /\ hot \subseteq Rows
      BY CacheAssumption, TypesAre DEF RequestTypes
<1> USE DEF PersisterTypes
<1>2. CASE Collect
  <2>1. PICK v \in Variants : v = Head(queue)
        BY <1>1, <1>2, RangeOfTail DEF Collect
  <2>2. batch' = Append(batch, v) /\ Len(batch) < MaxBatch
        BY <1>2, <2>1 DEF Collect
  <2>3. batch' \in Seq(Variants) /\ Len(batch') <= MaxBatch
        BY <1>1, <2>2
  <2>4. QED
        BY <1>1, <1>2, <2>3 DEF Collect
<1>3. CASE FetchAudio
      BY <1>1, <1>3 DEF FetchAudio
<1>4. CASE FetchStamps
      BY <1>1, <1>4 DEF FetchStamps
<1>5. CASE Skip
  <2>1. todo' \in Seq(Variants)
        BY <1>1, <1>5, RangeOfTail DEF Skip
  <2>2. QED
        BY <1>1, <1>5, <2>1 DEF Skip
<1>6. CASE WriteAudio
  <2>1. todo' \in Seq(Variants) /\ ppc' \in {"second", "write"}
        BY <1>1, <1>6, RangeOfTail DEF WriteAudio
  <2>2. UNCHANGED <<batch, found, quota, counted>>
        BY <1>6 DEF WriteAudio
  <2>3. QED
        BY <1>1, <2>1, <2>2
<1>7. CASE WriteStamps
  <2>1. todo # <<>>
        BY <1>7 DEF WriteStamps, SecondRow
  <2>2. todo' \in Seq(Variants)
        BY <1>1, <1>7, <2>1, RangeOfTail DEF WriteStamps
  <2>3. QED
        BY <1>1, <1>7, <2>2 DEF WriteStamps
<1>8. CASE Commit
      BY <1>1, <1>8 DEF Commit
<1>9. CASE Measure
  <2>1. CASE Total(FreeRows(table)) > MaxSize
    <3>1. FreeRows(table) \in SUBSET Rows
          BY DEF FreeRows
    <3>2. Estimate(FreeRows(table)) \in Nat
          BY <2>1, <3>1, EstimateNat
    <3>3. quota' \in Nat /\ counted' \subseteq Rows /\ ppc' = "evict" /\ UNCHANGED <<batch, found, todo>>
          BY <1>9, <2>1, <3>1, <3>2 DEF Measure
    <3>4. QED
          BY <1>1, <3>3
  <2>2. CASE ~(Total(FreeRows(table)) > MaxSize)
    <3>1. ppc' = "wait" /\ batch' = <<>> /\ UNCHANGED <<quota, counted, found, todo>>
          BY <1>9, <2>2 DEF Measure
    <3>2. <<>> \in Seq(Variants) /\ Len(<<>>) <= MaxBatch
          BY <1>1
    <3>3. QED
          BY <1>1, <3>1, <3>2
  <2>3. QED
        BY <2>1, <2>2
<1>10. ASSUME Evict \/ PersistFails \/ Crash \/ Shutdown  PROVE PersisterTypes'
  <2>1. ppc' = "wait" /\ batch' = <<>> /\ quota' = 0 /\ counted' = {}
        /\ (found' = {} \/ found' = found) /\ (todo' = <<>> \/ todo' = todo)
        BY <1>10 DEF Evict, PersistFails, Crash, Shutdown, Stopped
  <2>2. <<>> \in Seq(Variants) /\ Len(<<>>) <= MaxBatch
        BY <1>1
  <2>3. QED
        BY <1>1, <2>1, <2>2
<1>11. ASSUME \/ \E v \in Variants : FindUncached(v) \/ Claim(v) \/ Announce(v) \/ Enqueue(v) \/ WarmText(v)
              \/ \E r \in Rows : Lapse(r) \/ Retrieve(r)
              \/ Flush \/ FlushFails \/ WarmStart \/ UnpinAll \/ Pin \/ WarmDies \/ UNCHANGED vars
       PROVE  PersisterTypes'
  <2>1. UNCHANGED persisterVars
        BY <1>11 DEF FindUncached, Claim, Announce, Enqueue, WarmText, WarmFrame, Lapse, Retrieve, Flush,
                     FlushFails, WarmStart, UnpinAll, Pin, WarmDies, vars
  <2>2. QED
        BY <1>1, <2>1 DEF persisterVars
<1>12. QED
       BY <1>2, <1>3, <1>4, <1>5, <1>6, <1>7, <1>8, <1>9, <1>10, <1>11 DEF Next, Persister, Result

LEMMA WarmerTypesStep ==
    ASSUME WarmerTypes, [Next]_vars
    PROVE  WarmerTypes'
<1> USE DEF WarmerTypes
<1>1. ASSUME NEW v \in Variants, WarmText(v)  PROVE WarmerTypes'
      BY <1>1 DEF WarmText, WarmFrame
<1>2. ASSUME NEW r \in Rows, Retrieve(r)  PROVE WarmerTypes'
      BY <1>2 DEF Retrieve, warmerVars
<1>3. CASE Flush \/ FlushFails
      BY <1>3 DEF Flush, FlushFails, warmerVars
<1>4. CASE WarmStart \/ UnpinAll \/ Pin
      BY <1>4 DEF WarmStart, UnpinAll, Pin, WarmFrame
<1>5. CASE WarmDies
      BY <1>5 DEF WarmDies, sqliteVars
<1>6. CASE Crash \/ Shutdown
      BY <1>6 DEF Crash, Shutdown, Stopped, warmerVars
<1>7. CASE Persister \/ PersistFails
      BY <1>7 DEF Persister, Collect, FetchAudio, FetchStamps, Skip, WriteAudio, WriteStamps, Commit,
                  Measure, Evict, PersistFails, PersistFrame, warmerVars
<1>8. ASSUME \/ \E v \in Variants : FindUncached(v) \/ Claim(v) \/ Announce(v) \/ Enqueue(v)
             \/ \E r \in Rows : Lapse(r)
             \/ UNCHANGED vars
      PROVE  WarmerTypes'
  <2>1. UNCHANGED <<warmerVars, sqliteVars>>
        BY <1>8 DEF FindUncached, Claim, Announce, Enqueue, Lapse, vars
  <2>2. QED
        BY <2>1 DEF warmerVars, sqliteVars
<1>9. QED
      BY <1>1, <1>2, <1>3, <1>4, <1>5, <1>6, <1>7, <1>8 DEF Next, Result

LEMMA TypeStep ==
    ASSUME TypeOK, SecondRow, PinsHold, [Next]_vars
    PROVE  TypeOK'
<1>1. TablesMove
      BY TablesStep
<1>2. TableTypes'
      BY <1>1, PinsStep, TablesTyped DEF TableTypes
<1>3. RequestTypes /\ WarmerTypes
      BY TypesAre
<1>4. RequestTypes' /\ WarmerTypes' /\ PersisterTypes'
      BY <1>3, RequestTypesStep, WarmerTypesStep, PersisterTypesStep
<1>5. QED
      BY <1>2, <1>4 DEF TypeOK, RequestTypes, PersisterTypes, WarmerTypes, TableTypes

-----------------------------------------------------------------------------
(* The row of timestamps that is next, and the quota of an eviction          *)

LEMMA TableHasStays ==
    ASSUME TypeOK, CommittedStays, TablesMove, NEW v \in Variants
    PROVE  /\ DiskHas(v) => DiskHas(v)'
           /\ Runs /\ TableHas(v) => TableHas(v)'
<1>1. Audio(v) \in Rows
      BY AudioRows
<1>2. QED
      BY <1>1, RowsStay DEF DiskHas, TableHas

\* All steps but the persister's own and a stop leave it where it is
LEMMA PersisterRests ==
    ASSUME \/ \E v \in Variants : FindUncached(v) \/ Claim(v) \/ Announce(v) \/ Enqueue(v) \/ WarmText(v)
           \/ \E r \in Rows : Lapse(r) \/ Retrieve(r)
           \/ Flush \/ FlushFails \/ WarmStart \/ UnpinAll \/ Pin \/ WarmDies \/ UNCHANGED vars
    PROVE  UNCHANGED persisterVars
BY DEF FindUncached, Claim, Announce, Enqueue, WarmText, WarmFrame, Lapse, Retrieve, Flush,
       FlushFails, WarmStart, UnpinAll, Pin, WarmDies, vars

LEMMA SecondRowStep ==
    ASSUME TypeOK, CommittedStays, SecondRow, [Next]_vars
    PROVE  SecondRow'
<1>1. todo \in Seq(Variants)
      BY DEF TypeOK
<1>2. CASE WriteAudio
  <2>1. CASE Stamps(Head(todo)) \in found
    <3>1. UNCHANGED <<todo, found>> /\ todo # <<>> /\ table' = Replaced(table, Audio(Head(todo)))
          BY <1>2, <2>1 DEF WriteAudio
    <3>2. PICK v \in Variants : v = Head(todo)
          BY <1>1, <3>1, RangeOfTail
    <3>3. PICK r \in Rows : r = Audio(v)
          BY AudioRows
    <3>4. table' = Replaced(table, r)
          BY <3>1, <3>2, <3>3
    <3>5. table'.pin[r] = "free"
          BY <3>4, ReplacedTable DEF TypeOK
    <3>6. TableHas(v)'
          BY <3>3, <3>5 DEF TableHas, Holds
    <3>7. v = Head(todo')
          BY <3>1, <3>2
    <3>8. QED
          BY <2>1, <3>1, <3>6, <3>7 DEF SecondRow, TableHas
  <2>2. CASE Stamps(Head(todo)) \notin found
    <3>1. ppc' # "second"
          BY <1>2, <2>2 DEF WriteAudio
    <3>2. QED
          BY <3>1 DEF SecondRow
  <2>3. QED
        BY <2>1, <2>2
<1>3. CASE \/ Collect \/ FetchAudio \/ FetchStamps \/ Skip \/ WriteStamps \/ Commit \/ Measure \/ Evict
           \/ PersistFails \/ Crash \/ Shutdown
  <2>1. ppc' # "second"
        BY <1>3 DEF Collect, FetchAudio, FetchStamps, Skip, WriteStamps, Commit, Measure, Evict,
                    PersistFails, Crash, Shutdown, Stopped
  <2>2. QED
        BY <2>1 DEF SecondRow
<1>4. ASSUME \/ \E v \in Variants : FindUncached(v) \/ Claim(v) \/ Announce(v) \/ Enqueue(v) \/ WarmText(v)
             \/ \E r \in Rows : Lapse(r) \/ Retrieve(r)
             \/ Flush \/ FlushFails \/ WarmStart \/ UnpinAll \/ Pin \/ WarmDies \/ UNCHANGED vars
      PROVE  SecondRow'
  <2>1. UNCHANGED <<ppc, todo, found>>
        BY <1>4, PersisterRests DEF persisterVars
  <2>2. CASE ppc = "second"
    <3>1. todo # <<>> /\ Stamps(Head(todo)) \in found /\ TableHas(Head(todo))
          BY <2>2 DEF SecondRow
    <3>2. PICK v \in Variants : v = Head(todo)
          BY <1>1, <3>1, RangeOfTail
    <3>3. TablesMove /\ Runs
          BY <2>1, <2>2, TablesStep DEF Runs
    <3>4. TableHas(v)'
          BY <3>1, <3>2, <3>3, TableHasStays
    <3>5. Head(todo') = v
          BY <2>1, <3>2
    <3>6. QED
          BY <2>1, <3>1, <3>2, <3>4, <3>5 DEF SecondRow, TableHas
  <2>3. CASE ppc # "second"
        BY <2>1, <2>3 DEF SecondRow
  <2>4. QED
        BY <2>2, <2>3
<1>5. QED
      BY <1>2, <1>3, <1>4 DEF Next, Persister, Result

LEMMA QuotaRightStep ==
    ASSUME QuotaRight, [Next]_vars
    PROVE  QuotaRight'
<1>1. CASE Measure
  <2>1. CASE Total(FreeRows(table)) > MaxSize
    <3>1. PICK rows : rows = FreeRows(table)
          OBVIOUS
    <3>2. counted' = rows /\ quota' = Estimate(rows) /\ Total(rows) > MaxSize
          BY <1>1, <2>1, <3>1 DEF Measure
    <3>3. Total(counted') > MaxSize /\ quota' = Estimate(counted')
          BY <3>2
    <3>4. QED
          BY <3>3 DEF QuotaRight
  <2>2. CASE ~(Total(FreeRows(table)) > MaxSize)
        BY <1>1, <2>2 DEF Measure, QuotaRight
  <2>3. QED
        BY <2>1, <2>2
<1>2. CASE \/ FetchAudio \/ FetchStamps \/ WriteAudio \/ WriteStamps \/ Commit \/ Evict
           \/ PersistFails \/ Crash \/ Shutdown \/ Collect \/ Skip
  <2>1. ppc' # "evict"
        BY <1>2 DEF FetchAudio, FetchStamps, WriteAudio, WriteStamps, Commit, Evict,
                    PersistFails, Crash, Shutdown, Stopped, Collect, Skip
  <2>2. QED
        BY <2>1 DEF QuotaRight
<1>3. ASSUME \/ \E v \in Variants : FindUncached(v) \/ Claim(v) \/ Announce(v) \/ Enqueue(v) \/ WarmText(v)
             \/ \E r \in Rows : Lapse(r) \/ Retrieve(r)
             \/ Flush \/ FlushFails \/ WarmStart \/ UnpinAll \/ Pin \/ WarmDies \/ UNCHANGED vars
      PROVE  QuotaRight'
  <2>1. UNCHANGED <<ppc, counted, quota>>
        BY <1>3, PersisterRests DEF persisterVars
  <2>2. QED
        BY <2>1 DEF QuotaRight
<1>4. QED
      BY <1>1, <1>2, <1>3 DEF Next, Persister, Result

-----------------------------------------------------------------------------
(* The hand-over, while no failure has happened: where a variant is after   *)
(* each step of the request, of the consumer and of the persister           *)

LEMMA NoFailureYet ==
    ASSUME TypeOK, [Next]_vars, events' = 0
    PROVE  events = 0 /\ ~Event
<1>1. events \in Nat /\ ~Event
      BY DEF TypeOK, Event
<1>2. CASE Collect \/ FetchAudio \/ FetchStamps \/ Skip \/ WriteAudio \/ WriteStamps \/ Commit
           \/ Measure \/ Evict
  <2>1. UNCHANGED events
        BY <1>2 DEF Collect, FetchAudio, FetchStamps, Skip, WriteAudio, WriteStamps, Commit, Measure,
                    Evict
  <2>2. QED
        BY <1>1, <2>1
<1>3. ASSUME \/ \E v \in Variants : FindUncached(v) \/ Claim(v) \/ Announce(v) \/ Enqueue(v) \/ WarmText(v)
             \/ \E r \in Rows : Retrieve(r)
             \/ Flush \/ WarmStart \/ UnpinAll \/ Pin \/ UNCHANGED vars
      PROVE  UNCHANGED events
      BY <1>3 DEF FindUncached, Claim, Announce, Enqueue, WarmText, WarmFrame, Retrieve, Flush,
                  WarmStart, UnpinAll, Pin, vars
<1>4. ASSUME NEW r \in Rows, Lapse(r)  PROVE UNCHANGED events
      BY <1>1, <1>4 DEF Lapse
<1>5. ~FlushFails /\ ~PersistFails /\ ~WarmDies /\ ~Crash /\ ~Shutdown
      BY <1>1 DEF FlushFails, PersistFails, WarmDies, Crash, Shutdown
<1>6. QED
      BY <1>1, <1>2, <1>3, <1>4, <1>5 DEF Next, Persister, Result

\* Where no failure has happened, steps that leave the hand-over alone
LEMMA HandOverRests ==
    ASSUME TypeOK, CommittedStays, HandedOver, TablesMove, events' = 0,
           UNCHANGED <<queue, finalizing, announced, batch, found, todo, ppc>>,
           \A v \in Carried : Audio(v) \in hot'
    PROVE  HandedOver'
<1>1. Carried' = Carried /\ Carried \subseteq Variants /\ announced \subseteq Variants
      /\ Range(batch) \subseteq Variants
      BY RangeInSet DEF Carried, TypeOK
<1>2. \A v \in Variants : (DiskHas(v) => DiskHas(v)') /\ (TableHas(v) => TableHas(v)')
      BY TableHasStays DEF Runs
<1>3. InRedis'
      BY <1>1 DEF InRedis
<1>4. Located'
      BY <1>1, <1>2 DEF HandedOver, Located
<1>5. AllFound'
      BY DEF HandedOver, AllFound
<1>6. Written'
      BY <1>1, <1>2 DEF HandedOver, Written
<1>7. Committed'
      BY <1>1, <1>2 DEF HandedOver, Committed
<1>8. QED
      BY <1>3, <1>4, <1>5, <1>6, <1>7 DEF HandedOver

LEMMA RequestsHandOver ==
    ASSUME TypeOK, CommittedStays, HandedOver, TablesMove, events' = 0,
           NEW v \in Variants, Announce(v) \/ Enqueue(v)
    PROVE  HandedOver'
<1>1. TypeOK /\ Range(queue) \subseteq Variants /\ Range(batch) \subseteq Variants
      BY RangeInSet DEF TypeOK
<1>2. \A w \in Variants : (DiskHas(w) => DiskHas(w)') /\ (TableHas(w) => TableHas(w)')
      BY TableHasStays DEF Runs
<1>3. UNCHANGED <<batch, found, todo, ppc>>
      BY DEF Announce, Enqueue, persisterVars
<1>4. AllFound' /\ Written' /\ Committed'
  <2>1. AllFound'
        BY <1>3 DEF HandedOver, AllFound
  <2>2. Written'
        BY <1>1, <1>2, <1>3 DEF HandedOver, Written
  <2>3. Committed'
        BY <1>1, <1>2, <1>3 DEF HandedOver, Committed
  <2>4. QED
        BY <2>1, <2>2, <2>3
<1>5. CASE Announce(v)
  <2>1. UNCHANGED queue /\ finalizing' = finalizing \cup {v} /\ announced' = announced \cup {v}
        BY <1>5 DEF Announce
  <2>2. Carried' = Carried \cup {v}
        BY <1>3, <2>1 DEF Carried
  <2>3. hot \subseteq hot' /\ Audio(v) \in hot'
        BY <1>5, AudioRows DEF Announce
  <2>4. InRedis'
        BY <2>2, <2>3 DEF HandedOver, InRedis
  <2>5. announced \subseteq Variants
        BY DEF TypeOK
  <2>6. Located'
        BY <1>2, <2>1, <2>2, <2>5 DEF HandedOver, Located
  <2>7. QED
        BY <1>4, <2>4, <2>6 DEF HandedOver
<1>6. CASE Enqueue(v)
  <2>1. /\ v \in finalizing /\ finalizing' = finalizing \ {v} /\ queue' = Append(queue, v)
        /\ UNCHANGED <<hot, announced>>
        BY <1>6 DEF Enqueue
  <2>2. Range(queue') = Range(queue) \cup {v}
        BY <2>1, RangeOfAppend DEF TypeOK
  <2>3. Carried' = Carried
        BY <1>3, <2>1, <2>2 DEF Carried
  <2>4. InRedis'
        BY <2>1, <2>3 DEF HandedOver, InRedis
  <2>5. announced \subseteq Variants
        BY DEF TypeOK
  <2>6. Located'
        BY <1>2, <2>1, <2>3, <2>5 DEF HandedOver, Located
  <2>7. QED
        BY <1>4, <2>4, <2>6 DEF HandedOver
<1>7. QED
      BY <1>5, <1>6

\* What the persister's steps have in common: Redis and the announcements stay
LEMMA PersisterKeeps ==
    ASSUME TypeOK, CommittedStays, TablesMove, events' = 0
    PROVE  /\ Range(queue) \subseteq Variants /\ Range(batch) \subseteq Variants
           /\ Range(todo) \subseteq Variants /\ announced \subseteq Variants
           /\ \A v \in Variants : (DiskHas(v) => DiskHas(v)') /\ (TableHas(v) => TableHas(v)')
BY RangeInSet, TableHasStays DEF TypeOK, Runs

LEMMA CollectHandsOver ==
    ASSUME TypeOK, CommittedStays, HandedOver, TablesMove, events' = 0, Collect
    PROVE  HandedOver'
<1>1. /\ ppc = "wait" /\ ppc' = "wait" /\ queue # <<>>
      /\ batch' = Append(batch, Head(queue)) /\ queue' = Tail(queue)
      /\ UNCHANGED <<hot, finalizing, announced>>
      BY DEF Collect, PersistFrame, requestVars
<1>2. PICK v \in Variants : v = Head(queue)
      BY <1>1, RangeOfTail DEF TypeOK
<1>3. Range(queue) = {v} \cup Range(queue')
      BY <1>1, <1>2, RangeOfTail DEF TypeOK
<1>4. Range(batch') = Range(batch) \cup {v}
      BY <1>1, <1>2, RangeOfAppend DEF TypeOK
<1>5. Carried' = Carried
      BY <1>1, <1>3, <1>4 DEF Carried
<1>6. InRedis'
      BY <1>1, <1>5 DEF HandedOver, InRedis
<1>7. Located'
      BY <1>1, <1>5, PersisterKeeps DEF HandedOver, Located
<1>8. AllFound' /\ Written' /\ Committed'
      BY <1>1 DEF AllFound, Written, Committed
<1>9. QED
      BY <1>6, <1>7, <1>8 DEF HandedOver

LEMMA FetchHandsOver ==
    ASSUME TypeOK, CommittedStays, HandedOver, TablesMove, events' = 0, FetchAudio \/ FetchStamps
    PROVE  HandedOver'
<1>1. UNCHANGED <<hot, queue, batch, finalizing, announced>>
      BY DEF FetchAudio, FetchStamps, PersistFrame, requestVars
<1>2. Carried' = Carried
      BY <1>1 DEF Carried
<1>3. InRedis' /\ Located'
  <2>1. InRedis'
        BY <1>1, <1>2 DEF HandedOver, InRedis
  <2>2. Located'
        BY <1>1, <1>2, PersisterKeeps DEF HandedOver, Located
  <2>3. QED
        BY <2>1, <2>2
<1>4. CASE FetchAudio
  <2>1. ppc' = "stamps" /\ found' = {Audio(v) : v \in Range(batch)} \cap hot
        BY <1>4 DEF FetchAudio
  <2>2. \A v \in Range(batch) : Audio(v) \in hot
        BY DEF HandedOver, InRedis, Carried
  <2>3. AllFound'
        BY <1>1, <2>1, <2>2 DEF AllFound
  <2>4. Written' /\ Committed'
        BY <2>1 DEF Written, Committed
  <2>5. QED
        BY <1>3, <2>3, <2>4 DEF HandedOver
<1>5. CASE FetchStamps
  <2>1. ppc = "stamps" /\ ppc' = "write" /\ found \subseteq found' /\ todo' = batch
        BY <1>5 DEF FetchStamps
  <2>2. AllFound'
        BY <1>1, <2>1 DEF HandedOver, AllFound
  <2>3. Written'
        BY <1>1, <2>1 DEF Written
  <2>4. Committed'
        BY <2>1 DEF Committed
  <2>5. QED
        BY <1>3, <2>2, <2>3, <2>4 DEF HandedOver
<1>6. QED
      BY <1>4, <1>5

LEMMA WriteHandsOver ==
    ASSUME TypeOK, CommittedStays, SecondRow, HandedOver, TablesMove, events' = 0,
           Skip \/ WriteAudio \/ WriteStamps
    PROVE  HandedOver'
<1>1. UNCHANGED <<hot, queue, batch, found, finalizing, announced>>
      BY DEF Skip, WriteAudio, WriteStamps, PersistFrame, requestVars
<1>2. Carried' = Carried
      BY <1>1 DEF Carried
<1>3. ppc \in {"write", "second"} /\ ppc' \in {"write", "second"}
      BY DEF Skip, WriteAudio, WriteStamps
<1>4. todo # <<>>
      BY DEF Skip, WriteAudio, WriteStamps, SecondRow
<1>5. PICK v \in Variants : v = Head(todo)
      BY <1>4, RangeOfTail DEF TypeOK
<1>6. Range(todo) = {v} \cup Range(Tail(todo))
      BY <1>4, <1>5, RangeOfTail DEF TypeOK
<1>7. InRedis'
      BY <1>1, <1>2 DEF HandedOver, InRedis
<1>8. Located'
      BY <1>1, <1>2, PersisterKeeps DEF HandedOver, Located
<1>9. AllFound'
      BY <1>1, <1>3 DEF HandedOver, AllFound
<1>10. Committed'
      BY <1>3 DEF Committed
<1>11. todo' = todo \/ (todo' = Tail(todo) /\ (v \notin Range(batch) \/ TableHas(v)'))
  <2>1. CASE Skip
    <3>1. Audio(v) \notin found /\ todo' = Tail(todo)
          BY <1>5, <2>1 DEF Skip
    <3>2. v \notin Range(batch)
          BY <1>3, <3>1 DEF HandedOver, AllFound
    <3>3. QED
          BY <3>1, <3>2
  <2>2. CASE WriteAudio
    <3>1. PICK r \in Rows : r = Audio(v)
          BY AudioRows
    <3>2. table' = Replaced(table, r) /\ todo' \in {todo, Tail(todo)}
          BY <1>5, <2>2, <3>1 DEF WriteAudio
    <3>3. table'.pin[r] = "free"
          BY <3>2, ReplacedTable DEF TypeOK
    <3>4. TableHas(v)'
          BY <3>1, <3>3 DEF TableHas, Holds
    <3>5. QED
          BY <3>2, <3>4
  <2>3. CASE WriteStamps
    <3>1. todo' = Tail(todo) /\ TableHas(v)
          BY <1>5, <2>3 DEF WriteStamps, SecondRow
    <3>2. TableHas(v)'
          BY <3>1, PersisterKeeps
    <3>3. QED
          BY <3>1, <3>2
  <2>4. QED
        BY <2>1, <2>2, <2>3
<1>12. Written'
  <2>1. \A w \in Range(batch) : w \in Range(todo) \/ TableHas(w)
        BY <1>3 DEF HandedOver, Written
  <2>2. ASSUME NEW w \in Range(batch)
        PROVE  w \in Range(todo') \/ TableHas(w)'
    <3>1. TableHas(w) => TableHas(w)'
          BY PersisterKeeps
    <3>2. w \in Range(todo) \/ TableHas(w)
          BY <2>1
    <3>3. QED
          BY <1>6, <1>11, <3>1, <3>2
  <2>3. QED
        BY <1>1, <2>2 DEF Written
<1>13. QED
       BY <1>7, <1>8, <1>9, <1>10, <1>12 DEF HandedOver

LEMMA CommitHandsOver ==
    ASSUME TypeOK, CommittedStays, HandedOver, TablesMove, events' = 0, Commit
    PROVE  HandedOver'
<1>1. /\ ppc = "write" /\ ppc' = "measure" /\ todo = <<>> /\ disk' = table
      /\ UNCHANGED <<hot, queue, batch, finalizing, announced, evicted>>
      BY DEF Commit, PersistFrame, requestVars
<1>2. Carried' = Carried
      BY <1>1 DEF Carried
<1>3. InRedis'
      BY <1>1, <1>2 DEF HandedOver, InRedis
<1>4. Located'
      BY <1>1, <1>2, PersisterKeeps DEF HandedOver, Located
<1>5. AllFound' /\ Written'
      BY <1>1 DEF AllFound, Written
<1>6. \A v \in Range(batch) : TableHas(v)
      BY <1>1, RangeOfEmpty DEF HandedOver, Written
<1>7. \A v \in Range(batch) : DiskHas(v)'
      BY <1>1, <1>6 DEF TableHas, DiskHas
<1>8. Committed'
      BY <1>1, <1>7 DEF Committed
<1>9. QED
      BY <1>3, <1>4, <1>5, <1>8 DEF HandedOver

LEMMA EvictionHandsOver ==
    ASSUME TypeOK, CommittedStays, HandedOver, TablesMove, events' = 0, Measure \/ Evict
    PROVE  HandedOver'
<1>1. /\ ppc \in {"measure", "evict"} /\ ppc' \in {"evict", "wait"}
      /\ UNCHANGED <<hot, queue, finalizing, announced>>
      BY DEF Measure, Evict, PersistFrame, requestVars
<1>2. batch' = batch \/ (batch' = <<>> /\ ppc' = "wait")
      BY DEF Measure, Evict
<1>3. \A v \in Range(batch) : DiskHas(v) /\ DiskHas(v)'
      BY <1>1, PersisterKeeps DEF HandedOver, Committed
<1>4. Range(batch') \subseteq Range(batch) /\ Carried' \subseteq Carried
      BY <1>1, <1>2, RangeOfEmpty DEF Carried
<1>5. InRedis'
      BY <1>1, <1>4 DEF HandedOver, InRedis
<1>6. Located'
  <2>1. ASSUME NEW v \in announced  PROVE v \in Carried' \/ DiskHas(v)'
    <3>1. v \in Carried \/ DiskHas(v)'
          BY PersisterKeeps DEF HandedOver, Located
    <3>2. v \in Carried => v \in Carried' \/ v \in Range(batch)
          BY <1>1 DEF Carried
    <3>3. QED
          BY <1>3, <3>1, <3>2
  <2>2. QED
        BY <1>1, <2>1 DEF Located
<1>7. AllFound' /\ Written'
      BY <1>1 DEF AllFound, Written
<1>8. Committed'
      BY <1>3, <1>4 DEF Committed
<1>9. QED
      BY <1>5, <1>6, <1>7, <1>8 DEF HandedOver

LEMMA HandOverStep ==
    ASSUME TypeOK, CommittedStays, SecondRow, events = 0 => HandedOver, [Next]_vars, events' = 0
    PROVE  HandedOver'
<1>1. HandedOver /\ TablesMove /\ ~Event
      BY NoFailureYet, TablesStep
<1>2. ASSUME NEW v \in Variants, Announce(v) \/ Enqueue(v)  PROVE HandedOver'
      BY <1>1, <1>2, RequestsHandOver
<1>3. CASE Persister
      BY <1>1, <1>3, CollectHandsOver, FetchHandsOver, WriteHandsOver, CommitHandsOver,
         EvictionHandsOver DEF Persister
<1>4. ASSUME NEW r \in Rows, Lapse(r)  PROVE HandedOver'
  <2>1. r.variant \notin Carried /\ hot' = hot \ {r}
        BY <1>1, <1>4 DEF Lapse, OnItsWay, Carried
  <2>2. UNCHANGED <<queue, finalizing, announced, batch, found, todo, ppc>>
        BY <1>4 DEF Lapse, persisterVars, requestVars
  <2>3. ASSUME NEW v \in Carried  PROVE Audio(v) \in hot'
    <3>1. Audio(v) \in hot /\ Audio(v).variant = v
          BY <1>1 DEF HandedOver, InRedis, Audio
    <3>2. QED
          BY <2>1, <3>1
  <2>4. QED
        BY <1>1, <2>2, <2>3, HandOverRests
<1>5. ASSUME \/ \E v \in Variants : FindUncached(v) \/ Claim(v) \/ WarmText(v)
             \/ \E r \in Rows : Retrieve(r)
             \/ Flush \/ WarmStart \/ UnpinAll \/ Pin \/ UNCHANGED vars
      PROVE  HandedOver'
  <2>1. UNCHANGED <<hot, queue, finalizing, announced, batch, found, todo, ppc>>
        BY <1>5 DEF FindUncached, Claim, WarmText, WarmFrame, Retrieve, Flush, WarmStart, UnpinAll,
                    Pin, vars, persisterVars, requestVars
  <2>2. \A v \in Carried : Audio(v) \in hot'
        BY <1>1, <2>1 DEF HandedOver, InRedis
  <2>3. QED
        BY <1>1, <2>1, <2>2, HandOverRests
<1>6. ~FlushFails /\ ~PersistFails /\ ~WarmDies /\ ~Crash /\ ~Shutdown
      BY <1>1 DEF FlushFails, PersistFails, WarmDies, Crash, Shutdown
<1>7. QED
      BY <1>2, <1>3, <1>4, <1>5, <1>6 DEF Next, Result

-----------------------------------------------------------------------------
(* The theorems                                                             *)

LEMMA CacheStarts == Init => CacheInd
<1> SUFFICES ASSUME Init  PROVE CacheInd
    OBVIOUS
<1>1. TableOK(Empty) /\ \A r \in Rows : ~Holds(Empty, r)
  <2>1. PICK pin : pin = [r \in Rows |-> "none"]
        OBVIOUS
  <2>2. pin \in [Rows -> Kinds] /\ {r \in Rows : pin[r] # "none"} = {}
        BY <2>1 DEF Kinds
  <2>3. Orders({}, {})
        BY DEF Orders
  <2>4. PICK older : older = {}
        OBVIOUS
  <2>5. TableOK([pin |-> pin, older |-> older])
        BY <2>2, <2>3, <2>4, MakeTable
  <2>6. Empty = [pin |-> pin, older |-> older]
        BY <2>1, <2>4 DEF Empty
  <2>7. QED
        BY <2>1, <2>5, <2>6 DEF Holds
<1>2. RequestTypes /\ WarmerTypes
      BY DEF Init, RequestTypes, WarmerTypes
<1>3. PersisterTypes
  <2>1. <<>> \in Seq(Variants) /\ Len(<<>>) <= MaxBatch
        BY CacheAssumption
  <2>2. QED
        BY <2>1 DEF Init, PersisterTypes
<1>4. TableTypes
      BY <1>1 DEF Init, TableTypes
<1>5. TypeOK
      BY <1>2, <1>3, <1>4, TypesAre
<1>6. PinsHold /\ CommittedStays /\ SecondRow /\ QuotaRight
      BY DEF Init, PinsHold, CommittedStays, SecondRow, QuotaRight
<1>7. StampsStored
  <2>1. \A v \in Timed : Stamps(v) \in Rows
        BY StampRows
  <2>2. QED
        BY <1>1, <2>1 DEF Init, StampsStored
<1>8. HandedOver
  <2>1. Range(queue) = {} /\ Range(batch) = {}
        BY RangeOfEmpty DEF Init
  <2>2. Carried = {}
        BY <2>1 DEF Init, Carried
  <2>3. QED
        BY <2>1, <2>2 DEF Init, HandedOver, InRedis, Located, AllFound, Written, Committed
<1>9. QED
      BY <1>5, <1>6, <1>7, <1>8 DEF CacheInd

LEMMA CacheSteps == CacheInd /\ [Next]_vars => CacheInd'
<1> SUFFICES ASSUME CacheInd, [Next]_vars  PROVE CacheInd'
    OBVIOUS
<1>1. /\ TypeOK /\ PinsHold /\ CommittedStays /\ StampsStored /\ SecondRow /\ QuotaRight
      /\ events = 0 => HandedOver
      BY DEF CacheInd
<1>2. TablesMove
      BY <1>1, TablesStep
<1>3. TypeOK' /\ PinsHold'
      BY <1>1, <1>2, TypeStep, PinsStep
<1>4. CommittedStays' /\ StampsStored'
      BY <1>1, <1>2, CommittedStaysStep, StampsStoredStep
<1>5. SecondRow' /\ QuotaRight'
      BY <1>1, SecondRowStep, QuotaRightStep
<1>6. events' = 0 => HandedOver'
      BY <1>1, HandOverStep
<1>7. QED
      BY <1>3, <1>4, <1>5, <1>6 DEF CacheInd

LEMMA CacheIndSuffices == CacheInd => CacheInv /\ AudioKept
<1> SUFFICES ASSUME CacheInd  PROVE CacheInv /\ AudioKept
    OBVIOUS
<1>1. TypeOK /\ PinsHold /\ StampsStored /\ QuotaRight
      BY DEF CacheInd
<1>2. EvictionSuffices
  <2> SUFFICES ASSUME ppc = "evict", FreeRows(table) = counted, Uniform(counted),
                      NEW victims \in Victims(table, quota)
               PROVE  Total(counted \ victims) <= MaxSize
      BY DEF EvictionSuffices
  <2>1. Total(counted) > MaxSize /\ quota = Estimate(counted)
        BY <1>1 DEF QuotaRight
  <2>2. victims \in Victims(table, Estimate(counted))
        BY <2>1
  <2>3. QED
        BY <2>1, <2>2, VictimsSuffice
<1>3. StampsFollowAudio
      BY <1>1 DEF StampsStored, StampsFollowAudio, DiskHas
<1>4. AudioKept
  <2> SUFFICES ASSUME events = 0, NEW v \in announced
               PROVE  Available(v) \/ Audio(v) \in evicted
      BY DEF AudioKept
  <2>1. InRedis /\ Located
        BY DEF CacheInd, HandedOver
  <2>2. QED
        BY <2>1 DEF InRedis, Located, DiskHas, Available
<1>5. QED
      BY <1>1, <1>2, <1>3, <1>4 DEF CacheInv

LEMMA CacheIndHolds == Init /\ [][Next]_vars => []CacheInd
<1>1. Init => CacheInd
      BY CacheStarts
<1>2. CacheInd /\ [Next]_vars => CacheInd'
      BY CacheSteps
<1>3. QED
      BY <1>1, <1>2, PTL

\* The cache runs as AudioCache says while the browser plays as Playback says
LEMMA CacheInAudio == AudioSpec => Init /\ [][Next]_vars
<1>1. AudioInit => Init
      BY DEF AudioInit
<1>2. [AudioNext]_audioVars => [Next]_vars
      BY DEF AudioNext, Cache, Player, audioVars
<1>3. QED
      BY <1>1, <1>2, PTL DEF AudioSpec

\* The table and the pins of it, the timestamps' audio and the size that an eviction
\* leaves (cache.py, warm_cache.py): for every number of variants and rows, size,
\* batch, crash, rollback, failed write and early expiry.
THEOREM CacheInvariant == AudioSpec => []CacheInv
<1>1. CacheInd => CacheInv
      BY CacheIndSuffices
<1>2. QED
      BY <1>1, CacheInAudio, CacheIndHolds, PTL

\* Audio that was announced can be fetched from Redis or from SQLite until it is
\* evicted, while nothing fails (result_consumer.py, cache_persister.py, cache.py).
THEOREM AnnouncedAudioIsKept == AudioSpec => []AudioKept
<1>1. CacheInd => AudioKept
      BY CacheIndSuffices
<1>2. QED
      BY <1>1, CacheInAudio, CacheIndHolds, PTL

\* A row of the committed table stays in it or is evicted
CommittedRowsStay ==
    \A r \in Rows : Holds(disk, r) => Holds(disk', r) \/ r \in evicted'

\* What a reader could once find in SQLite leaves it by an eviction only: no rollback,
\* flush, restart or unpinning takes a committed row away (cache.py).
THEOREM OnlyEvictionRemoves == AudioSpec => [][CommittedRowsStay]_vars
<1>1. CacheInd /\ [Next]_vars => CommittedRowsStay
  <2> SUFFICES ASSUME CacheInd, [Next]_vars, NEW r \in Rows
               PROVE  Holds(disk, r) => Holds(disk', r) \/ r \in evicted'
      BY DEF CommittedRowsStay
  <2>1. TypeOK /\ SecondRow /\ CommittedStays
        BY DEF CacheInd
  <2>2. TablesMove
        BY <2>1, TablesStep
  <2>3. QED
        BY <2>1, <2>2, RowsStay
<1>2. CacheInd /\ [Next]_vars => [CommittedRowsStay]_vars
      BY <1>1
<1>3. QED
      BY <1>2, CacheInAudio, CacheIndHolds, PTL

-----------------------------------------------------------------------------
(* The player                                                               *)

Statuses == {"stopped", "playing", "buffering"}
Answers == {"audio", "nothing"}
Promises == [stage : {"unused", "asked"}, key : Keys \cup {<< >>}, doc : Docs \cup {NoDoc},
             waits : Nat]
Pending == [key : Keys, doc : Docs, calls : Seq(Calls), resends : Nat, acknowledged : BOOLEAN]
Sounds == [block : Blocks, voice : Voices, doc : Docs]
Thens == [kind : {"then"}, call : Calls, answer : Answers]
Resumes == [kind : {"continue"}, sound : Sounds, answer : Answers]

Decks == [status : Statuses, cur : Blocks \cup {-1}, voice : Voices, doc : Docs,
          cache : [Keys -> Docs \cup {NoDoc}], empty : SUBSET (Keys \cup {<< >>}),
          promised : [Keys -> Calls \cup {0}], calls : [Calls -> Promises],
          requests : Seq(Pending), fetches : SUBSET Seq(Calls),
          error : {"none", "recoverable", "fatal"}, failures : Nat,
          player : [state : {"idle", "loading", "playing", "paused"}, sound : Sounds \cup {<< >>}],
          ready : Seq(Thens \cup Resumes), ended : Nat]

Here(s) == [block |-> s.cur, voice |-> s.voice, doc |-> s.doc]

\* A call that is free is blank, and from some number on all are free
CallsBlank(s) == \A c \in Calls :
    /\ s.calls[c].stage = "unused" => s.calls[c] = Unused
    /\ s.calls[c].stage = "asked" => s.calls[c].key \in Keys /\ s.calls[c].doc \in Docs
CallsLeft(s) == \E n \in Nat : \A c \in Calls : c > n => s.calls[c].stage = "unused"

\* A promise is a call for its key and the open document, in the chosen voice
Kept(s, k) == /\ k[2] = s.voice
              /\ s.promised[k] \in Calls
              /\ s.calls[s.promised[k]].stage = "asked"
              /\ s.calls[s.promised[k]].key = k /\ s.calls[s.promised[k]].doc = s.doc
PromisesKept(s) == \A k \in Keys : s.promised[k] # 0 => Kept(s, k)

\* What may still be answered with audio is for the voice and the document of now
Fitting(s) == {c \in Calls : s.calls[c].stage = "asked" =>
                   s.calls[c].key \in Keys /\ s.calls[c].key[2] = s.voice /\ s.calls[c].doc = s.doc}
RequestsFit(s, F) == \A i \in DOMAIN s.requests : s.requests[i].calls \in Seq(F)
ReadyFits(s, F) == \A i \in DOMAIN s.ready :
    s.ready[i].kind = "then" /\ s.ready[i].answer = "audio" => s.ready[i].call \in F
AnswersFit(s) ==
    /\ RequestsFit(s, Fitting(s)) /\ s.fetches \subseteq Seq(Fitting(s)) /\ ReadyFits(s, Fitting(s))

CacheFits(s) == \A k \in Keys : s.cache[k] # NoDoc => k[2] = s.voice /\ s.cache[k] = s.doc

\* playBlock waits for at most one answer: that of the block under the cursor
Waiters(s) == {c \in Calls : s.calls[c].waits # 0}
Resuming(s) == {i \in DOMAIN s.ready : s.ready[i].kind = "continue"}
Expects(s) == Waiters(s) # {} \/ Resuming(s) # {}
Expected(s, c) == /\ s.calls[c].stage = "asked" /\ s.calls[c].key = <<s.cur, s.voice>>
                  /\ s.calls[c].doc = s.doc /\ s.calls[c].waits = 1
OneExpected(s) ==
    /\ \A c \in Waiters(s) : Expected(s, c)
    /\ \A c, d \in Waiters(s) : c = d
    /\ \A i, j \in Resuming(s) : i = j
    /\ Waiters(s) = {} \/ Resuming(s) = {}
    /\ \A i \in Resuming(s) : /\ s.ready[i].sound = Here(s)
                              /\ s.ready[i].answer = "audio" => HasAudio(s, s.cur)
    /\ Expects(s) => /\ s.status # "buffering" /\ s.player.state \in {"idle", "paused"}
                     /\ s.cur \in Blocks \ Collapsed

PlayerFits(s) ==
    /\ s.status # "stopped" => s.cur \in Blocks
    /\ s.player.state \in {"loading", "playing"} => s.player.sound = Here(s)
    /\ s.player.state = "playing" => s.status = "playing"
    /\ s.player.state = "loading" => s.cur \in Blocks \ Collapsed /\ HasAudio(s, s.cur)

Calm(s) ==
    /\ s \in Decks
    /\ CallsBlank(s) /\ CallsLeft(s) /\ PromisesKept(s) /\ AnswersFit(s) /\ CacheFits(s)
    /\ OneExpected(s) /\ PlayerFits(s)

LEMMA KeyOf == ASSUME NEW s \in Decks, NEW b \in Blocks
               PROVE  Key(s, b) \in Keys /\ Key(s, b)[2] = s.voice /\ Key(s, b) = <<b, s.voice>>
BY DEF Key, Keys, Decks

-----------------------------------------------------------------------------
(* Stops, loads                                                             *)

\* What a step that leaves all but the player and the status alone keeps
LEMMA PlayerMoves ==
    ASSUME NEW s, Calm(s), NEW t \in Decks,
           t.cur = s.cur, t.voice = s.voice, t.doc = s.doc, t.cache = s.cache,
           t.promised = s.promised, t.calls = s.calls, t.requests = s.requests,
           t.fetches = s.fetches, t.ready = s.ready,
           PlayerFits(t),
           Expects(s) => t.status # "buffering" /\ t.player.state \in {"idle", "paused"}
    PROVE  Calm(t) /\ (Expects(t) <=> Expects(s))
<1>1. CallsBlank(t) /\ CallsLeft(t) /\ CacheFits(t) /\ Fitting(t) = Fitting(s)
      BY DEF Calm, CallsBlank, CallsLeft, CacheFits, Fitting
<1>2. PromisesKept(t)
      BY DEF Calm, PromisesKept, Kept
<1>3. AnswersFit(t)
      BY <1>1 DEF Calm, AnswersFit, RequestsFit, ReadyFits
<1>4. Waiters(t) = Waiters(s) /\ Resuming(t) = Resuming(s) /\ Here(t) = Here(s)
      BY DEF Waiters, Resuming, Here
<1>5. Expects(t) <=> Expects(s)
      BY <1>4 DEF Expects
<1>6. OneExpected(t)
      BY <1>4, <1>5 DEF Calm, OneExpected, Expected, HasAudio, Key
<1>7. QED
      BY <1>1, <1>2, <1>3, <1>5, <1>6 DEF Calm

LEMMA SilencedCalm ==
    ASSUME NEW s, Calm(s)
    PROVE  /\ Calm(Silenced(s)) /\ (Expects(Silenced(s)) <=> Expects(s))
           /\ Silenced(s).player.state = "idle"
           /\ Silenced(s).status = s.status /\ Silenced(s).cur = s.cur
           /\ Silenced(s).voice = s.voice /\ Silenced(s).doc = s.doc
           /\ Silenced(s).cache = s.cache /\ Silenced(s).ready = s.ready
           /\ Silenced(s).calls = s.calls /\ Silenced(s).fetches = s.fetches
<1>1. PICK t : t = Silenced(s)
      OBVIOUS
<1>2. s \in Decks
      BY DEF Calm
<1>3. PICK e \in Nat : e = IF s.player.state = "loading" THEN s.ended + 1 ELSE s.ended
      BY <1>2 DEF Decks
<1>4. t = [s EXCEPT !.player = Silence, !.ended = e]
      BY <1>1, <1>2, <1>3 DEF Silenced, Decks
<1>5. Silence \in [state : {"idle", "loading", "playing", "paused"}, sound : Sounds \cup {<< >>}]
      BY DEF Silence
<1>6. t \in Decks
      BY <1>2, <1>5, <1>4 DEF Decks
<1>7. /\ t.status = s.status /\ t.cur = s.cur /\ t.voice = s.voice /\ t.doc = s.doc
      /\ t.cache = s.cache /\ t.promised = s.promised /\ t.calls = s.calls
      /\ t.requests = s.requests /\ t.fetches = s.fetches /\ t.ready = s.ready
      /\ t.player.state = "idle"
      BY <1>2, <1>4 DEF Decks, Silence
<1>8. PlayerFits(t) /\ (Expects(s) => t.status # "buffering")
      BY <1>7 DEF Calm, PlayerFits, OneExpected
<1>9. QED
      BY <1>1, <1>6, <1>7, <1>8, PlayerMoves

LEMMA StopCalm ==
    ASSUME NEW s, Calm(s), s.player.state # "playing"
    PROVE  /\ Calm(EngineStop(s)) /\ (Expects(EngineStop(s)) <=> Expects(s))
           /\ EngineStop(s).status = "stopped" /\ EngineStop(s).player = s.player
           /\ EngineStop(s).cur = s.cur /\ EngineStop(s).ready = s.ready
           /\ EngineStop(s).voice = s.voice /\ EngineStop(s).doc = s.doc
           /\ EngineStop(s).calls = s.calls /\ EngineStop(s).fetches = s.fetches
<1>1. PICK t : t = EngineStop(s)
      OBVIOUS
<1>2. s \in Decks
      BY DEF Calm
<1>3. /\ t \in Decks /\ t.status = "stopped" /\ t.player = s.player
      /\ t.cur = s.cur /\ t.voice = s.voice /\ t.doc = s.doc
      /\ t.cache = s.cache /\ t.promised = s.promised /\ t.calls = s.calls
      /\ t.requests = s.requests /\ t.fetches = s.fetches /\ t.ready = s.ready
      BY <1>1, <1>2 DEF EngineStop, Decks, Statuses
<1>4. PlayerFits(t)
      BY <1>3 DEF Calm, PlayerFits, Here, HasAudio, Key
<1>5. Expects(s) => t.player.state \in {"idle", "paused"}
      BY <1>3 DEF Calm, OneExpected
<1>6. QED
      BY <1>1, <1>3, <1>4, <1>5, PlayerMoves

LEMMA LoadCalm ==
    ASSUME NEW s, Calm(s), ~Expects(s), s.status = "playing",
           s.cur \in Blocks \ Collapsed, HasAudio(s, s.cur)
    PROVE  Calm(Load(s, Here(s)))
<1>1. PICK q : q = Silenced(s)
      OBVIOUS
<1>2. /\ Calm(q) /\ ~Expects(q) /\ q.status = "playing" /\ q.cur = s.cur /\ q.voice = s.voice
      /\ q.doc = s.doc /\ q.cache = s.cache
      BY <1>1, SilencedCalm
<1>3. q \in Decks /\ Here(q) = Here(s) /\ Here(q) \in Sounds
      BY <1>2 DEF Calm, Decks, Here, Sounds
<1>4. PICK p : p = [state |-> "loading", sound |-> Here(s)]
      OBVIOUS
<1>5. p \in [state : {"idle", "loading", "playing", "paused"}, sound : Sounds \cup {<< >>}]
      BY <1>3, <1>4
<1>6. PICK t : t = [q EXCEPT !.player = p]
      OBVIOUS
<1>7. /\ t \in Decks /\ t.player = p /\ t.status = q.status
      /\ t.cur = q.cur /\ t.voice = q.voice /\ t.doc = q.doc
      /\ t.cache = q.cache /\ t.promised = q.promised /\ t.calls = q.calls
      /\ t.requests = q.requests /\ t.fetches = q.fetches /\ t.ready = q.ready
      BY <1>3, <1>5, <1>6 DEF Decks
<1>8. PlayerFits(t)
      BY <1>2, <1>3, <1>4, <1>7 DEF PlayerFits, Here, HasAudio, Key
<1>9. Calm(t)
      BY <1>2, <1>7, <1>8, PlayerMoves
<1>10. Load(s, Here(s)) = t
       BY <1>1, <1>4, <1>6 DEF Load
<1>11. QED
       BY <1>9, <1>10

-----------------------------------------------------------------------------
(* A block is asked for                                                     *)

LEMMA CallLeft ==
    ASSUME NEW s, Calm(s), Calls = Nat \ {0}
    PROVE  /\ Min({c \in Calls : s.calls[c].stage = "unused"}) \in Calls
           /\ s.calls[Min({c \in Calls : s.calls[c].stage = "unused"})].stage = "unused"
<1>1. PICK S : S = {c \in Calls : s.calls[c].stage = "unused"}
      OBVIOUS
<1>2. PICK n \in Nat : \A c \in Calls : c > n => s.calls[c].stage = "unused"
      BY DEF Calm, CallsLeft
<1>3. n + 1 \in Calls /\ n + 1 > n
      OBVIOUS
<1>4. S \in SUBSET Nat /\ S # {}
      BY <1>1, <1>2, <1>3
<1>5. Min(S) \in S
      BY <1>4, MinIsLeast
<1>6. QED
      BY <1>1, <1>5

LEMMA RequestedFits ==
    ASSUME NEW s \in Decks, NEW call \in Calls, NEW b \in Blocks
    PROVE  \E q \in Seq(Pending) :
              /\ Requested(s, call, b) = [s EXCEPT !.requests = q]
              /\ \A F : call \in F /\ RequestsFit(s, F) =>
                    \A i \in DOMAIN q : q[i].calls \in Seq(F)
<1>1. s.requests \in Seq(Pending) /\ s.doc \in Docs /\ Key(s, b) \in Keys
      BY KeyOf DEF Decks
<1>2. PICK same : same = SelectInSeq(s.requests, LAMBDA r : r.key = Key(s, b) /\ r.doc = s.doc)
      OBVIOUS
<1>3. same # 0 => same \in DOMAIN s.requests
  <2>1. PICK I : I = {i \in 1 .. Len(s.requests) :
                         s.requests[i].key = Key(s, b) /\ s.requests[i].doc = s.doc}
        OBVIOUS
  <2>2. I \in SUBSET Nat /\ I \subseteq DOMAIN s.requests
        BY <1>1, <2>1
  <2>3. same = IF I # {} THEN Min(I) ELSE 0
        BY <1>2, <2>1 DEF SelectInSeq
  <2>4. QED
        BY <2>2, <2>3, MinIsLeast
<1>4. CASE same # 0
  <2>1. PICK r : r = [s.requests[same] EXCEPT !.calls = Append(@, call)]
        OBVIOUS
  <2>2. s.requests[same] \in Pending
        BY <1>1, <1>3, <1>4
  <2>3. s.requests[same] \in Pending /\ s.requests[same].calls \in Seq(Calls)
        BY <2>2 DEF Pending
  <2>4. Append(s.requests[same].calls, call) \in Seq(Calls)
        BY <2>3
  <2>5. r \in Pending /\ r.calls = Append(s.requests[same].calls, call)
        BY <2>1, <2>3, <2>4 DEF Pending
  <2>6. PICK q : q = [s.requests EXCEPT ![same] = r]
        OBVIOUS
  <2>7. q \in Seq(Pending) /\ DOMAIN q = DOMAIN s.requests
        BY <1>1, <1>3, <1>4, <2>5, <2>6
  <2>8. \A i \in DOMAIN q : q[i] = IF i = same THEN r ELSE s.requests[i]
        BY <1>1, <1>3, <1>4, <2>6
  <2>9. ASSUME NEW F, call \in F, RequestsFit(s, F)
        PROVE  \A i \in DOMAIN q : q[i].calls \in Seq(F)
    <3>1. s.requests[same].calls \in Seq(F)
          BY <1>3, <1>4, <2>9 DEF RequestsFit
    <3>2. r.calls \in Seq(F)
          BY <2>5, <2>9, <3>1
    <3>3. QED
          BY <2>7, <2>8, <2>9, <3>2 DEF RequestsFit
  <2>10. Requested(s, call, b) = [s EXCEPT !.requests = q]
        BY <1>2, <1>4, <2>1, <2>6 DEF Requested, Decks
  <2>11. QED
        BY <2>7, <2>9, <2>10
<1>5. CASE same = 0
  <2>1. PICK r : r = [key |-> Key(s, b), doc |-> s.doc, calls |-> <<call>>,
                      resends |-> 0, acknowledged |-> FALSE]
        OBVIOUS
  <2>2. r \in Pending
        BY <1>1, <2>1 DEF Pending
  <2>3. PICK q : q = Append(s.requests, r)
        OBVIOUS
  <2>4. q \in Seq(Pending)
        BY <1>1, <2>2, <2>3
  <2>5. \A i \in DOMAIN q : (i \in DOMAIN s.requests /\ q[i] = s.requests[i]) \/ q[i] = r
        BY <1>1, <2>3
  <2>6. ASSUME NEW F, call \in F, RequestsFit(s, F)
        PROVE  \A i \in DOMAIN q : q[i].calls \in Seq(F)
    <3>1. r.calls = <<call>> /\ <<call>> \in Seq(F)
          BY <2>1, <2>6
    <3>2. QED
          BY <2>5, <2>6, <3>1 DEF RequestsFit
  <2>7. Requested(s, call, b) = [s EXCEPT !.requests = q]
        BY <1>2, <1>5, <2>1, <2>3 DEF Requested, Decks
  <2>8. QED
        BY <2>4, <2>6, <2>7
<1>6. QED
      BY <1>4, <1>5

\* Nothing but promises, calls and requests changes when a block is asked for
SynthesizeFrame(s, t) ==
    /\ t.status = s.status /\ t.cur = s.cur /\ t.voice = s.voice /\ t.doc = s.doc
    /\ t.cache = s.cache /\ t.player = s.player /\ t.ready = s.ready /\ t.fetches = s.fetches

\* Call c is made, or shared, for block b of the open document, in the chosen voice
FitsStay(s, t, c) == \A F : c \in F /\ RequestsFit(s, F) => RequestsFit(t, F)
AskedFor(s, t, c, b) ==
    /\ t.calls[c] = [stage |-> "asked", key |-> Key(s, b), doc |-> s.doc,
                     waits |-> t.calls[c].waits]
    /\ \A d \in Calls \ {c} : t.calls[d] = s.calls[d]
    /\ s.calls[c].waits # 0 => s.calls[c].key = Key(s, b)
    /\ t.promised[Key(s, b)] = c
    /\ \A k \in Keys \ {Key(s, b)} : t.promised[k] = s.promised[k] /\ s.promised[k] # c
    /\ FitsStay(s, t, c)

\* playBlock may wait: nothing else is awaited, and nothing sounds
MayWait(s, b) == /\ b = s.cur /\ ~Expects(s)
                 /\ s.status # "buffering" /\ s.player.state \in {"idle", "paused"}
                 /\ s.cur \notin Collapsed

LEMMA AskedCalm ==
    ASSUME NEW s, Calm(s), NEW t \in Decks, SynthesizeFrame(s, t),
           NEW c \in Calls, NEW b \in Blocks, AskedFor(s, t, c, b),
           s.calls[c].waits = t.calls[c].waits \/ (t.calls[c].waits = 1 /\ MayWait(s, b))
    PROVE  Calm(t) /\ (s.calls[c].waits = t.calls[c].waits => (Expects(t) <=> Expects(s)))
<1>1. s \in Decks /\ Key(s, b) \in Keys /\ Key(s, b)[2] = s.voice /\ Key(s, b) = <<b, s.voice>>
      BY KeyOf DEF Calm
<1>2. /\ t.calls[c] = [stage |-> "asked", key |-> Key(s, b), doc |-> s.doc,
                       waits |-> t.calls[c].waits]
      /\ \A d \in Calls \ {c} : t.calls[d] = s.calls[d]
      /\ s.calls[c].waits # 0 => s.calls[c].key = Key(s, b)
      /\ t.promised[Key(s, b)] = c
      /\ \A k \in Keys \ {Key(s, b)} : t.promised[k] = s.promised[k] /\ s.promised[k] # c
      BY DEF AskedFor
<1>3. s.doc \in Docs /\ s.calls \in [Calls -> Promises] /\ t.calls \in [Calls -> Promises]
      BY <1>1 DEF Decks
<1>4. CallsBlank(t)
      BY <1>2, <1>1, <1>3 DEF Calm, CallsBlank
<1>5. CallsLeft(t)
  <2>1. PICK n \in Nat : \A d \in Calls : d > n => s.calls[d].stage = "unused"
        BY DEF Calm, CallsLeft
  <2>2. c \in Nat
        BY PlaybackAssumption
  <2>3. PICK m \in Nat : m >= n /\ m >= c
        BY <2>2
  <2>4. ASSUME NEW d \in Calls, d > m
        PROVE  t.calls[d].stage = "unused"
    <3>1. d \in Nat
          BY PlaybackAssumption
    <3>2. d > n /\ d # c
          BY <2>2, <2>3, <2>4, <3>1
    <3>3. QED
          BY <1>2, <2>1, <3>2
  <2>5. QED
        BY <2>4 DEF CallsLeft
<1>6. PromisesKept(t)
      BY <1>2, <1>1 DEF Calm, PromisesKept, Kept, SynthesizeFrame
<1>7. Fitting(s) \subseteq Fitting(t) /\ c \in Fitting(t)
      BY <1>2, <1>1 DEF Fitting, SynthesizeFrame
<1>8. Seq(Fitting(s)) \subseteq Seq(Fitting(t))
      BY <1>7
<1>9. AnswersFit(t)
  <2>1. RequestsFit(s, Fitting(t))
        BY <1>8 DEF Calm, AnswersFit, RequestsFit
  <2>2. RequestsFit(t, Fitting(t))
        BY <1>7, <2>1 DEF AskedFor, FitsStay
  <2>3. ReadyFits(t, Fitting(t))
        BY <1>7 DEF Calm, AnswersFit, ReadyFits, SynthesizeFrame
  <2>4. t.fetches \subseteq Seq(Fitting(t))
        BY <1>8 DEF Calm, AnswersFit, SynthesizeFrame
  <2>5. QED
        BY <2>2, <2>3, <2>4 DEF AnswersFit
<1>10. CacheFits(t)
      BY DEF Calm, CacheFits, SynthesizeFrame
<1>11. PlayerFits(t)
       BY DEF Calm, PlayerFits, SynthesizeFrame, Here, HasAudio, Key
<1>12. Resuming(t) = Resuming(s) /\ Here(t) = Here(s)
       BY DEF Resuming, Here, SynthesizeFrame
<1>13. CASE s.calls[c].waits = t.calls[c].waits
  <2>1. Waiters(t) = Waiters(s)
        BY <1>2, <1>13 DEF Waiters
  <2>2. \A d \in Waiters(t) : Expected(t, d)
    <3>1. ASSUME NEW d \in Waiters(t), d # c
          PROVE  Expected(t, d)
          BY <1>2, <2>1, <3>1 DEF Calm, OneExpected, Waiters, Expected, SynthesizeFrame
    <3>2. ASSUME c \in Waiters(t)
          PROVE  Expected(t, c)
      <4>1. Expected(s, c)
            BY <2>1, <3>2 DEF Calm, OneExpected
      <4>2. s.calls[c].waits = 1 /\ s.calls[c].key = <<s.cur, s.voice>>
            BY <4>1 DEF Expected
      <4>3. t.calls[c].stage = "asked" /\ t.calls[c].key = s.calls[c].key
            /\ t.calls[c].doc = s.doc /\ t.calls[c].waits = 1
            BY <1>2, <1>13, <4>2
      <4>4. QED
            BY <4>2, <4>3 DEF Expected, SynthesizeFrame
    <3>3. QED
          BY <3>1, <3>2
  <2>3. Expects(t) <=> Expects(s)
        BY <1>12, <2>1 DEF Expects
  <2>4. OneExpected(t)
        BY <1>12, <2>1, <2>2, <2>3 DEF Calm, OneExpected, SynthesizeFrame, HasAudio, Key
  <2>5. QED
        BY <1>4, <1>5, <1>6, <1>9, <1>10, <1>11, <2>3, <2>4 DEF Calm
<1>14. CASE t.calls[c].waits = 1 /\ MayWait(s, b) /\ s.calls[c].waits # t.calls[c].waits
  <2>1. Waiters(t) = {c} /\ Resuming(t) = {}
        BY <1>2, <1>12, <1>14 DEF Waiters, Expects, MayWait
  <2>2. Expected(t, c)
        BY <1>2, <1>1, <1>14 DEF Expected, SynthesizeFrame, MayWait
  <2>3. OneExpected(t)
        BY <1>14, <2>1, <2>2 DEF OneExpected, SynthesizeFrame, MayWait, Blocks
  <2>4. QED
        BY <1>4, <1>5, <1>6, <1>9, <1>10, <1>11, <1>14, <2>3 DEF Calm
<1>15. QED
       BY <1>13, <1>14

LEMMA SynthesizeCalm ==
    ASSUME NEW s, Calm(s), Calls = Nat \ {0}, NEW b \in Blocks, NEW w \in {0, 1},
           w = 1 => MayWait(s, b)
    PROVE  /\ Calm(SynthesizeBlock(s, b, w)) /\ SynthesizeFrame(s, SynthesizeBlock(s, b, w))
           /\ w = 0 => (Expects(SynthesizeBlock(s, b, w)) <=> Expects(s))
<1>1. /\ s \in Decks /\ Key(s, b) \in Keys /\ Key(s, b)[2] = s.voice /\ Key(s, b) = <<b, s.voice>>
      /\ CallsBlank(s) /\ PromisesKept(s)
      BY KeyOf DEF Calm
<1>2. /\ s.doc \in Docs /\ s.calls \in [Calls -> Promises] /\ s.promised \in [Keys -> Calls \cup {0}]
      /\ 0 \notin Calls
      BY <1>1, PlaybackAssumption DEF Decks
<1>3. PICK old : old = s.promised[Key(s, b)]
      OBVIOUS
<1>4. CASE old # 0
  <2>1. old \in Calls /\ s.calls[old].stage = "asked" /\ s.calls[old].key = Key(s, b)
        /\ s.calls[old].doc = s.doc
        BY <1>1, <1>3, <1>4 DEF PromisesKept, Kept
  <2>2. s.calls[old] \in Promises /\ s.calls[old].waits \in Nat
        BY <1>2, <2>1 DEF Promises
  <2>3. PICK r : r = [stage |-> "asked", key |-> Key(s, b), doc |-> s.doc,
                      waits |-> s.calls[old].waits + w]
        OBVIOUS
  <2>4. s.calls[old].waits + w \in Nat
        BY <2>2
  <2>5. r \in Promises
        BY <1>1, <1>2, <2>3, <2>4 DEF Promises
  <2>6. r = [s.calls[old] EXCEPT !.waits = @ + w]
        BY <2>1, <2>2, <2>3 DEF Promises
  <2>7. r \in Promises /\ r = [s.calls[old] EXCEPT !.waits = @ + w]
        BY <2>5, <2>6
  <2>8. PICK t : t = [s EXCEPT !.calls = [s.calls EXCEPT ![old] = r]]
        OBVIOUS
  <2>9. t \in Decks /\ SynthesizeFrame(s, t) /\ t.promised = s.promised
        /\ t.requests = s.requests /\ t.calls = [s.calls EXCEPT ![old] = r]
        BY <1>1, <1>2, <2>7, <2>8 DEF Decks, SynthesizeFrame
  <2>10. t.calls[old] = r /\ \A d \in Calls \ {old} : t.calls[d] = s.calls[d]
        BY <1>2, <2>1, <2>9
  <2>11. SynthesizeBlock(s, b, w) = t
        BY <1>1, <1>3, <1>4, <2>7, <2>8 DEF SynthesizeBlock, Decks
  <2>12. t.calls[old] = [stage |-> "asked", key |-> Key(s, b), doc |-> s.doc,
                        waits |-> t.calls[old].waits]
        BY <2>3, <2>10
  <2>13. t.promised[Key(s, b)] = old
         BY <1>3, <2>9
  <2>14. \A k \in Keys \ {Key(s, b)} : t.promised[k] = s.promised[k] /\ s.promised[k] # old
         BY <1>1, <1>4, <2>1, <2>9 DEF PromisesKept, Kept
  <2>15. AskedFor(s, t, old, b)
    <3>1. FitsStay(s, t, old)
          BY <2>9 DEF RequestsFit, FitsStay
    <3>2. QED
          BY <2>1, <2>10, <2>12, <2>13, <2>14, <3>1 DEF AskedFor
  <2>16. CASE w = 0
    <3>1. s.calls[old].waits = t.calls[old].waits
          BY <2>2, <2>3, <2>10, <2>16
    <3>2. QED
          BY <2>1, <2>9, <2>11, <2>15, <2>16, <3>1, AskedCalm
  <2>17. CASE w = 1
    <3>1. s.calls[old].waits = 0
          BY <2>1, <2>17 DEF Expects, Waiters, MayWait
    <3>2. t.calls[old].waits = 1
          BY <2>3, <2>10, <2>17, <3>1
    <3>3. MayWait(s, b)
          BY <2>17
    <3>4. Calm(t)
          BY <2>1, <2>9, <2>15, <3>2, <3>3, AskedCalm
    <3>5. w # 0
          BY <2>17
    <3>6. QED
          BY <2>9, <2>11, <3>4, <3>5
  <2>18. QED
         BY <2>16, <2>17
<1>5. CASE old = 0
  <2>1. PICK c : c = Min({d \in Calls : s.calls[d].stage = "unused"})
        OBVIOUS
  <2>2. c \in Calls /\ s.calls[c].stage = "unused"
        BY <2>1, CallLeft
  <2>3. s.calls[c] = Unused /\ s.calls[c].waits = 0
        BY <1>1, <2>2 DEF CallsBlank, Unused
  <2>4. PICK r : r = [stage |-> "asked", key |-> Key(s, b), doc |-> s.doc, waits |-> w]
        OBVIOUS
  <2>5. r \in Promises
        BY <1>1, <1>2, <2>4 DEF Promises
  <2>6. PICK q \in Seq(Pending) :
              /\ Requested(s, c, b) = [s EXCEPT !.requests = q]
              /\ \A F : c \in F /\ RequestsFit(s, F) =>
                    \A i \in DOMAIN q : q[i].calls \in Seq(F)
        BY <1>1, <2>2, RequestedFits
  <2>7. PICK t : t = [s EXCEPT !.requests = q,
                               !.promised = [s.promised EXCEPT ![Key(s, b)] = c],
                               !.calls = [s.calls EXCEPT ![c] = r]]
        OBVIOUS
  <2>8. [s.promised EXCEPT ![Key(s, b)] = c] \in [Keys -> Calls \cup {0}]
        /\ [s.calls EXCEPT ![c] = r] \in [Calls -> Promises]
        BY <1>1, <1>2, <2>2, <2>5
  <2>9. t \in Decks /\ SynthesizeFrame(s, t) /\ t.requests = q
        /\ t.promised = [s.promised EXCEPT ![Key(s, b)] = c]
        /\ t.calls = [s.calls EXCEPT ![c] = r]
        BY <1>1, <2>7, <2>8 DEF Decks, SynthesizeFrame
  <2>10. SynthesizeBlock(s, b, w) = t
         BY <1>1, <1>3, <1>5, <2>1, <2>4, <2>6, <2>7 DEF SynthesizeBlock, Decks
  <2>11. t.calls[c] = r /\ \A d \in Calls \ {c} : t.calls[d] = s.calls[d]
         BY <1>2, <2>2, <2>9
  <2>12. t.calls[c] = [stage |-> "asked", key |-> Key(s, b), doc |-> s.doc,
                        waits |-> t.calls[c].waits] /\ t.calls[c].waits = w
         BY <2>4, <2>11
  <2>13. t.promised[Key(s, b)] = c
         BY <1>1, <1>2, <2>9
  <2>14. \A k \in Keys \ {Key(s, b)} : t.promised[k] = s.promised[k] /\ s.promised[k] # c
         BY <1>1, <1>2, <2>2, <2>9 DEF PromisesKept, Kept
  <2>15. AskedFor(s, t, c, b)
    <3>1. FitsStay(s, t, c)
          BY <2>6, <2>9 DEF RequestsFit, FitsStay
    <3>2. QED
          BY <2>3, <2>11, <2>12, <2>13, <2>14, <3>1 DEF AskedFor
  <2>16. s.calls[c].waits = t.calls[c].waits \/ (t.calls[c].waits = 1 /\ MayWait(s, b))
         BY <2>3, <2>12
  <2>17. w = 0 => s.calls[c].waits = t.calls[c].waits
         BY <2>3, <2>12
  <2>18. QED
         BY <2>2, <2>9, <2>10, <2>15, <2>16, <2>17, AskedCalm
<1>6. QED
      BY <1>4, <1>5

-----------------------------------------------------------------------------
(* Blocks are asked for ahead                                               *)

PrefetchStep(acc, b) == IF Underway(acc, b) THEN acc ELSE SynthesizeBlock(acc, b, 0)

Prefetching(s, from, q) == CHOOSE fold : fold = [T \in SUBSET DOMAIN q |->
    IF T = {} THEN s ELSE PrefetchStep(fold[T \ {Max(T)}], from + q[Max(T)] - 1)]

LEMMA PrefetchIsFold ==
    ASSUME NEW s, NEW from, NEW count, NEW q,
           q = [i \in 1 .. (Min({from + count, NBlocks}) - 1) - from + 1 |-> i]
    PROVE  TriggerPrefetch(s, from, count) = Prefetching(s, from, q)[DOMAIN q]
BY DEF TriggerPrefetch, FoldLeft, MapThenFoldSet, Prefetching, PrefetchStep

LEMMA UpTo ==
    ASSUME NEW m \in Int
    PROVE  \E n \in Nat : 1 .. m = 1 .. n /\ n = IF m < 0 THEN 0 ELSE m
<1>1. CASE m < 0
      BY <1>1
<1>2. CASE m >= 0
      BY <1>2
<1>3. QED
      BY <1>1, <1>2

LEMMA PrefetchCalm ==
    ASSUME NEW s, Calm(s), Calls = Nat \ {0}, NEW from \in Nat, NEW count \in Nat
    PROVE  LET t == TriggerPrefetch(s, from, count)
           IN  Calm(t) /\ SynthesizeFrame(s, t) /\ (Expects(t) <=> Expects(s))
<1>1. PICK last : last = Min({from + count, NBlocks})
      OBVIOUS
<1>2. last \in Nat /\ last <= NBlocks
  <2>1. {from + count, NBlocks} \in SUBSET Nat /\ NBlocks \in {from + count, NBlocks}
        BY PlaybackAssumption
  <2>2. QED
        BY <1>1, <2>1, MinIsLeast
<1>3. PICK n \in Nat : /\ 1 .. (last - 1) - from + 1 = 1 .. n
                       /\ n = IF (last - 1) - from + 1 < 0 THEN 0 ELSE (last - 1) - from + 1
  <2>1. (last - 1) - from + 1 \in Int
        BY <1>2
  <2>2. QED
        BY <2>1, UpTo
<1>4. \A i \in 1 .. n : from + i - 1 \in Blocks
      BY <1>2, <1>3, PlaybackAssumption DEF Blocks
<1>5. PICK q : q = [i \in 1 .. (last - 1) - from + 1 |-> i]
      OBVIOUS
<1>6. DOMAIN q = 1 .. n /\ \A i \in 1 .. n : q[i] = i
      BY <1>3, <1>5
<1>7. PICK D : D = {d \in Decks : Calm(d) /\ SynthesizeFrame(s, d) /\ (Expects(d) <=> Expects(s))}
      OBVIOUS
<1>8. s \in D
      BY <1>7 DEF Calm, SynthesizeFrame
<1>9. ASSUME NEW d \in D, NEW b \in Blocks
      PROVE  PrefetchStep(d, b) \in D
  <2>1. CASE Underway(d, b)
        BY <2>1 DEF PrefetchStep
  <2>2. CASE ~Underway(d, b)
    <3>1. PICK e : e = SynthesizeBlock(d, b, 0)
          OBVIOUS
    <3>2. Calm(d) /\ SynthesizeFrame(s, d) /\ (Expects(d) <=> Expects(s))
          BY <1>7
    <3>3. Calm(e) /\ SynthesizeFrame(d, e) /\ (Expects(e) <=> Expects(d))
          BY <3>1, <3>2, SynthesizeCalm
    <3>4. SynthesizeFrame(s, e) /\ e \in Decks
          BY <3>2, <3>3 DEF SynthesizeFrame, Calm
    <3>5. e \in D
          BY <1>7, <3>2, <3>3, <3>4
    <3>6. QED
          BY <2>2, <3>1, <3>5 DEF PrefetchStep
  <2>3. QED
        BY <2>1, <2>2
<1>10. PICK step : step = [p \in (1 .. n) \X D |-> PrefetchStep(p[2], from + p[1] - 1)]
       OBVIOUS
<1>11. step \in [(1 .. n) \X D -> D]
       BY <1>4, <1>9, <1>10
<1>12. PICK fold \in [SUBSET (1 .. n) -> D] : FoldOf(fold, n, s, step)
       BY <1>8, <1>11, FoldExists
<1>13. \A T \in SUBSET (1 .. n) :
               fold[T] = IF T = {} THEN s ELSE step[<<Max(T), fold[T \ {Max(T)}]>>]
       BY <1>12 DEF FoldOf
<1>14. \A T \in SUBSET (1 .. n) : T # {} => Max(T) \in T
       BY MaxIsIn
<1>15. \A T \in SUBSET (1 .. n) : T # {} =>
           step[<<Max(T), fold[T \ {Max(T)}]>>] = PrefetchStep(fold[T \ {Max(T)}], from + q[Max(T)] - 1)
  <2>1. ASSUME NEW T \in SUBSET (1 .. n), T # {}
        PROVE  step[<<Max(T), fold[T \ {Max(T)}]>>]
                 = PrefetchStep(fold[T \ {Max(T)}], from + q[Max(T)] - 1)
    <3>1. PICK m \in 1 .. n : m = Max(T)
          BY <1>14, <2>1
    <3>2. PICK d \in D : d = fold[T \ {m}]
          BY <1>13
    <3>3. step[<<m, d>>] = PrefetchStep(d, from + m - 1)
          BY <1>10
    <3>4. QED
          BY <1>6, <3>1, <3>2, <3>3
  <2>2. QED
        BY <2>1
<1>16. fold = [T \in SUBSET DOMAIN q |->
                 IF T = {} THEN s ELSE PrefetchStep(fold[T \ {Max(T)}], from + q[Max(T)] - 1)]
       BY <1>6, <1>13, <1>15
<1>17. PICK made : made = Prefetching(s, from, q)
       OBVIOUS
<1>18. made = [T \in SUBSET DOMAIN q |->
                 IF T = {} THEN s ELSE PrefetchStep(made[T \ {Max(T)}], from + q[Max(T)] - 1)]
       BY <1>16, <1>17 DEF Prefetching
<1>19. made[{}] \in D
       BY <1>8, <1>18
<1>20. \A T \in SUBSET (1 .. n) : T # {} /\ made[T \ {Max(T)}] \in D => made[T] \in D
  <2>1. ASSUME NEW T \in SUBSET (1 .. n), T # {}, made[T \ {Max(T)}] \in D
        PROVE  made[T] \in D
    <3>1. PICK m \in 1 .. n : m = Max(T)
          BY <1>14, <2>1
    <3>2. made[T] = PrefetchStep(made[T \ {m}], from + m - 1)
          BY <1>6, <1>18, <2>1, <3>1
    <3>3. PICK d \in D : d = made[T \ {m}]
          BY <2>1, <3>1
    <3>4. PICK b \in Blocks : b = from + m - 1
          BY <1>4, <3>1
    <3>5. QED
          BY <1>9, <3>2, <3>3, <3>4
  <2>2. QED
        BY <2>1
<1>21. made[1 .. n] \in D
       BY <1>19, <1>20, FoldStays
<1>22. TriggerPrefetch(s, from, count) = made[1 .. n]
  <2>1. q = [i \in 1 .. (Min({from + count, NBlocks}) - 1) - from + 1 |-> i]
        BY <1>1, <1>5
  <2>2. TriggerPrefetch(s, from, count) = Prefetching(s, from, q)[DOMAIN q]
        BY <2>1, PrefetchIsFold
  <2>3. QED
        BY <1>6, <1>17, <2>2
<1>23. QED
       BY <1>7, <1>21, <1>22

LEMMA RefillCalm ==
    ASSUME NEW s, Calm(s), Calls = Nat \ {0}
    PROVE  LET t == CheckAndRefillBuffer(s)
           IN  Calm(t) /\ SynthesizeFrame(s, t) /\ (Expects(t) <=> Expects(s))
<1>1. PICK unready : unready = {b \in s.cur + 1 .. NBlocks - 1 : ~ Underway(s, b)}
      OBVIOUS
<1>2. CASE unready = {} \/ Min(unready) - (s.cur + 1) >= RefillThreshold
  <2>1. CheckAndRefillBuffer(s) = s
        BY <1>1, <1>2 DEF CheckAndRefillBuffer
  <2>2. QED
        BY <2>1 DEF SynthesizeFrame
<1>3. CASE ~(unready = {} \/ Min(unready) - (s.cur + 1) >= RefillThreshold)
  <2>1. s.cur \in Blocks \cup {-1}
        BY DEF Calm, Decks
  <2>2. unready \in SUBSET Nat
        BY <1>1, <2>1, PlaybackAssumption DEF Blocks
  <2>3. Min(unready) \in Nat
        BY <1>3, <2>2, MinIsLeast
  <2>4. BatchSize \in Nat
        BY PlaybackAssumption
  <2>5. CheckAndRefillBuffer(s) = TriggerPrefetch(s, Min(unready), BatchSize)
        BY <1>1, <1>3 DEF CheckAndRefillBuffer
  <2>6. QED
        BY <2>3, <2>4, <2>5, PrefetchCalm
<1>4. QED
      BY <1>2, <1>3

\* What playBlock ends with moves neither the player nor the cursor
EndFrame(s, t) ==
    /\ t.status = s.status /\ t.cur = s.cur /\ t.voice = s.voice /\ t.doc = s.doc
    /\ t.player = s.player /\ t.ready = s.ready /\ t.fetches = s.fetches

LEMMA EvictCalm ==
    ASSUME NEW s, Calm(s)
    PROVE  LET t == EvictOldBlocks(s)
           IN  Calm(t) /\ EndFrame(s, t) /\ (Expects(t) <=> Expects(s))
<1>1. PICK t : t = EvictOldBlocks(s)
      OBVIOUS
<1>2. s \in Decks
      BY DEF Calm
<1>3. PICK remains : remains = [k \in Keys |-> IF k[2] = s.voice /\ k[1] < s.cur - EvictBehind
                                         THEN NoDoc ELSE s.cache[k]]
      OBVIOUS
<1>4. remains \in [Keys -> Docs \cup {NoDoc}]
      BY <1>2, <1>3 DEF Decks
<1>5. t = [s EXCEPT !.cache = remains]
      BY <1>1, <1>2, <1>3 DEF EvictOldBlocks, Decks
<1>6. /\ t \in Decks /\ EndFrame(s, t) /\ t.cache = remains /\ t.promised = s.promised
      /\ t.calls = s.calls /\ t.requests = s.requests
      BY <1>2, <1>4, <1>5 DEF Decks, EndFrame
<1>7. \A k \in Keys : remains[k] = s.cache[k] \/ remains[k] = NoDoc
      BY <1>3
<1>8. s.cur \in Blocks => remains[Key(s, s.cur)] = s.cache[Key(s, s.cur)]
  <2>1. ASSUME s.cur \in Blocks
        PROVE  remains[Key(s, s.cur)] = s.cache[Key(s, s.cur)]
    <3>1. Key(s, s.cur) \in Keys /\ Key(s, s.cur) = <<s.cur, s.voice>>
          BY <1>2, <2>1, KeyOf
    <3>2. ~(s.cur < s.cur - EvictBehind)
          BY <2>1, PlaybackAssumption DEF Blocks
    <3>3. QED
          BY <1>3, <3>1, <3>2
  <2>2. QED
        BY <2>1
<1>9. s.cur \in Blocks => (HasAudio(t, t.cur) <=> HasAudio(s, s.cur))
      BY <1>6, <1>8 DEF HasAudio, Key, EndFrame
<1>10. CallsBlank(t) /\ CallsLeft(t) /\ Fitting(t) = Fitting(s)
       BY <1>6 DEF Calm, CallsBlank, CallsLeft, Fitting, EndFrame
<1>11. PromisesKept(t)
       BY <1>6 DEF Calm, PromisesKept, Kept, EndFrame
<1>12. AnswersFit(t)
       BY <1>6, <1>10 DEF Calm, AnswersFit, RequestsFit, ReadyFits, EndFrame
<1>13. CacheFits(t)
       BY <1>6, <1>7 DEF Calm, CacheFits, EndFrame
<1>14. Waiters(t) = Waiters(s) /\ Resuming(t) = Resuming(s) /\ Here(t) = Here(s)
       BY <1>6 DEF Waiters, Resuming, Here, EndFrame
<1>15. Expects(t) <=> Expects(s)
       BY <1>14 DEF Expects
<1>16. OneExpected(t)
  <2>1. \A c \in Waiters(t) : Expected(t, c)
        BY <1>6, <1>14 DEF Calm, OneExpected, Expected, EndFrame
  <2>2. Resuming(s) # {} => s.cur \in Blocks
        BY DEF Calm, OneExpected, Expects
  <2>3. \A i \in Resuming(t) : /\ t.ready[i].sound = Here(t)
                               /\ t.ready[i].answer = "audio" => HasAudio(t, t.cur)
        BY <1>6, <1>9, <1>14, <2>2 DEF Calm, OneExpected, EndFrame
  <2>4. Expects(t) => /\ t.status # "buffering" /\ t.player.state \in {"idle", "paused"}
                      /\ t.cur \in Blocks \ Collapsed
        BY <1>6, <1>15 DEF Calm, OneExpected, EndFrame
  <2>5. QED
        BY <1>14, <2>1, <2>3, <2>4 DEF Calm, OneExpected
<1>17. PlayerFits(t)
       BY <1>6, <1>9, <1>14 DEF Calm, PlayerFits, EndFrame
<1>18. QED
       BY <1>1, <1>6, <1>10, <1>11, <1>12, <1>13, <1>15, <1>16, <1>17 DEF Calm

LEMMA EndCalm ==
    ASSUME NEW s, Calm(s), Calls = Nat \ {0}
    PROVE  LET t == PlayBlockEnd(s)
           IN  Calm(t) /\ EndFrame(s, t) /\ (Expects(t) <=> Expects(s))
<1>1. PICK q : q = CheckAndRefillBuffer(s)
      OBVIOUS
<1>2. Calm(q) /\ SynthesizeFrame(s, q) /\ (Expects(q) <=> Expects(s))
      BY <1>1, RefillCalm
<1>3. PICK t : t = EvictOldBlocks(q)
      OBVIOUS
<1>4. Calm(t) /\ EndFrame(q, t) /\ (Expects(t) <=> Expects(q))
      BY <1>2, <1>3, EvictCalm
<1>5. EndFrame(s, t) /\ PlayBlockEnd(s) = t
      BY <1>1, <1>2, <1>3, <1>4 DEF PlayBlockEnd, EndFrame, SynthesizeFrame
<1>6. QED
      BY <1>2, <1>4, <1>5

-----------------------------------------------------------------------------
(* A block is played, the cursor moves on                                   *)

LEMMA NextIsPlayable ==
    ASSUME NEW from \in Nat
    PROVE  NextPlayable(from) = -1 \/ NextPlayable(from) \in Blocks \ Collapsed
<1>1. PICK ahead : ahead = (from .. NBlocks - 1) \ Collapsed
      OBVIOUS
<1>2. ahead \in SUBSET Nat /\ ahead \subseteq Blocks \ Collapsed
      BY <1>1, PlaybackAssumption DEF Blocks
<1>3. NextPlayable(from) = IF ahead = {} THEN -1 ELSE Min(ahead)
      BY <1>1 DEF NextPlayable
<1>4. QED
      BY <1>2, <1>3, MinIsLeast

LEMMA CursorCalm ==
    ASSUME NEW s, Calm(s), ~Expects(s), s.player.state \in {"idle", "paused"}, NEW b \in Blocks
    PROVE  LET t == [s EXCEPT !.cur = b]
           IN  /\ Calm(t) /\ ~Expects(t) /\ t.player = s.player /\ t.status = s.status
               /\ t.cur = b
<1>1. PICK t : t = [s EXCEPT !.cur = b]
      OBVIOUS
<1>2. s \in Decks
      BY DEF Calm
<1>3. /\ t \in Decks /\ t.cur = b /\ t.status = s.status /\ t.voice = s.voice /\ t.doc = s.doc
      /\ t.cache = s.cache /\ t.promised = s.promised /\ t.calls = s.calls
      /\ t.requests = s.requests /\ t.fetches = s.fetches /\ t.player = s.player
      /\ t.ready = s.ready
      BY <1>1, <1>2 DEF Decks
<1>4. CallsBlank(t) /\ CallsLeft(t) /\ Fitting(t) = Fitting(s) /\ CacheFits(t)
      BY <1>3 DEF Calm, CallsBlank, CallsLeft, Fitting, CacheFits
<1>5. PromisesKept(t)
      BY <1>3 DEF Calm, PromisesKept, Kept
<1>6. AnswersFit(t)
      BY <1>3, <1>4 DEF Calm, AnswersFit, RequestsFit, ReadyFits
<1>7. Waiters(t) = {} /\ Resuming(t) = {} /\ ~Expects(t)
      BY <1>3 DEF Waiters, Resuming, Expects
<1>8. OneExpected(t)
      BY <1>7 DEF OneExpected
<1>9. PlayerFits(t)
      BY <1>3 DEF PlayerFits
<1>10. QED
       BY <1>1, <1>3, <1>4, <1>5, <1>6, <1>7, <1>8, <1>9 DEF Calm

LEMMA PlayOpenCalm ==
    ASSUME NEW s, Calm(s), Calls = Nat \ {0}, s.status = "playing", s.cur \in Blocks \ Collapsed,
           ~Expects(s), HasAudio(s, s.cur) \/ s.player.state \in {"idle", "paused"}
    PROVE  Calm(PlayOpen(s, s.cur))
<1>1. CASE HasAudio(s, s.cur)
  <2>1. Key(s, s.cur) \in Keys
        BY KeyOf DEF Calm
  <2>2. s.cache[Key(s, s.cur)] = s.doc
        BY <1>1, <2>1 DEF Calm, CacheFits, HasAudio
  <2>3. PlayOpen(s, s.cur) = Load(s, Here(s))
        BY <1>1, <2>2 DEF PlayOpen, Here
  <2>4. QED
        BY <1>1, <2>3, LoadCalm
<1>2. CASE ~HasAudio(s, s.cur)
  <2>1. MayWait(s, s.cur)
        BY <1>2 DEF MayWait
  <2>2. Calm(SynthesizeBlock(s, s.cur, 1))
        BY <2>1, SynthesizeCalm
  <2>3. QED
        BY <1>2, <2>2 DEF PlayOpen
<1>3. QED
      BY <1>1, <1>2

LEMMA AdvanceCalm ==
    ASSUME NEW s, Calm(s), Calls = Nat \ {0}, ~Expects(s), s.player.state \in {"idle", "paused"}
    PROVE  Calm(AdvanceToNext(s))
<1>1. PICK next : next = NextPlayable(s.cur + 1)
      OBVIOUS
<1>2. s.cur + 1 \in Nat
      BY PlaybackAssumption DEF Calm, Decks, Blocks
<1>3. next = -1 \/ next \in Blocks \ Collapsed
      BY <1>1, <1>2, NextIsPlayable
<1>4. CASE next = -1
  <2>1. AdvanceToNext(s) = EngineStop(s)
        BY <1>1, <1>4 DEF AdvanceToNext
  <2>2. QED
        BY <2>1, StopCalm
<1>5. CASE next \in Blocks \ Collapsed
  <2>1. PICK t : t = [s EXCEPT !.cur = next]
        OBVIOUS
  <2>2. Calm(t) /\ ~Expects(t) /\ t.player = s.player /\ t.status = s.status /\ t.cur = next
        BY <1>5, <2>1, CursorCalm
  <2>3. ~(next < 0)
        BY <1>5, PlaybackAssumption DEF Blocks
  <2>4. AdvanceToNext(s) = IF s.status = "playing" THEN PlayOpen(t, next) ELSE t
        BY <1>1, <2>1, <2>3 DEF AdvanceToNext
  <2>5. CASE s.status = "playing"
        BY <1>5, <2>2, <2>4, <2>5, PlayOpenCalm
  <2>6. CASE s.status # "playing"
        BY <2>2, <2>4, <2>6
  <2>7. QED
        BY <2>5, <2>6
<1>6. QED
      BY <1>3, <1>4, <1>5

\* Nothing sounds, and what loads is the block under the cursor
Quiet(s) == /\ s.player.state # "playing"
            /\ s.player.state = "loading" => s.cur \notin Collapsed /\ HasAudio(s, s.cur)

LEMMA PlayBlockCalm ==
    ASSUME NEW s, Calm(s), Calls = Nat \ {0}, ~Expects(s), Quiet(s)
    PROVE  Calm(PlayBlock(s))
<1>1. CASE s.status # "playing"
      BY <1>1 DEF PlayBlock
<1>2. CASE s.status = "playing"
  <2>1. s.cur \in Blocks
        BY <1>2 DEF Calm, PlayerFits
  <2>2. s.player.state \in {"idle", "loading", "paused"}
        BY DEF Quiet, Calm, Decks
  <2>3. CASE s.cur \in Collapsed
    <3>1. s.player.state \in {"idle", "paused"}
          BY <2>2, <2>3 DEF Quiet
    <3>2. PlayBlock(s) = AdvanceToNext(s)
          BY <1>2, <2>3 DEF PlayBlock
    <3>3. QED
          BY <3>1, <3>2, AdvanceCalm
  <2>4. CASE s.cur \notin Collapsed
    <3>1. HasAudio(s, s.cur) \/ s.player.state \in {"idle", "paused"}
          BY <2>2 DEF Quiet
    <3>2. PlayBlock(s) = PlayOpen(s, s.cur)
          BY <1>2, <2>4 DEF PlayBlock
    <3>3. QED
          BY <1>2, <2>1, <2>4, <3>1, <3>2, PlayOpenCalm
  <2>5. QED
        BY <2>3, <2>4
<1>3. QED
      BY <1>1, <1>2

\* The status alone changes
LEMMA StatusCalm ==
    ASSUME NEW s, Calm(s), NEW v \in Statuses, ~Expects(s), s.player.state # "playing",
           v # "stopped" => s.cur \in Blocks
    PROVE  LET t == [s EXCEPT !.status = v]
           IN  Calm(t) /\ ~Expects(t) /\ t.player = s.player /\ t.cur = s.cur
               /\ t.status = v /\ t.cache = s.cache /\ t.voice = s.voice
<1>1. PICK t : t = [s EXCEPT !.status = v]
      OBVIOUS
<1>2. s \in Decks
      BY DEF Calm
<1>3. /\ t \in Decks /\ t.status = v /\ t.player = s.player
      /\ t.cur = s.cur /\ t.voice = s.voice /\ t.doc = s.doc
      /\ t.cache = s.cache /\ t.promised = s.promised /\ t.calls = s.calls
      /\ t.requests = s.requests /\ t.fetches = s.fetches /\ t.ready = s.ready
      BY <1>1, <1>2 DEF Decks
<1>4. PlayerFits(t)
      BY <1>3 DEF Calm, PlayerFits, Here, HasAudio, Key
<1>5. QED
      BY <1>1, <1>3, <1>4, PlayerMoves

LEMMA BufferReadyCalm ==
    ASSUME NEW s, Calm(s), Calls = Nat \ {0}
    PROVE  Calm(CheckBufferReady(s))
<1>1. CASE CheckBufferReady(s) = s
      BY <1>1
<1>2. CASE CheckBufferReady(s) # s
  <2>1. s.status = "buffering"
        BY <1>2 DEF CheckBufferReady
  <2>2. PICK t : t = [s EXCEPT !.status = "playing"]
        OBVIOUS
  <2>3. CheckBufferReady(s) = PlayBlock(t)
        BY <1>2, <2>2 DEF CheckBufferReady
  <2>4. ~Expects(s) /\ s.cur \in Blocks /\ s.player.state # "playing"
        BY <2>1 DEF Calm, OneExpected, PlayerFits
  <2>5. Calm(t) /\ ~Expects(t) /\ t.player = s.player /\ t.cur = s.cur
        /\ t.cache = s.cache /\ t.voice = s.voice
        BY <2>2, <2>4, StatusCalm DEF Statuses
  <2>6. Quiet(t)
        BY <2>4, <2>5 DEF Calm, PlayerFits, Quiet, HasAudio, Key
  <2>7. QED
        BY <2>3, <2>5, <2>6, PlayBlockCalm
<1>3. QED
      BY <1>1, <1>2

-----------------------------------------------------------------------------
(* Answers                                                                  *)

NoAudioReady(s) == \A i \in DOMAIN s.ready : s.ready[i].kind = "then" => s.ready[i].answer # "audio"

\* Only continuations are added when a request is settled
SettleFrame(s, t) ==
    /\ t.status = s.status /\ t.cur = s.cur /\ t.voice = s.voice /\ t.doc = s.doc
    /\ t.cache = s.cache /\ t.promised = s.promised /\ t.calls = s.calls
    /\ t.requests = s.requests /\ t.fetches = s.fetches /\ t.player = s.player

LEMMA SettledCalm ==
    ASSUME NEW s, Calm(s), NEW calls \in Seq(Calls), NEW answer \in Answers,
           answer = "audio" => calls \in Seq(Fitting(s))
    PROVE  LET t == Settled(s, calls, answer)
           IN  /\ Calm(t) /\ SettleFrame(s, t) /\ (Expects(t) <=> Expects(s))
               /\ NoAudioReady(s) /\ answer = "nothing" => NoAudioReady(t)
<1>1. PICK new : new = [i \in DOMAIN calls |->
                          [kind |-> "then", call |-> calls[i], answer |-> answer]]
      OBVIOUS
<1>2. s \in Decks
      BY DEF Calm
<1>3. \A i \in DOMAIN calls : calls[i] \in Calls
      OBVIOUS
<1>4. \A i \in DOMAIN calls : [kind |-> "then", call |-> calls[i], answer |-> answer] \in Thens
      BY <1>3 DEF Thens
<1>5. new \in Seq(Thens) /\ Len(new) = Len(calls) /\ \A i \in 1 .. Len(new) :
          new[i] = [kind |-> "then", call |-> calls[i], answer |-> answer]
      BY <1>1, <1>4
<1>6. new \in Seq(Thens \cup Resumes) /\ s.ready \in Seq(Thens \cup Resumes)
  <2>1. Thens \subseteq Thens \cup Resumes
        OBVIOUS
  <2>2. new \in Seq(Thens \cup Resumes)
        BY <1>5, <2>1
  <2>3. QED
        BY <1>2, <2>2 DEF Decks
<1>7. PICK ready : ready = s.ready \o new
      OBVIOUS
<1>8. ready \in Seq(Thens \cup Resumes)
      BY <1>6, <1>7
<1>9. /\ \A i \in DOMAIN s.ready : i \in DOMAIN ready /\ ready[i] = s.ready[i]
      /\ \A i \in DOMAIN ready : \/ i \in DOMAIN s.ready
                                 \/ \E j \in 1 .. Len(new) : ready[i] = new[j]
  <2>1. \A i \in DOMAIN s.ready : i \in DOMAIN ready /\ ready[i] = s.ready[i]
        BY <1>6, <1>7
  <2>2. ASSUME NEW i \in DOMAIN ready, i \notin DOMAIN s.ready
        PROVE  \E j \in 1 .. Len(new) : ready[i] = new[j]
    <3>1. i - Len(s.ready) \in 1 .. Len(new) /\ ready[i] = new[i - Len(s.ready)]
          BY <1>6, <1>7, <2>2
    <3>2. QED
          BY <3>1
  <2>3. QED
        BY <2>1, <2>2
<1>10. PICK t : t = [s EXCEPT !.ready = ready]
       OBVIOUS
<1>11. /\ t \in Decks /\ SettleFrame(s, t) /\ t.ready = ready
       BY <1>2, <1>8, <1>10 DEF Decks, SettleFrame
<1>12. Settled(s, calls, answer) = t
       BY <1>1, <1>2, <1>7, <1>10 DEF Settled, Decks
<1>13. CallsBlank(t) /\ CallsLeft(t) /\ Fitting(t) = Fitting(s) /\ CacheFits(t)
       BY <1>11 DEF Calm, CallsBlank, CallsLeft, Fitting, CacheFits, SettleFrame
<1>14. PromisesKept(t)
       BY <1>11 DEF Calm, PromisesKept, Kept, SettleFrame
<1>15. \A j \in 1 .. Len(new) :
           new[j].kind = "then" /\ new[j].answer = answer /\ new[j].call = calls[j]
  <2>1. ASSUME NEW j \in 1 .. Len(new)
        PROVE  new[j].kind = "then" /\ new[j].answer = answer /\ new[j].call = calls[j]
    <3>1. new[j] = [kind |-> "then", call |-> calls[j], answer |-> answer]
          BY <1>5
    <3>2. QED
          BY <3>1
  <2>2. QED
        BY <2>1
<1>16. ReadyFits(t, Fitting(t))
  <2>1. ASSUME NEW i \in DOMAIN ready, ready[i].kind = "then", ready[i].answer = "audio"
        PROVE  ready[i].call \in Fitting(s)
    <3>1. CASE i \in DOMAIN s.ready
          BY <1>9, <2>1, <3>1 DEF Calm, AnswersFit, ReadyFits
    <3>2. CASE i \notin DOMAIN s.ready
      <4>1. PICK j \in 1 .. Len(new) : ready[i] = new[j]
            BY <1>9, <3>2
      <4>2. answer = "audio" /\ ready[i].call = calls[j]
            BY <1>15, <2>1, <4>1
      <4>3. QED
            BY <1>5, <4>2
    <3>3. QED
          BY <3>1, <3>2
  <2>2. QED
        BY <1>11, <1>13, <2>1 DEF ReadyFits
<1>17. AnswersFit(t)
       BY <1>11, <1>13, <1>16 DEF Calm, AnswersFit, RequestsFit, SettleFrame
<1>18. Resuming(t) = Resuming(s)
  <2>1. \A i \in DOMAIN ready : ready[i].kind = "continue" => i \in DOMAIN s.ready
        BY <1>9, <1>15
  <2>2. QED
        BY <1>9, <1>11, <2>1 DEF Resuming
<1>19. Waiters(t) = Waiters(s) /\ Here(t) = Here(s)
       BY <1>11 DEF Waiters, Here, SettleFrame
<1>20. Expects(t) <=> Expects(s)
       BY <1>18, <1>19 DEF Expects
<1>21. OneExpected(t)
  <2>1. \A c \in Waiters(t) : Expected(t, c)
        BY <1>11, <1>19 DEF Calm, OneExpected, Expected, SettleFrame
  <2>2. \A i \in Resuming(t) : t.ready[i] = s.ready[i]
        BY <1>9, <1>11, <1>18 DEF Resuming
  <2>3. \A i \in Resuming(t) : /\ t.ready[i].sound = Here(t)
                               /\ t.ready[i].answer = "audio" => HasAudio(t, t.cur)
        BY <1>11, <1>18, <1>19, <2>2 DEF Calm, OneExpected, SettleFrame, HasAudio, Key
  <2>4. Expects(t) => /\ t.status # "buffering" /\ t.player.state \in {"idle", "paused"}
                      /\ t.cur \in Blocks \ Collapsed
        BY <1>11, <1>20 DEF Calm, OneExpected, SettleFrame
  <2>5. QED
        BY <1>18, <1>19, <2>1, <2>3, <2>4 DEF Calm, OneExpected
<1>22. PlayerFits(t)
       BY <1>11, <1>19 DEF Calm, PlayerFits, SettleFrame, HasAudio, Key
<1>23. ASSUME NoAudioReady(s), answer = "nothing"
       PROVE  NoAudioReady(t)
  <2>1. ASSUME NEW i \in DOMAIN ready, ready[i].kind = "then"
        PROVE  ready[i].answer # "audio"
    <3>1. CASE i \in DOMAIN s.ready
          BY <1>9, <1>23, <2>1, <3>1 DEF NoAudioReady
    <3>2. CASE i \notin DOMAIN s.ready
          BY <1>9, <1>15, <1>23, <3>2
    <3>3. QED
          BY <3>1, <3>2
  <2>2. QED
        BY <1>11, <2>1 DEF NoAudioReady
<1>24. QED
       BY <1>11, <1>12, <1>13, <1>14, <1>17, <1>20, <1>21, <1>22, <1>23 DEF Calm

\* cancelAll settles the requests one by one
CancelStep(acc, r) == Settled(acc, r.calls, "nothing")

Cancelling(s, q) == CHOOSE fold : fold = [T \in SUBSET DOMAIN q |->
    IF T = {} THEN s ELSE CancelStep(fold[T \ {Max(T)}], q[Max(T)])]

LEMMA CancelIsFold ==
    ASSUME NEW s
    PROVE  CancelAll(s) = [Cancelling(s, s.requests)[DOMAIN s.requests] EXCEPT
               !.requests = << >>, !.error = "none", !.promised = [k \in Keys |-> 0]]
BY DEF CancelAll, FoldLeft, MapThenFoldSet, Cancelling, CancelStep

LEMMA CancelledRequests ==
    ASSUME NEW s, Calm(s)
    PROVE  LET t == Cancelling(s, s.requests)[DOMAIN s.requests]
           IN  /\ Calm(t) /\ SettleFrame(s, t) /\ (Expects(t) <=> Expects(s))
               /\ NoAudioReady(s) => NoAudioReady(t)
<1>1. PICK q : q = s.requests
      OBVIOUS
<1>2. q \in Seq(Pending)
      BY <1>1 DEF Calm, Decks
<1>3. PICK n \in Nat : n = Len(q) /\ DOMAIN q = 1 .. n
      BY <1>2
<1>4. PICK D : D = {d \in Decks : /\ Calm(d) /\ SettleFrame(s, d) /\ (Expects(d) <=> Expects(s))
                                  /\ NoAudioReady(s) => NoAudioReady(d)}
      OBVIOUS
<1>5. s \in D
      BY <1>4 DEF Calm, SettleFrame
<1>6. \A m \in 1 .. n : q[m].calls \in Seq(Calls)
  <2>1. ASSUME NEW m \in 1 .. n
        PROVE  q[m].calls \in Seq(Calls)
    <3>1. q[m] \in Pending
          BY <1>2, <1>3
    <3>2. QED
          BY <3>1 DEF Pending
  <2>2. QED
        BY <2>1
<1>7. ASSUME NEW d \in D, NEW m \in 1 .. n
      PROVE  CancelStep(d, q[m]) \in D
  <2>1. PICK e : e = Settled(d, q[m].calls, "nothing")
        OBVIOUS
  <2>2. /\ Calm(d) /\ SettleFrame(s, d) /\ (Expects(d) <=> Expects(s))
        /\ NoAudioReady(s) => NoAudioReady(d)
        BY <1>4
  <2>3. /\ Calm(e) /\ SettleFrame(d, e) /\ (Expects(e) <=> Expects(d))
        /\ NoAudioReady(d) => NoAudioReady(e)
    <3>1. "nothing" \in Answers /\ "nothing" # "audio"
          BY DEF Answers
    <3>2. q[m].calls \in Seq(Calls)
          BY <1>6
    <3>3. QED
          BY <2>1, <2>2, <3>1, <3>2, SettledCalm
  <2>4. SettleFrame(s, e) /\ e \in Decks
        BY <2>2, <2>3 DEF SettleFrame, Calm
  <2>5. e \in D
        BY <1>4, <2>2, <2>3, <2>4
  <2>6. QED
        BY <2>1, <2>5 DEF CancelStep
<1>8. PICK step : step = [p \in (1 .. n) \X D |-> CancelStep(p[2], q[p[1]])]
      OBVIOUS
<1>9. step \in [(1 .. n) \X D -> D]
      BY <1>7, <1>8
<1>10. PICK fold \in [SUBSET (1 .. n) -> D] : FoldOf(fold, n, s, step)
       BY <1>5, <1>9, FoldExists
<1>11. \A T \in SUBSET (1 .. n) :
               fold[T] = IF T = {} THEN s ELSE step[<<Max(T), fold[T \ {Max(T)}]>>]
       BY <1>10 DEF FoldOf
<1>12. \A T \in SUBSET (1 .. n) : T # {} => Max(T) \in T
       BY MaxIsIn
<1>13. \A T \in SUBSET (1 .. n) : T # {} =>
           step[<<Max(T), fold[T \ {Max(T)}]>>] = CancelStep(fold[T \ {Max(T)}], q[Max(T)])
  <2>1. ASSUME NEW T \in SUBSET (1 .. n), T # {}
        PROVE  step[<<Max(T), fold[T \ {Max(T)}]>>] = CancelStep(fold[T \ {Max(T)}], q[Max(T)])
    <3>1. PICK m \in 1 .. n : m = Max(T)
          BY <1>12, <2>1
    <3>2. PICK d \in D : d = fold[T \ {m}]
          BY <1>10
    <3>3. step[<<m, d>>] = CancelStep(d, q[m])
          BY <1>8
    <3>4. QED
          BY <3>1, <3>2, <3>3
  <2>2. QED
        BY <2>1
<1>14. fold = [T \in SUBSET DOMAIN q |->
                 IF T = {} THEN s ELSE CancelStep(fold[T \ {Max(T)}], q[Max(T)])]
       BY <1>3, <1>10, <1>11, <1>13
<1>15. PICK made : made = Cancelling(s, q)
       OBVIOUS
<1>16. made = [T \in SUBSET DOMAIN q |->
                 IF T = {} THEN s ELSE CancelStep(made[T \ {Max(T)}], q[Max(T)])]
       BY <1>14, <1>15 DEF Cancelling
<1>17. made[{}] \in D
       BY <1>5, <1>16
<1>18. \A T \in SUBSET (1 .. n) : T # {} /\ made[T \ {Max(T)}] \in D => made[T] \in D
  <2>1. ASSUME NEW T \in SUBSET (1 .. n), T # {}, made[T \ {Max(T)}] \in D
        PROVE  made[T] \in D
    <3>1. PICK m \in 1 .. n : m = Max(T)
          BY <1>12, <2>1
    <3>2. made[T] = CancelStep(made[T \ {m}], q[m])
          BY <1>3, <1>16, <2>1, <3>1
    <3>3. PICK d \in D : d = made[T \ {m}]
          BY <2>1, <3>1
    <3>4. QED
          BY <1>7, <3>2, <3>3
  <2>2. QED
        BY <2>1
<1>19. made[1 .. n] \in D
       BY <1>17, <1>18, FoldStays
<1>20. QED
       BY <1>1, <1>3, <1>4, <1>15, <1>19

\* Nothing is promised, asked for, fetched or awaited, and no audio is handed over
Clear(s) == /\ s.promised = [k \in Keys |-> 0] /\ s.requests = << >> /\ s.fetches = {}
            /\ NoAudioReady(s) /\ ~Expects(s)

LEMMA CancelCalm ==
    ASSUME NEW s, Calm(s), ~Expects(s), s.fetches = {}, s.ready = << >>
    PROVE  LET t == CancelAll(s)
           IN  /\ Calm(t) /\ Clear(t)
               /\ t.status = s.status /\ t.cur = s.cur /\ t.voice = s.voice /\ t.doc = s.doc
               /\ t.cache = s.cache /\ t.player = s.player
<1>1. PICK q : q = Cancelling(s, s.requests)[DOMAIN s.requests]
      OBVIOUS
<1>2. NoAudioReady(s)
      BY DEF NoAudioReady
<1>3. Calm(q) /\ SettleFrame(s, q) /\ ~Expects(q) /\ NoAudioReady(q)
      BY <1>1, <1>2, CancelledRequests
<1>4. q \in Decks
      BY <1>3 DEF Calm
<1>5. PICK t : t = [q EXCEPT !.requests = << >>, !.error = "none", !.promised = [k \in Keys |-> 0]]
      OBVIOUS
<1>6. CancelAll(s) = t
      BY <1>1, <1>5, CancelIsFold
<1>7. << >> \in Seq(Pending) /\ [k \in Keys |-> 0] \in [Keys -> Calls \cup {0}]
      OBVIOUS
<1>8. /\ t \in Decks /\ t.requests = << >> /\ t.promised = [k \in Keys |-> 0]
      /\ t.status = q.status /\ t.cur = q.cur /\ t.voice = q.voice /\ t.doc = q.doc
      /\ t.cache = q.cache /\ t.calls = q.calls /\ t.fetches = q.fetches
      /\ t.player = q.player /\ t.ready = q.ready
      BY <1>4, <1>5, <1>7 DEF Decks
<1>9. CallsBlank(t) /\ CallsLeft(t) /\ Fitting(t) = Fitting(q) /\ CacheFits(t)
      BY <1>3, <1>8 DEF Calm, CallsBlank, CallsLeft, Fitting, CacheFits
<1>10. PromisesKept(t)
       BY <1>8 DEF PromisesKept
<1>11. AnswersFit(t)
       BY <1>3, <1>8, <1>9 DEF Calm, AnswersFit, RequestsFit, ReadyFits
<1>12. Waiters(t) = {} /\ Resuming(t) = {} /\ ~Expects(t)
       BY <1>3, <1>8 DEF Waiters, Resuming, Expects
<1>13. OneExpected(t)
       BY <1>12 DEF OneExpected
<1>14. PlayerFits(t)
       BY <1>3, <1>8 DEF Calm, PlayerFits, Here, HasAudio, Key
<1>15. Clear(t)
       BY <1>3, <1>8, <1>12 DEF Clear, NoAudioReady, SettleFrame
<1>16. QED
       BY <1>3, <1>6, <1>8, <1>9, <1>10, <1>11, <1>13, <1>14, <1>15 DEF Calm, SettleFrame

\* Then the user may take another voice or document
LEMMA SwitchCalm ==
    ASSUME NEW s, Calm(s), Clear(s), NEW t \in Decks,
           t.promised = s.promised, t.calls = s.calls, t.requests = s.requests,
           t.fetches = s.fetches, t.ready = s.ready, CacheFits(t), PlayerFits(t)
    PROVE  Calm(t) /\ ~Expects(t)
<1>1. CallsBlank(t) /\ CallsLeft(t)
      BY DEF Calm, CallsBlank, CallsLeft
<1>2. PromisesKept(t)
      BY DEF PromisesKept, Clear
<1>3. AnswersFit(t)
      BY DEF AnswersFit, RequestsFit, ReadyFits, Clear, NoAudioReady
<1>4. Waiters(t) = {} /\ Resuming(t) = {} /\ ~Expects(t)
      BY DEF Clear, Waiters, Resuming, Expects
<1>5. OneExpected(t)
      BY <1>4 DEF OneExpected
<1>6. QED
      BY <1>1, <1>2, <1>3, <1>4, <1>5 DEF Calm

-----------------------------------------------------------------------------
(* Continuations                                                            *)

LEMMA TailOf ==
    ASSUME NEW S, NEW q \in Seq(S), q # << >>
    PROVE  /\ 1 \in DOMAIN q /\ q[1] \in S /\ Tail(q) \in Seq(S) /\ Len(Tail(q)) = Len(q) - 1
           /\ \A i \in DOMAIN Tail(q) : i + 1 \in DOMAIN q /\ i \in Nat /\ Tail(q)[i] = q[i + 1]
OBVIOUS

\* What a settled promise leaves behind: its call is free, the promise of its key
\* forgotten, its audio cached, and whoever awaited it ready to go on
Released(s, u, m) ==
    /\ u.status = s.status /\ u.cur = s.cur /\ u.voice = s.voice /\ u.doc = s.doc
    /\ u.requests = s.requests /\ u.fetches = s.fetches /\ u.player = s.player
    /\ u.calls = [s.calls EXCEPT ![m.call] = Unused]
    /\ u.promised = [s.promised EXCEPT ![s.calls[m.call].key] = 0]
    /\ u.cache = IF m.answer = "audio"
                 THEN [s.cache EXCEPT ![s.calls[m.call].key] = s.calls[m.call].doc] ELSE s.cache

\* What of that does not concern the continuations
LEMMA ReleasedPlain ==
    ASSUME NEW s, Calm(s), NEW u \in Decks, NEW m \in Thens, Released(s, u, m),
           m.answer = "audio" => m.call \in Fitting(s)
    PROVE  /\ CallsBlank(u) /\ CallsLeft(u) /\ PromisesKept(u) /\ CacheFits(u)
           /\ Fitting(s) \subseteq Fitting(u)
           /\ s.cur \in Blocks /\ HasAudio(s, s.cur) => HasAudio(u, u.cur)
           /\ \A d \in Calls \ {m.call} : u.calls[d] = s.calls[d]
           /\ u.calls[m.call] = Unused
<1>1. s \in Decks /\ m.call \in Calls
      BY DEF Calm, Thens
<1>2. PICK call \in Promises : call = s.calls[m.call]
      BY <1>1 DEF Decks
<1>3. /\ s.calls \in [Calls -> Promises] /\ s.promised \in [Keys -> Calls \cup {0}]
      /\ s.cache \in [Keys -> Docs \cup {NoDoc}] /\ 0 \notin Calls /\ NoDoc \notin Docs
      BY <1>1, PlaybackAssumption DEF Decks
<1>4. (\A d \in Calls \ {m.call} : u.calls[d] = s.calls[d]) /\ u.calls[m.call] = Unused
      BY <1>1, <1>3 DEF Released
<1>5. \A k \in Keys : u.promised[k] = IF k = call.key THEN 0 ELSE s.promised[k]
      BY <1>2, <1>3 DEF Released
<1>6. \A k \in Keys : u.cache[k] = IF m.answer = "audio" /\ k = call.key THEN call.doc ELSE s.cache[k]
      BY <1>2, <1>3 DEF Released
<1>7. call.stage = "asked" \/ (call.doc = NoDoc /\ call.key = << >>)
      BY <1>1, <1>2 DEF Calm, CallsBlank, Promises, Unused
<1>8. call.stage = "asked" => call.key \in Keys /\ call.doc \in Docs
      BY <1>1, <1>2 DEF Calm, CallsBlank
<1>9. CallsBlank(u)
      BY <1>4 DEF Calm, CallsBlank, Unused
<1>10. CallsLeft(u)
       BY <1>4 DEF Calm, CallsLeft, Unused
<1>11. PromisesKept(u)
  <2>1. ASSUME NEW k \in Keys, u.promised[k] # 0
        PROVE  Kept(u, k)
    <3>1. k # call.key /\ u.promised[k] = s.promised[k]
          BY <1>5, <2>1
    <3>2. Kept(s, k)
          BY <2>1, <3>1 DEF Calm, PromisesKept
    <3>3. s.promised[k] # m.call
          BY <1>2, <3>1, <3>2 DEF Kept
    <3>4. QED
          BY <1>4, <3>1, <3>2, <3>3 DEF Kept, Released
  <2>2. QED
        BY <2>1 DEF PromisesKept
<1>12. CacheFits(u)
  <2>1. ASSUME NEW k \in Keys, u.cache[k] # NoDoc
        PROVE  k[2] = u.voice /\ u.cache[k] = u.doc
    <3>1. CASE m.answer = "audio" /\ k = call.key
      <4>1. call.stage = "asked"
            BY <1>6, <1>7, <2>1, <3>1
      <4>2. call.key[2] = s.voice /\ call.doc = s.doc
            BY <1>2, <3>1, <4>1 DEF Fitting
      <4>3. QED
            BY <1>6, <3>1, <4>2 DEF Released
    <3>2. CASE ~(m.answer = "audio" /\ k = call.key)
          BY <1>6, <2>1, <3>2 DEF Calm, CacheFits, Released
    <3>3. QED
          BY <3>1, <3>2
  <2>2. QED
        BY <2>1 DEF CacheFits
<1>13. Fitting(s) \subseteq Fitting(u)
       BY <1>4 DEF Fitting, Unused, Released
<1>14. ASSUME s.cur \in Blocks, HasAudio(s, s.cur)
       PROVE  HasAudio(u, u.cur)
  <2>1. Key(s, s.cur) \in Keys /\ Key(s, s.cur) = <<s.cur, s.voice>> /\ Key(u, u.cur) = Key(s, s.cur)
        BY <1>1, <1>14, KeyOf DEF Key, Released
  <2>2. << >> # <<s.cur, s.voice>>
        OBVIOUS
  <2>3. call.stage = "asked" \/ call.key # Key(s, s.cur)
        BY <1>7, <2>1, <2>2
  <2>4. u.cache[Key(s, s.cur)] # NoDoc
        BY <1>3, <1>6, <1>8, <1>14, <2>1, <2>3 DEF HasAudio
  <2>5. QED
        BY <2>1, <2>4 DEF HasAudio
<1>15. QED
       BY <1>4, <1>9, <1>10, <1>11, <1>12, <1>13, <1>14

LEMMA NoneMade == ASSUME NEW e  PROVE [i \in 1 .. 0 |-> e] = << >>
OBVIOUS

LEMMA OneMade == ASSUME NEW e  PROVE [i \in 1 .. 1 |-> e] = <<e>>
OBVIOUS

LEMMA AppendAll ==
    ASSUME NEW S, NEW q \in Seq(S), NEW e \in S
    PROVE  /\ q \o <<e>> = Append(q, e) /\ Len(q) \in Nat /\ DOMAIN q = 1 .. Len(q)
           /\ DOMAIN Append(q, e) = 1 .. Len(q) + 1 /\ Append(q, e)[Len(q) + 1] = e
           /\ \A i \in DOMAIN q : Append(q, e)[i] = q[i]
           /\ \A i \in DOMAIN Append(q, e) : i \in DOMAIN q \/ i = Len(q) + 1
OBVIOUS

\* m, the first continuation, is run, and those it lets go on come last
Handed(s, u, m) == /\ s.ready # << >> /\ m = s.ready[1] /\ m.kind = "then"
                   /\ u.ready = Tail(s.ready) \o Awaiters(s.calls[m.call], m.answer)

LEMMA ReleasedCalm ==
    ASSUME NEW s, Calm(s), NEW m, NEW u \in Decks, Released(s, u, m), Handed(s, u, m)
    PROVE  Calm(u)
<1>1. s \in Decks /\ s.ready \in Seq(Thens \cup Resumes)
      BY DEF Calm, Decks
<1>2. /\ 1 \in DOMAIN s.ready /\ m \in Thens \cup Resumes
      /\ Tail(s.ready) \in Seq(Thens \cup Resumes)
      /\ \A i \in DOMAIN Tail(s.ready) :
             i + 1 \in DOMAIN s.ready /\ i \in Nat /\ Tail(s.ready)[i] = s.ready[i + 1]
      BY <1>1, TailOf DEF Handed
<1>3. m \in Thens
      BY <1>2 DEF Resumes, Handed
<1>4. m.answer = "audio" => m.call \in Fitting(s)
      BY <1>2 DEF Calm, AnswersFit, ReadyFits, Handed
<1>5. /\ CallsBlank(u) /\ CallsLeft(u) /\ PromisesKept(u) /\ CacheFits(u)
      /\ Fitting(s) \subseteq Fitting(u)
      /\ s.cur \in Blocks /\ HasAudio(s, s.cur) => HasAudio(u, u.cur)
      /\ \A d \in Calls \ {m.call} : u.calls[d] = s.calls[d]
      /\ u.calls[m.call] = Unused
      BY <1>3, <1>4, ReleasedPlain
<1>6. PICK call \in Promises : call = s.calls[m.call]
      BY <1>1, <1>3 DEF Decks, Thens
<1>7. call.waits \in Nat
      BY <1>6 DEF Promises
<1>8. PICK tail : tail = Tail(s.ready)
      OBVIOUS
<1>9. RequestsFit(u, Fitting(u)) /\ u.fetches \subseteq Seq(Fitting(u))
  <2>1. Seq(Fitting(s)) \subseteq Seq(Fitting(u))
        BY <1>5
  <2>2. QED
        BY <2>1 DEF Calm, AnswersFit, RequestsFit, Released
<1>10. PlayerFits(u)
  <2>1. s.player.state = "loading" => s.cur \in Blocks
        BY DEF Calm, PlayerFits
  <2>2. QED
        BY <1>5, <2>1 DEF Calm, PlayerFits, Released, Here
<1>11. \A i \in DOMAIN tail : tail[i].kind = "then" /\ tail[i].answer = "audio" => tail[i].call \in Fitting(u)
  <2>1. ASSUME NEW i \in DOMAIN tail, tail[i].kind = "then", tail[i].answer = "audio"
        PROVE  tail[i].call \in Fitting(u)
    <3>1. i + 1 \in DOMAIN s.ready /\ tail[i] = s.ready[i + 1]
          BY <1>2, <1>8
    <3>2. tail[i].call \in Fitting(s)
          BY <2>1, <3>1 DEF Calm, AnswersFit, ReadyFits
    <3>3. QED
          BY <1>5, <3>2
  <2>2. QED
        BY <2>1
<1>12. Here(u) = Here(s) /\ u.status = s.status /\ u.player = s.player /\ u.cur = s.cur
       BY DEF Here, Released
<1>13. CASE m.call \notin Waiters(s)
  <2>1. call.waits = 0
        BY <1>3, <1>6, <1>13 DEF Waiters, Thens
  <2>2. Awaiters(call, m.answer) = << >>
        BY <2>1, NoneMade DEF Awaiters
  <2>3. u.ready = tail
        BY <1>2, <1>6, <1>8, <2>2 DEF Handed
  <2>4. Waiters(u) = Waiters(s)
        BY <1>3, <1>5, <1>6, <2>1 DEF Waiters, Unused, Thens
  <2>5. \A i \in Resuming(u) : i \in Nat /\ i + 1 \in Resuming(s) /\ u.ready[i] = s.ready[i + 1]
        BY <1>2, <1>8, <2>3 DEF Resuming
  <2>6. Expects(u) => Expects(s)
        BY <2>4, <2>5 DEF Expects
  <2>7. OneExpected(u)
    <3>1. \A c \in Waiters(u) : Expected(u, c)
      <4>1. ASSUME NEW c \in Waiters(u)
            PROVE  Expected(u, c)
        <5>1. Expected(s, c) /\ c # m.call /\ c \in Calls
              BY <1>13, <2>4 DEF Calm, OneExpected, Waiters
        <5>2. u.calls[c] = s.calls[c]
              BY <1>5, <5>1
        <5>3. u.cur = s.cur /\ u.voice = s.voice /\ u.doc = s.doc
              BY DEF Released
        <5>4. QED
              BY <5>1, <5>2, <5>3 DEF Expected
      <4>2. QED
            BY <4>1
    <3>2. \A c, d \in Waiters(u) : c = d
          BY <2>4 DEF Calm, OneExpected
    <3>3. \A i, j \in Resuming(u) : i = j
      <4>1. ASSUME NEW i \in Resuming(u), NEW j \in Resuming(u)
            PROVE  i = j
        <5>1. i + 1 = j + 1
              BY <2>5 DEF Calm, OneExpected
        <5>2. i \in Nat /\ j \in Nat
              BY <2>5
        <5>3. QED
              BY <5>1, <5>2
      <4>2. QED
            BY <4>1
    <3>4. Waiters(u) = {} \/ Resuming(u) = {}
          BY <2>4, <2>5 DEF Calm, OneExpected
    <3>5. Resuming(u) # {} => s.cur \in Blocks
          BY <2>5 DEF Calm, OneExpected, Expects
    <3>6. \A i \in Resuming(u) : /\ u.ready[i].sound = Here(u)
                                 /\ u.ready[i].answer = "audio" => HasAudio(u, u.cur)
          BY <1>5, <1>12, <2>5, <3>5 DEF Calm, OneExpected
    <3>7. Expects(u) => /\ u.status # "buffering" /\ u.player.state \in {"idle", "paused"}
                        /\ u.cur \in Blocks \ Collapsed
          BY <1>12, <2>6 DEF Calm, OneExpected
    <3>8. QED
          BY <3>1, <3>2, <3>3, <3>4, <3>6, <3>7 DEF OneExpected
  <2>8. AnswersFit(u)
        BY <1>9, <1>11, <2>3 DEF AnswersFit, ReadyFits
  <2>9. QED
        BY <1>5, <1>10, <2>7, <2>8 DEF Calm
<1>14. CASE m.call \in Waiters(s)
  <2>1. /\ Expected(s, m.call) /\ Resuming(s) = {} /\ Waiters(s) = {m.call} /\ Expects(s)
        BY <1>14 DEF Calm, OneExpected, Expects
  <2>2. call.waits = 1 /\ call.key = <<s.cur, s.voice>> /\ call.doc = s.doc /\ call.stage = "asked"
        BY <1>6, <2>1 DEF Expected
  <2>3. Sound(call) = Here(s)
        BY <2>2 DEF Sound, Here
  <2>4. PICK more : more = [kind |-> "continue", sound |-> Here(s), answer |-> m.answer]
        OBVIOUS
  <2>5. Awaiters(call, m.answer) = <<more>>
        BY <2>2, <2>3, <2>4, OneMade DEF Awaiters
  <2>6. more \in Thens \cup Resumes
    <3>1. Here(s) \in Sounds
          BY <1>1, <2>1 DEF Calm, OneExpected, Decks, Here, Sounds
    <3>2. QED
          BY <1>3, <2>4, <3>1 DEF Thens, Resumes
  <2>7. /\ Len(tail) \in Nat /\ DOMAIN u.ready = 1 .. Len(tail) + 1
        /\ DOMAIN tail = 1 .. Len(tail)
        /\ u.ready[Len(tail) + 1] = more
        /\ \A i \in DOMAIN tail : u.ready[i] = tail[i]
        /\ \A i \in DOMAIN u.ready : i \in DOMAIN tail \/ i = Len(tail) + 1
    <3>1. tail \in Seq(Thens \cup Resumes) /\ u.ready = tail \o <<more>>
          BY <1>2, <1>6, <1>8, <2>5 DEF Handed
    <3>2. PICK S : S = Thens \cup Resumes
          OBVIOUS
    <3>3. tail \in Seq(S) /\ more \in S
          BY <2>6, <3>1, <3>2
    <3>4. /\ tail \o <<more>> = Append(tail, more) /\ Len(tail) \in Nat /\ DOMAIN tail = 1 .. Len(tail)
          /\ DOMAIN Append(tail, more) = 1 .. Len(tail) + 1 /\ Append(tail, more)[Len(tail) + 1] = more
          /\ \A i \in DOMAIN tail : Append(tail, more)[i] = tail[i]
          /\ \A i \in DOMAIN Append(tail, more) : i \in DOMAIN tail \/ i = Len(tail) + 1
          BY <3>3, AppendAll, Zenon
    <3>5. u.ready = Append(tail, more)
          BY <3>1, <3>4
    <3>6. QED
          BY <3>4, <3>5, Zenon
  <2>8. \A i \in DOMAIN tail : tail[i].kind # "continue"
        BY <1>2, <1>8, <2>1 DEF Resuming
  <2>9. \A i \in Resuming(u) : i = Len(tail) + 1
         BY <2>7, <2>8 DEF Resuming
  <2>10. Waiters(u) = {}
         BY <1>3, <1>5, <2>1 DEF Waiters, Unused, Thens
  <2>11. m.answer = "audio" => HasAudio(u, u.cur)
    <3>1. ASSUME m.answer = "audio"
          PROVE  HasAudio(u, u.cur)
      <4>1. s.cur \in Blocks /\ s.doc \in Docs
            BY <1>1, <2>1 DEF Calm, OneExpected, Decks
      <4>2. Key(s, s.cur) \in Keys /\ Key(s, s.cur) = call.key /\ Key(u, u.cur) = call.key
            BY <1>1, <2>2, <4>1, KeyOf DEF Key, Released
      <4>3. u.cache = [s.cache EXCEPT ![call.key] = call.doc]
            BY <1>6, <3>1 DEF Released
      <4>4. u.cache[call.key] = s.doc
            BY <1>1, <2>2, <4>2, <4>3 DEF Decks
      <4>5. QED
            BY <4>1, <4>2, <4>4, PlaybackAssumption DEF HasAudio
    <3>2. QED
          BY <3>1
  <2>12. OneExpected(u)
    <3>1. \A i \in Resuming(u) : u.ready[i] = more
          BY <2>7, <2>9
    <3>2. more.sound = Here(u) /\ more.answer = m.answer
          BY <1>12, <2>4
    <3>3. \A i \in Resuming(u) : /\ u.ready[i].sound = Here(u)
                                 /\ u.ready[i].answer = "audio" => HasAudio(u, u.cur)
          BY <2>11, <3>1, <3>2
    <3>4. /\ u.status # "buffering" /\ u.player.state \in {"idle", "paused"}
          /\ u.cur \in Blocks \ Collapsed
          BY <1>12, <2>1 DEF Calm, OneExpected
    <3>5. QED
          BY <2>9, <2>10, <3>3, <3>4 DEF OneExpected
  <2>13. ReadyFits(u, Fitting(u))
    <3>1. ASSUME NEW i \in DOMAIN u.ready, u.ready[i].kind = "then", u.ready[i].answer = "audio"
          PROVE  u.ready[i].call \in Fitting(u)
      <4>1. more.kind # "then"
            BY <2>4
      <4>2. i \in DOMAIN tail
            BY <2>7, <3>1, <4>1
      <4>3. QED
            BY <1>11, <2>7, <3>1, <4>2
    <3>2. QED
          BY <3>1 DEF ReadyFits
  <2>14. QED
         BY <1>5, <1>9, <1>10, <2>12, <2>13 DEF Calm, AnswersFit
<1>15. QED
       BY <1>13, <1>14

\* Flags and counts of the engine change
LEMMA MinorCalm ==
    ASSUME NEW s, Calm(s), NEW t \in Decks,
           t.status = s.status, t.player = s.player,
           t.cur = s.cur, t.voice = s.voice, t.doc = s.doc, t.cache = s.cache,
           t.promised = s.promised, t.calls = s.calls, t.requests = s.requests,
           t.fetches = s.fetches, t.ready = s.ready
    PROVE  Calm(t) /\ (Expects(t) <=> Expects(s))
<1>1. PlayerFits(t)
      BY DEF Calm, PlayerFits, Here, HasAudio, Key
<1>2. Expects(s) => t.status # "buffering" /\ t.player.state \in {"idle", "paused"}
      BY DEF Calm, OneExpected
<1>3. QED
      BY <1>1, <1>2, PlayerMoves

LEMMA AwaitersTyped ==
    ASSUME NEW s, Calm(s), NEW m \in Thens
    PROVE  Awaiters(s.calls[m.call], m.answer) \in Seq(Thens \cup Resumes)
<1>1. s \in Decks /\ m.call \in Calls
      BY DEF Calm, Thens
<1>2. PICK call \in Promises : call = s.calls[m.call]
      BY <1>1 DEF Decks
<1>3. CASE m.call \notin Waiters(s)
  <2>1. call.waits = 0
        BY <1>1, <1>2, <1>3 DEF Waiters
  <2>2. Awaiters(call, m.answer) = << >>
        BY <2>1, NoneMade DEF Awaiters
  <2>3. << >> \in Seq(Thens \cup Resumes)
        OBVIOUS
  <2>4. QED
        BY <1>2, <2>2, <2>3
<1>4. CASE m.call \in Waiters(s)
  <2>1. Expected(s, m.call) /\ s.cur \in Blocks
        BY <1>4 DEF Calm, OneExpected, Expects
  <2>2. call.waits = 1 /\ Sound(call) = Here(s)
        BY <1>2, <2>1 DEF Expected, Sound, Here
  <2>3. PICK more : more = [kind |-> "continue", sound |-> Here(s), answer |-> m.answer]
        OBVIOUS
  <2>4. Awaiters(call, m.answer) = <<more>>
        BY <2>2, <2>3, OneMade DEF Awaiters
  <2>5. Here(s) \in Sounds
        BY <1>1, <2>1 DEF Decks, Here, Sounds
  <2>6. more \in Thens \cup Resumes
        BY <2>3, <2>5 DEF Thens, Resumes
  <2>7. <<more>> \in Seq(Thens \cup Resumes)
        BY <2>6
  <2>8. QED
        BY <1>2, <2>4, <2>7
<1>5. QED
      BY <1>3, <1>4

\* playBlock goes on behind its await
LEMMA ResumedCalm ==
    ASSUME NEW s, Calm(s), s.ready # << >>, NEW m, m = s.ready[1], m.kind = "continue",
           NEW t, t = [s EXCEPT !.ready = Tail(@)]
    PROVE  /\ Calm(t) /\ ~Expects(t) /\ m.sound = Here(t) /\ t.status # "buffering"
           /\ t.player.state \in {"idle", "paused"} /\ t.cur \in Blocks \ Collapsed
           /\ m.answer = "audio" => HasAudio(t, t.cur)
<1>1. s \in Decks /\ s.ready \in Seq(Thens \cup Resumes)
      BY DEF Calm, Decks
<1>2. PICK tail : tail = Tail(s.ready)
      OBVIOUS
<1>3. /\ 1 \in DOMAIN s.ready /\ tail \in Seq(Thens \cup Resumes)
      /\ \A i \in DOMAIN tail :
             i + 1 \in DOMAIN s.ready /\ i \in Nat /\ tail[i] = s.ready[i + 1]
      BY <1>1, <1>2, TailOf
<1>4. /\ t \in Decks /\ t.ready = tail /\ t.status = s.status /\ t.player = s.player
      /\ t.cur = s.cur /\ t.voice = s.voice /\ t.doc = s.doc /\ t.cache = s.cache
      /\ t.promised = s.promised /\ t.calls = s.calls /\ t.requests = s.requests
      /\ t.fetches = s.fetches
      BY <1>1, <1>2, <1>3 DEF Decks
<1>5. 1 \in Resuming(s)
      BY <1>3 DEF Resuming
<1>6. /\ m.sound = Here(s)
      /\ m.answer = "audio" => HasAudio(s, s.cur)
      BY <1>5 DEF Calm, OneExpected
<1>7. /\ s.status # "buffering" /\ s.player.state \in {"idle", "paused"}
       /\ s.cur \in Blocks \ Collapsed /\ Waiters(s) = {}
      BY <1>5 DEF Calm, OneExpected, Expects
<1>8. Resuming(t) = {}
  <2>1. ASSUME NEW i \in Resuming(t)
        PROVE  FALSE
    <3>1. i \in Nat /\ i + 1 \in Resuming(s)
          BY <1>3, <1>4 DEF Resuming
    <3>2. i + 1 = 1
          BY <1>5, <3>1 DEF Calm, OneExpected
    <3>3. i = 0 /\ i \in DOMAIN tail
          BY <1>4, <3>1, <3>2 DEF Resuming
    <3>4. QED
          BY <1>3, <3>3
  <2>2. QED
        BY <2>1
<1>9. Waiters(t) = {} /\ ~Expects(t) /\ OneExpected(t)
      BY <1>4, <1>8, <1>7 DEF Waiters, Expects, OneExpected
<1>10. Here(t) = Here(s) /\ (HasAudio(t, t.cur) <=> HasAudio(s, s.cur))
      BY <1>4 DEF Here, HasAudio, Key
<1>11. CallsBlank(t) /\ CallsLeft(t) /\ Fitting(t) = Fitting(s) /\ CacheFits(t)
       BY <1>4 DEF Calm, CallsBlank, CallsLeft, Fitting, CacheFits
<1>12. PromisesKept(t)
       BY <1>4 DEF Calm, PromisesKept, Kept
<1>13. ReadyFits(t, Fitting(t))
  <2>1. ASSUME NEW i \in DOMAIN tail, tail[i].kind = "then", tail[i].answer = "audio"
        PROVE  tail[i].call \in Fitting(s)
    <3>1. i + 1 \in DOMAIN s.ready /\ tail[i] = s.ready[i + 1]
          BY <1>3
    <3>2. QED
          BY <2>1, <3>1 DEF Calm, AnswersFit, ReadyFits
  <2>2. QED
        BY <1>4, <1>11, <2>1 DEF ReadyFits
<1>14. AnswersFit(t)
       BY <1>4, <1>11, <1>13 DEF Calm, AnswersFit, RequestsFit
<1>15. PlayerFits(t)
       BY <1>4, <1>10 DEF Calm, PlayerFits
<1>16. QED
       BY <1>4, <1>6, <1>9, <1>10, <1>7, <1>11, <1>12, <1>14, <1>15 DEF Calm

LEMMA ContinueCalm ==
    ASSUME NEW s, Calm(s), Calls = Nat \ {0}, s.ready # << >>, NEW m, m = s.ready[1],
           m.kind = "continue", m \in Resumes
    PROVE  Calm(Continue([s EXCEPT !.ready = Tail(@)], m.sound, m.answer))
<1>1. PICK t : t = [s EXCEPT !.ready = Tail(@)]
      OBVIOUS
<1>2. /\ Calm(t) /\ ~Expects(t) /\ m.sound = Here(t) /\ t.status # "buffering"
      /\ t.player.state \in {"idle", "paused"} /\ t.cur \in Blocks \ Collapsed
      /\ m.answer = "audio" => HasAudio(t, t.cur)
      BY <1>1, ResumedCalm
<1>3. t \in Decks /\ t.failures \in Nat
      BY <1>2 DEF Calm, Decks
<1>4. ASSUME NEW k \in Nat
      PROVE  LET u == [t EXCEPT !.failures = k]
             IN  /\ Calm(u) /\ ~Expects(u) /\ u.player = t.player /\ u.status = t.status
                 /\ u.cur = t.cur /\ Here(u) = Here(t) /\ HasAudio(u, u.cur) = HasAudio(t, t.cur)
  <2>1. PICK u : u = [t EXCEPT !.failures = k]
        OBVIOUS
  <2>2. /\ u \in Decks /\ u.status = t.status /\ u.player = t.player
        /\ u.cur = t.cur /\ u.voice = t.voice /\ u.doc = t.doc /\ u.cache = t.cache
        /\ u.promised = t.promised /\ u.calls = t.calls /\ u.requests = t.requests
        /\ u.fetches = t.fetches /\ u.ready = t.ready
        BY <1>3, <1>4, <2>1 DEF Decks
  <2>3. Calm(u) /\ ~Expects(u)
        BY <1>2, <2>2, MinorCalm
  <2>4. QED
        BY <2>1, <2>2, <2>3 DEF Here, HasAudio, Key
<1>5. PICK r : r = Continue(t, m.sound, m.answer)
      OBVIOUS
<1>6. CASE t.cur # m.sound.block \/ t.status # "playing"
      BY <1>2, <1>1, <1>6 DEF Continue
<1>7. CASE t.cur = m.sound.block /\ t.status = "playing" /\ m.answer = "audio"
  <2>1. PICK u : u = [t EXCEPT !.failures = 0]
        OBVIOUS
  <2>2. /\ Calm(u) /\ ~Expects(u) /\ u.player = t.player /\ u.status = t.status
        /\ u.cur = t.cur /\ Here(u) = Here(t) /\ HasAudio(u, u.cur) = HasAudio(t, t.cur)
        BY <1>4, <2>1
  <2>3. Continue(t, m.sound, m.answer) = Load(u, m.sound)
        BY <1>7, <2>1 DEF Continue
  <2>4. Calm(Load(u, Here(u)))
        BY <1>2, <1>7, <2>2, LoadCalm
  <2>5. QED
        BY <1>1, <1>2, <2>2, <2>3, <2>4
<1>8. CASE t.cur = m.sound.block /\ t.status = "playing" /\ m.answer # "audio"
  <2>1. PICK k : k = t.failures + (IF t.error = "none" THEN 0 ELSE 1)
        OBVIOUS
  <2>2. k \in Nat
        BY <1>3, <2>1
  <2>3. PICK u : u = [t EXCEPT !.failures = k]
        OBVIOUS
  <2>4. Calm(u) /\ ~Expects(u) /\ u.player = t.player
        BY <1>4, <2>2, <2>3
  <2>5. Continue(t, m.sound, m.answer) \in {EngineStop(t), EngineStop(u), AdvanceToNext(u)}
        BY <1>8, <2>1, <2>3 DEF Continue
  <2>6. Calm(EngineStop(t)) /\ Calm(EngineStop(u))
        BY <1>2, <2>4, StopCalm
  <2>7. Calm(AdvanceToNext(u))
        BY <1>2, <2>4, AdvanceCalm
  <2>8. QED
        BY <1>1, <2>5, <2>6, <2>7
<1>9. QED
      BY <1>6, <1>7, <1>8

\* The .then of synthesizeBlock
LEMMA ThenCalm ==
    ASSUME NEW s, Calm(s), Calls = Nat \ {0}, s.ready # << >>, NEW m \in Thens, m = s.ready[1]
    PROVE  Calm(RunReady(s, m))
<1>1. s \in Decks /\ s.ready \in Seq(Thens \cup Resumes) /\ m.kind = "then" /\ m.call \in Calls
      BY DEF Calm, Decks, Thens
<1>2. PICK call \in Promises : call = s.calls[m.call]
      BY <1>1 DEF Decks
<1>3. call.key \in Keys \cup {<< >>} /\ call.doc \in Docs \cup {NoDoc}
      BY DEF Promises
<1>4. PICK ready : ready = Tail(s.ready) \o Awaiters(call, m.answer)
      OBVIOUS
<1>5. ready \in Seq(Thens \cup Resumes)
  <2>1. Tail(s.ready) \in Seq(Thens \cup Resumes)
        BY <1>1, TailOf
  <2>2. Awaiters(call, m.answer) \in Seq(Thens \cup Resumes)
        BY <1>2, AwaitersTyped
  <2>3. QED
        BY <1>4, <2>1, <2>2
<1>6. PICK calls : calls = [s.calls EXCEPT ![m.call] = Unused]
      OBVIOUS
<1>7. calls \in [Calls -> Promises]
      BY <1>1, <1>6 DEF Decks, Promises, Unused
<1>8. PICK t : t = [s EXCEPT !.ready = ready, !.calls = calls]
      OBVIOUS
<1>9. /\ t \in Decks /\ t.ready = ready /\ t.calls = calls /\ t.status = s.status
      /\ t.player = s.player /\ t.cur = s.cur /\ t.voice = s.voice /\ t.doc = s.doc
      /\ t.cache = s.cache /\ t.promised = s.promised /\ t.requests = s.requests
      /\ t.fetches = s.fetches /\ t.empty = s.empty
      BY <1>1, <1>5, <1>7, <1>8 DEF Decks
<1>10. RunReady(s, m) = Then(t, call.key, call.doc, m.answer)
       BY <1>1, <1>2, <1>4, <1>6, <1>8 DEF RunReady, Decks
<1>11. PICK promised : promised = [s.promised EXCEPT ![call.key] = 0]
       OBVIOUS
<1>12. promised \in [Keys -> Calls \cup {0}]
       BY <1>1, <1>11 DEF Decks
<1>13. PICK forgot : forgot = [t EXCEPT !.promised[call.key] = 0]
       OBVIOUS
<1>14. /\ forgot \in Decks /\ forgot.ready = ready /\ forgot.calls = calls
       /\ forgot.status = s.status /\ forgot.player = s.player /\ forgot.cur = s.cur
       /\ forgot.voice = s.voice /\ forgot.doc = s.doc /\ forgot.cache = s.cache
       /\ forgot.promised = promised /\ forgot.requests = s.requests
       /\ forgot.fetches = s.fetches /\ forgot.empty = s.empty
       BY <1>9, <1>11, <1>12, <1>13 DEF Decks
<1>15. CASE m.answer = "audio"
  <2>1. PICK cache : cache = [s.cache EXCEPT ![call.key] = call.doc]
        OBVIOUS
  <2>2. cache \in [Keys -> Docs \cup {NoDoc}]
        BY <1>1, <1>3, <2>1 DEF Decks
  <2>3. PICK u : u = [forgot EXCEPT !.cache[call.key] = call.doc]
        OBVIOUS
  <2>4. /\ u \in Decks /\ u.ready = ready /\ u.calls = calls
        /\ u.status = s.status /\ u.player = s.player /\ u.cur = s.cur
        /\ u.voice = s.voice /\ u.doc = s.doc /\ u.cache = cache
        /\ u.promised = promised /\ u.requests = s.requests /\ u.fetches = s.fetches
        BY <1>14, <2>1, <2>2, <2>3 DEF Decks
  <2>5. Released(s, u, m)
        BY <1>2, <1>6, <1>11, <1>15, <2>1, <2>4 DEF Released
  <2>6. Handed(s, u, m)
        BY <1>1, <1>2, <1>4, <2>4 DEF Handed
  <2>7. Calm(u)
        BY <2>4, <2>5, <2>6, ReleasedCalm
  <2>8. Then(t, call.key, call.doc, m.answer) = CheckBufferReady(u)
        BY <1>13, <1>15, <2>3 DEF Then
  <2>9. QED
        BY <1>10, <2>7, <2>8, BufferReadyCalm
<1>16. CASE m.answer # "audio"
  <2>1. PICK empty : empty = s.empty \cup {call.key}
        OBVIOUS
  <2>2. empty \in SUBSET (Keys \cup {<< >>})
        BY <1>1, <1>3, <2>1 DEF Decks
  <2>3. PICK u : u = [forgot EXCEPT !.empty = @ \cup {call.key}]
        OBVIOUS
  <2>4. /\ u \in Decks /\ u.ready = ready /\ u.calls = calls
        /\ u.status = s.status /\ u.player = s.player /\ u.cur = s.cur
        /\ u.voice = s.voice /\ u.doc = s.doc /\ u.cache = s.cache
        /\ u.promised = promised /\ u.requests = s.requests /\ u.fetches = s.fetches
        BY <1>14, <2>1, <2>2, <2>3 DEF Decks
  <2>5. Released(s, u, m)
        BY <1>2, <1>6, <1>11, <1>16, <2>4 DEF Released
  <2>6. Handed(s, u, m)
        BY <1>1, <1>2, <1>4, <2>4 DEF Handed
  <2>7. Calm(u)
        BY <2>4, <2>5, <2>6, ReleasedCalm
  <2>8. \/ /\ Then(t, call.key, call.doc, m.answer) = EngineStop(u)
           /\ t.status = "buffering"
        \/ Then(t, call.key, call.doc, m.answer) = CheckBufferReady(u)
        BY <1>13, <1>16, <2>3 DEF Then
  <2>9. t.status = "buffering" => Calm(EngineStop(u))
    <3>1. ASSUME t.status = "buffering"
          PROVE  u.player.state # "playing"
          BY <1>9, <2>4, <2>7, <3>1 DEF Calm, PlayerFits
    <3>2. QED
          BY <2>7, <3>1, StopCalm
  <2>10. Calm(CheckBufferReady(u))
        BY <2>7, BufferReadyCalm
  <2>11. QED
         BY <1>10, <2>8, <2>9, <2>10
<1>17. QED
       BY <1>15, <1>16

LEMMA MicrotaskCalm ==
    ASSUME Calm(deck), Calls = Nat \ {0}, Microtask
    PROVE  Calm(deck')
<1>1. deck \in Decks /\ deck.ready \in Seq(Thens \cup Resumes) /\ deck.ended \in Nat
      BY DEF Calm, Decks
<1>2. CASE deck.ready # << >> /\ deck' = RunReady(deck, deck.ready[1])
  <2>1. PICK m \in Thens \cup Resumes : m = deck.ready[1]
        BY <1>1, <1>2, TailOf
  <2>2. CASE m \in Thens
        BY <1>2, <2>1, <2>2, ThenCalm
  <2>3. CASE m \in Resumes
    <3>1. m.kind = "continue"
          BY <2>3 DEF Resumes
    <3>2. RunReady(deck, m) = Continue([deck EXCEPT !.ready = Tail(@)], m.sound, m.answer)
          BY <3>1 DEF RunReady
    <3>3. Calm(Continue([deck EXCEPT !.ready = Tail(@)], m.sound, m.answer))
          BY <1>2, <2>1, <2>3, <3>1, ContinueCalm
    <3>4. QED
          BY <1>2, <2>1, <3>2, <3>3
  <2>4. QED
        BY <2>1, <2>2, <2>3
<1>3. CASE deck.ended > 0 /\ deck' = PlayBlockEnd([deck EXCEPT !.ended = @ - 1])
  <2>1. PICK u : u = [deck EXCEPT !.ended = @ - 1]
        OBVIOUS
  <2>2. deck.ended - 1 \in Nat
        BY <1>1, <1>3
  <2>3. /\ u \in Decks /\ u.status = deck.status /\ u.player = deck.player
        /\ u.cur = deck.cur /\ u.voice = deck.voice /\ u.doc = deck.doc /\ u.cache = deck.cache
        /\ u.promised = deck.promised /\ u.calls = deck.calls /\ u.requests = deck.requests
        /\ u.fetches = deck.fetches /\ u.ready = deck.ready
        BY <1>1, <2>1, <2>2 DEF Decks
  <2>4. Calm(u)
        BY <2>3, MinorCalm
  <2>5. QED
        BY <1>3, <2>1, <2>4, EndCalm
<1>4. QED
      BY <1>2, <1>3 DEF Microtask

-----------------------------------------------------------------------------
(* The user                                                                 *)

LEMMA NothingExpected ==
    ASSUME Calm(deck), deck.ready = << >>, ~Awaiting
    PROVE  ~Expects(deck)
<1>1. deck.calls \in [Calls -> Promises]
      BY DEF Calm, Decks
<1>2. \A c \in Calls : deck.calls[c].waits \in Nat
      BY <1>1 DEF Promises
<1>3. Waiters(deck) = {}
      BY <1>2 DEF Awaiting, Waiters
<1>4. Resuming(deck) = {}
      BY DEF Resuming
<1>5. QED
      BY <1>3, <1>4 DEF Expects

LEMMA PlayCalm ==
    ASSUME Calm(deck), Calls = Nat \ {0}, Play, ~hasty'
    PROVE  Calm(deck')
<1>1. ~Expects(deck) /\ deck.status = "stopped"
      BY NothingExpected DEF Play, Click, EventLoop
<1>2. deck \in Decks /\ deck.player.state \in {"idle", "loading", "paused"}
      BY <1>1 DEF Calm, Decks, PlayerFits
<1>3. PICK start : start = CASE deck.cur = -1 -> NextPlayable(0)
                 [] deck.cur \in Collapsed -> IF NextPlayable(deck.cur + 1) >= 0
                                              THEN NextPlayable(deck.cur + 1) ELSE NextPlayable(0)
                 [] OTHER -> deck.cur
      OBVIOUS
<1>4. PICK s : s = [deck EXCEPT !.cur = start, !.failures = 0, !.error = "none"]
      OBVIOUS
<1>5. /\ start >= 0
      /\ deck' = IF Buffered(s, start)
                 THEN PlayBlock(TriggerPrefetch([s EXCEPT !.status = "playing"], start + 1, BatchSize))
                 ELSE TriggerPrefetch([s EXCEPT !.status = "buffering"], start, BatchSize)
      BY <1>3, <1>4 DEF Play
<1>6. start \in Blocks /\ (start \in Collapsed => start # deck.cur)
  <2>1. deck.cur \in Blocks \cup {-1}
        BY <1>2 DEF Decks
  <2>2. deck.cur + 1 \in Nat /\ 0 \in Nat
        BY <2>1, PlaybackAssumption DEF Blocks
  <2>3. /\ NextPlayable(0) = -1 \/ NextPlayable(0) \in Blocks \ Collapsed
        /\ NextPlayable(deck.cur + 1) = -1 \/ NextPlayable(deck.cur + 1) \in Blocks \ Collapsed
        BY <2>2, NextIsPlayable
  <2>4. CASE deck.cur = -1
        BY <1>3, <1>5, <2>3, <2>4
  <2>5. CASE deck.cur # -1 /\ deck.cur \in Collapsed
        BY <1>3, <1>5, <2>3, <2>5
  <2>6. CASE deck.cur # -1 /\ deck.cur \notin Collapsed
    <3>1. start = deck.cur
          BY <1>3, <2>6
    <3>2. QED
          BY <2>1, <2>6, <3>1
  <2>7. QED
        BY <2>4, <2>5, <2>6
<1>7. start \in Nat /\ start + 1 \in Nat /\ BatchSize \in Nat
      BY <1>6, PlaybackAssumption DEF Blocks
<1>8. PICK u : u = [deck EXCEPT !.cur = start]
      OBVIOUS
<1>9. Calm(u) /\ ~Expects(u) /\ u.player = deck.player /\ u.cur = start
      /\ u.status = "stopped" /\ Quiet(u)
  <2>1. CASE deck.player.state = "loading"
    <3>1. deck.cur \in Blocks \ Collapsed /\ HasAudio(deck, deck.cur)
          BY <2>1 DEF Calm, PlayerFits
    <3>2. deck.cur # -1
          BY <3>1, PlaybackAssumption DEF Blocks
    <3>3. start = deck.cur
          BY <1>3, <3>1, <3>2
    <3>4. u = deck
          BY <1>2, <1>8, <3>3 DEF Decks
    <3>5. QED
          BY <1>1, <2>1, <3>1, <3>3, <3>4 DEF Quiet
  <2>2. CASE deck.player.state # "loading"
    <3>1. deck.player.state \in {"idle", "paused"}
          BY <1>2, <2>2
    <3>2. Calm(u) /\ ~Expects(u) /\ u.player = deck.player /\ u.status = deck.status /\ u.cur = start
          BY <1>1, <1>6, <1>8, <3>1, CursorCalm
    <3>3. QED
          BY <1>1, <3>1, <3>2 DEF Quiet
  <2>3. QED
        BY <2>1, <2>2
<1>10. Calm(s) /\ ~Expects(s) /\ s.player = u.player /\ s.cur = start /\ Quiet(s)
  <2>1. s = [u EXCEPT !.failures = 0, !.error = "none"]
        BY <1>2, <1>4, <1>8 DEF Decks
  <2>2. u \in Decks
        BY <1>9 DEF Calm
  <2>3. /\ s \in Decks /\ s.status = u.status /\ s.player = u.player
        /\ s.cur = u.cur /\ s.voice = u.voice /\ s.doc = u.doc /\ s.cache = u.cache
        /\ s.promised = u.promised /\ s.calls = u.calls /\ s.requests = u.requests
        /\ s.fetches = u.fetches /\ s.ready = u.ready
        BY <2>1, <2>2 DEF Decks
  <2>4. QED
        BY <1>9, <2>3, MinorCalm DEF Quiet, HasAudio, Key
<1>11. CASE Buffered(s, start)
  <2>1. PICK p : p = [s EXCEPT !.status = "playing"]
        OBVIOUS
  <2>2. Calm(p) /\ ~Expects(p) /\ p.player = s.player /\ p.cur = s.cur
        /\ p.cache = s.cache /\ p.voice = s.voice
        BY <1>6, <1>10, <2>1, StatusCalm DEF Statuses, Quiet
  <2>3. PICK t : t = TriggerPrefetch(p, start + 1, BatchSize)
        OBVIOUS
  <2>4. Calm(t) /\ SynthesizeFrame(p, t) /\ ~Expects(t)
        BY <1>7, <2>2, <2>3, PrefetchCalm
  <2>5. Quiet(t)
        BY <1>10, <2>2, <2>4 DEF Quiet, SynthesizeFrame, HasAudio, Key
  <2>6. QED
        BY <1>5, <1>11, <2>1, <2>3, <2>4, <2>5, PlayBlockCalm
<1>12. CASE ~Buffered(s, start)
  <2>1. PICK p : p = [s EXCEPT !.status = "buffering"]
        OBVIOUS
  <2>2. Calm(p)
        BY <1>6, <1>10, <2>1, StatusCalm DEF Statuses, Quiet
  <2>3. QED
        BY <1>5, <1>7, <1>12, <2>1, <2>2, PrefetchCalm
<1>13. QED
       BY <1>11, <1>12

LEMMA PauseCalm ==
    ASSUME Calm(deck), Pause
    PROVE  Calm(deck')
<1>1. deck \in Decks /\ deck.status = "playing"
      BY DEF Calm, Pause
<1>2. PICK p : p = [deck.player EXCEPT !.state = IF deck.player.state = "playing" THEN "paused"
                                                 ELSE deck.player.state]
      OBVIOUS
<1>3. /\ p \in [state : {"idle", "loading", "playing", "paused"}, sound : Sounds \cup {<< >>}]
      /\ p.sound = deck.player.sound
      /\ p.state = IF deck.player.state = "playing" THEN "paused" ELSE deck.player.state
      BY <1>1, <1>2 DEF Decks
<1>4. PICK t : t = [EngineStop(deck) EXCEPT !.player.state = IF @ = "playing" THEN "paused" ELSE @]
      OBVIOUS
<1>5. t = [deck EXCEPT !.status = "stopped", !.player = p]
      BY <1>1, <1>2, <1>4 DEF EngineStop, Decks
<1>6. /\ t \in Decks /\ t.status = "stopped" /\ t.player = p
      /\ t.cur = deck.cur /\ t.voice = deck.voice /\ t.doc = deck.doc /\ t.cache = deck.cache
      /\ t.promised = deck.promised /\ t.calls = deck.calls /\ t.requests = deck.requests
      /\ t.fetches = deck.fetches /\ t.ready = deck.ready
      BY <1>1, <1>3, <1>5 DEF Decks, Statuses
<1>7. PlayerFits(t)
      BY <1>3, <1>6 DEF Calm, PlayerFits, Here, HasAudio, Key
<1>8. Expects(deck) => t.status # "buffering" /\ t.player.state \in {"idle", "paused"}
      BY <1>3, <1>6 DEF Calm, OneExpected
<1>9. Calm(t)
      BY <1>6, <1>7, <1>8, PlayerMoves
<1>10. QED
       BY <1>4, <1>9 DEF Pause

LEMMA ChangeCalm ==
    ASSUME Calm(deck), Click, Change, ~hasty'
    PROVE  ~Expects(deck) /\ deck.fetches = {} /\ deck.ready = << >> /\ deck.player.state # "loading"
BY NothingExpected DEF Click, Change, EventLoop

LEMMA StopPlayingCalm ==
    ASSUME Calm(deck), StopPlaying, ~hasty'
    PROVE  Calm(deck')
<1>1. ~Expects(deck) /\ deck.fetches = {} /\ deck.ready = << >>
      BY ChangeCalm DEF StopPlaying
<1>2. PICK q : q = Silenced(deck)
      OBVIOUS
<1>3. Calm(q) /\ ~Expects(q) /\ q.player.state = "idle" /\ q.ready = << >> /\ q.fetches = {}
      BY <1>1, <1>2, SilencedCalm
<1>4. PICK t : t = EngineStop(q)
      OBVIOUS
<1>5. Calm(t) /\ ~Expects(t) /\ t.ready = << >> /\ t.fetches = {}
      BY <1>3, <1>4, StopCalm
<1>6. Calm(CancelAll(t))
      BY <1>5, CancelCalm
<1>7. QED
      BY <1>2, <1>4, <1>6 DEF StopPlaying

LEMMA MoveCursorCalm ==
    ASSUME Calm(deck), Calls = Nat \ {0}, NEW b \in Blocks, MoveCursor(b), ~hasty'
    PROVE  Calm(deck')
<1>1. ~Expects(deck) /\ deck.fetches = {} /\ deck.ready = << >>
      BY ChangeCalm DEF MoveCursor
<1>2. PICK q : q = Silenced(deck)
      OBVIOUS
<1>3. Calm(q) /\ ~Expects(q) /\ q.player.state = "idle" /\ q.ready = << >> /\ q.fetches = {}
      BY <1>1, <1>2, SilencedCalm
<1>4. PICK t : t = CancelAll(q)
      OBVIOUS
<1>5. Calm(t) /\ ~Expects(t) /\ t.player.state = "idle"
      BY <1>3, <1>4, CancelCalm DEF Clear
<1>6. PICK u : u = [t EXCEPT !.cur = b]
      OBVIOUS
<1>7. Calm(u) /\ ~Expects(u) /\ u.player.state = "idle"
      BY <1>5, <1>6, CursorCalm
<1>8. b \in Nat /\ BatchSize \in Nat
      BY PlaybackAssumption DEF Blocks
<1>9. Calm(TriggerPrefetch(u, b, BatchSize))
      BY <1>7, <1>8, PrefetchCalm
<1>10. Calm(PlayBlock(u))
       BY <1>7, PlayBlockCalm DEF Quiet
<1>11. deck' \in {TriggerPrefetch(u, b, BatchSize), PlayBlock(u)}
       BY <1>2, <1>4, <1>6 DEF MoveCursor
<1>12. QED
       BY <1>9, <1>10, <1>11

LEMMA SetVoiceCalm ==
    ASSUME Calm(deck), Calls = Nat \ {0}, NEW v \in Voices, SetVoice(v), ~hasty'
    PROVE  Calm(deck')
<1>1. ~Expects(deck) /\ deck.fetches = {} /\ deck.ready = << >> /\ deck.player.state # "loading"
      BY ChangeCalm DEF SetVoice
<1>2. PICK t : t = CancelAll(deck)
      OBVIOUS
<1>3. /\ Calm(t) /\ Clear(t)
      /\ t.status = deck.status /\ t.cur = deck.cur /\ t.voice = deck.voice /\ t.doc = deck.doc
      /\ t.cache = deck.cache /\ t.player = deck.player
      BY <1>1, <1>2, CancelCalm
<1>4. t \in Decks
      BY <1>3 DEF Calm
<1>5. PICK cache : cache = [k \in Keys |-> IF k[2] = deck.voice THEN NoDoc ELSE t.cache[k]]
      OBVIOUS
<1>6. PICK empty : empty = {k \in t.empty : k[2] # deck.voice}
      OBVIOUS
<1>7. cache \in [Keys -> Docs \cup {NoDoc}] /\ empty \in SUBSET (Keys \cup {<< >>})
      BY <1>4, <1>5, <1>6 DEF Decks
<1>8. \A k \in Keys : cache[k] = NoDoc
      BY <1>3, <1>5 DEF Calm, CacheFits
<1>9. PICK u : u = [t EXCEPT !.voice = v, !.failures = 0, !.cache = cache, !.empty = empty]
      OBVIOUS
<1>10. /\ u \in Decks /\ u.voice = v /\ u.cache = cache /\ u.status = deck.status
       /\ u.cur = deck.cur /\ u.player = deck.player /\ u.promised = t.promised
       /\ u.calls = t.calls /\ u.requests = t.requests /\ u.fetches = t.fetches
       /\ u.ready = t.ready
       BY <1>3, <1>4, <1>7, <1>9 DEF Decks
<1>11. deck' = IF deck.status # "stopped" /\ deck.cur >= 0
               THEN TriggerPrefetch([Silenced(u) EXCEPT !.status = "buffering"], deck.cur, BatchSize)
               ELSE u
       BY <1>2, <1>4, <1>5, <1>6, <1>9 DEF SetVoice, Decks
<1>12. CASE deck.status # "stopped" /\ deck.cur >= 0
  <2>1. PICK w : w = [Silenced(u) EXCEPT !.status = "buffering"]
        OBVIOUS
  <2>2. w = [u EXCEPT !.player = Silence, !.status = "buffering"]
        BY <1>1, <1>10, <2>1 DEF Silenced, Decks
  <2>3. Silence \in [state : {"idle", "loading", "playing", "paused"}, sound : Sounds \cup {<< >>}]
        /\ Silence.state = "idle"
        BY DEF Silence
  <2>4. /\ w \in Decks /\ w.voice = v /\ w.cache = cache /\ w.status = "buffering"
        /\ w.cur = deck.cur /\ w.player = Silence /\ w.promised = t.promised
        /\ w.calls = t.calls /\ w.requests = t.requests /\ w.fetches = t.fetches
        /\ w.ready = t.ready
        BY <1>10, <2>2, <2>3 DEF Decks, Statuses
  <2>5. deck.cur \in Blocks
        BY <1>12 DEF Calm, PlayerFits
  <2>6. CacheFits(w) /\ PlayerFits(w)
        BY <1>8, <2>3, <2>4, <2>5 DEF CacheFits, PlayerFits
  <2>7. Calm(w)
        BY <1>3, <2>4, <2>6, SwitchCalm
  <2>8. deck.cur \in Nat /\ BatchSize \in Nat
        BY <2>5, PlaybackAssumption DEF Blocks
  <2>9. QED
        BY <1>11, <1>12, <2>1, <2>7, <2>8, PrefetchCalm
<1>13. CASE ~(deck.status # "stopped" /\ deck.cur >= 0)
  <2>1. deck.status = "stopped"
        BY <1>13, PlaybackAssumption DEF Calm, PlayerFits, Blocks
  <2>2. deck.player.state \notin {"playing", "loading"}
        BY <1>1, <2>1 DEF Calm, PlayerFits
  <2>3. CacheFits(u) /\ PlayerFits(u)
        BY <1>8, <1>10, <2>1, <2>2 DEF CacheFits, PlayerFits
  <2>4. Calm(u)
        BY <1>3, <1>10, <2>3, SwitchCalm
  <2>5. QED
        BY <1>11, <1>13, <2>4
<1>14. QED
       BY <1>12, <1>13

LEMMA SetDocumentCalm ==
    ASSUME Calm(deck), NEW d \in Docs, SetDocument(d), ~hasty'
    PROVE  Calm(deck')
<1>1. ~Expects(deck) /\ deck.fetches = {} /\ deck.ready = << >>
      BY ChangeCalm DEF SetDocument
<1>2. PICK q : q = Silenced(deck)
      OBVIOUS
<1>3. Calm(q) /\ ~Expects(q) /\ q.player.state = "idle" /\ q.ready = << >> /\ q.fetches = {}
      BY <1>1, <1>2, SilencedCalm
<1>4. PICK t : t = CancelAll(q)
      OBVIOUS
<1>5. Calm(t) /\ Clear(t) /\ t.player.state = "idle"
      BY <1>3, <1>4, CancelCalm
<1>6. t \in Decks
      BY <1>5 DEF Calm
<1>7. PICK u : u = [t EXCEPT !.doc = d, !.status = "stopped", !.cur = -1,
                             !.cache = [k \in Keys |-> NoDoc], !.empty = {}]
      OBVIOUS
<1>8. [k \in Keys |-> NoDoc] \in [Keys -> Docs \cup {NoDoc}]
      OBVIOUS
<1>9. /\ u \in Decks /\ u.status = "stopped" /\ u.cache = [k \in Keys |-> NoDoc]
      /\ u.player = t.player /\ u.promised = t.promised
      /\ u.calls = t.calls /\ u.requests = t.requests /\ u.fetches = t.fetches
      /\ u.ready = t.ready
      BY <1>6, <1>7, <1>8 DEF Decks, Statuses
<1>10. CacheFits(u) /\ PlayerFits(u)
       BY <1>5, <1>9 DEF CacheFits, PlayerFits
<1>11. Calm(u)
       BY <1>5, <1>9, <1>10, SwitchCalm
<1>12. QED
       BY <1>2, <1>4, <1>7, <1>11 DEF SetDocument

-----------------------------------------------------------------------------
(* The server and the audio element                                         *)

\* What a step that touches requests and downloads alone keeps
LEMMA RequestsCalm ==
    ASSUME NEW s, Calm(s), NEW t \in Decks,
           t.status = s.status, t.player = s.player,
           t.cur = s.cur, t.voice = s.voice, t.doc = s.doc, t.cache = s.cache,
           t.promised = s.promised, t.calls = s.calls, t.ready = s.ready,
           RequestsFit(t, Fitting(s)), t.fetches \subseteq Seq(Fitting(s))
    PROVE  Calm(t) /\ Fitting(t) = Fitting(s)
<1>1. CallsBlank(t) /\ CallsLeft(t) /\ Fitting(t) = Fitting(s) /\ CacheFits(t)
      BY DEF Calm, CallsBlank, CallsLeft, Fitting, CacheFits
<1>2. PromisesKept(t)
      BY DEF Calm, PromisesKept, Kept
<1>3. AnswersFit(t)
      BY <1>1 DEF Calm, AnswersFit, ReadyFits
<1>4. Waiters(t) = Waiters(s) /\ Resuming(t) = Resuming(s) /\ Here(t) = Here(s)
      BY DEF Waiters, Resuming, Here
<1>5. Expects(t) <=> Expects(s)
      BY <1>4 DEF Expects
<1>6. OneExpected(t)
      BY <1>4, <1>5 DEF Calm, OneExpected, Expected, HasAudio, Key
<1>7. PlayerFits(t)
      BY DEF Calm, PlayerFits, Here, HasAudio, Key
<1>8. QED
      BY <1>1, <1>2, <1>3, <1>6, <1>7 DEF Calm

LEMMA RemovedIn ==
    ASSUME NEW S, NEW q \in Seq(S), NEW i \in DOMAIN q
    PROVE  /\ RemoveAt(q, i) \in Seq(S)
           /\ \A j \in DOMAIN RemoveAt(q, i) : \E k \in DOMAIN q : RemoveAt(q, i)[j] = q[k]
<1>1. PICK a : a = SubSeq(q, 1, i - 1)
      OBVIOUS
<1>2. PICK b : b = SubSeq(q, i + 1, Len(q))
      OBVIOUS
<1>3. i \in 1 .. Len(q) /\ Len(q) \in Nat
      OBVIOUS
<1>4. /\ a \in Seq(S) /\ Len(a) = i - 1 /\ \A j \in 1 .. Len(a) : a[j] = q[j]
      BY <1>1, <1>3
<1>5. /\ b \in Seq(S) /\ Len(b) = Len(q) - i /\ \A j \in 1 .. Len(b) : b[j] = q[i + j]
      BY <1>2, <1>3
<1>6. RemoveAt(q, i) = a \o b
      BY <1>1, <1>2 DEF RemoveAt
<1>7. a \in Seq(S) /\ b \in Seq(S)
       BY <1>4, <1>5
<1>8. a \o b \in Seq(S) /\ DOMAIN (a \o b) = 1 .. Len(a) + Len(b)
      BY <1>7
<1>9. ASSUME NEW j \in DOMAIN (a \o b)
      PROVE  \E k \in DOMAIN q : (a \o b)[j] = q[k]
  <2>1. CASE j <= Len(a)
    <3>1. (a \o b)[j] = a[j] /\ j \in 1 .. Len(a)
          BY <1>4, <1>5, <1>8, <2>1
    <3>2. a[j] = q[j] /\ j \in DOMAIN q
          BY <1>3, <1>4, <3>1
    <3>3. QED
          BY <3>1, <3>2
  <2>2. CASE j > Len(a)
    <3>1. (a \o b)[j] = b[j - Len(a)] /\ j - Len(a) \in 1 .. Len(b)
          BY <1>4, <1>5, <1>8, <2>2
    <3>2. PICK m \in 1 .. Len(b) : m = j - Len(a)
          BY <3>1
    <3>3. i + m \in 1 .. Len(q)
          BY <1>3, <1>5
    <3>4. b[m] = q[i + m]
          BY <1>5
    <3>5. QED
          BY <3>1, <3>2, <3>3, <3>4
  <2>3. QED
        BY <1>4, <1>8, <2>1, <2>2
<1>10. QED
      BY <1>6, <1>8, <1>9

LEMMA RequestIn ==
    ASSUME NEW s, Calm(s), NEW i \in DOMAIN s.requests
    PROVE  /\ s.requests[i] \in Pending /\ s.requests[i].calls \in Seq(Calls)
           /\ s.requests[i].calls \in Seq(Fitting(s))
<1>1. s.requests \in Seq(Pending)
      BY DEF Calm, Decks
<1>2. s.requests[i] \in Pending
      BY <1>1
<1>3. s.requests[i].calls \in Seq(Calls)
      BY <1>2 DEF Pending
<1>4. QED
      BY <1>2, <1>3 DEF Calm, AnswersFit, RequestsFit

Errors == {"none", "recoverable", "fatal"}

LEMMA WithoutCalm ==
    ASSUME NEW s, Calm(s), NEW i \in DOMAIN s.requests, NEW error \in Errors,
           NEW fetches, fetches \subseteq Seq(Calls) /\ fetches \subseteq Seq(Fitting(s))
    PROVE  LET t == [Without(s, i) EXCEPT !.error = error, !.fetches = fetches]
           IN  Calm(t) /\ Fitting(t) = Fitting(s)
<1>1. s \in Decks /\ s.requests \in Seq(Pending)
      BY DEF Calm, Decks
<1>2. PICK q : q = RemoveAt(s.requests, i)
      OBVIOUS
<1>3. q \in Seq(Pending) /\ \A j \in DOMAIN q : \E k \in DOMAIN s.requests : q[j] = s.requests[k]
      BY <1>1, <1>2, RemovedIn
<1>4. PICK t : t = [Without(s, i) EXCEPT !.error = error, !.fetches = fetches]
      OBVIOUS
<1>5. t = [s EXCEPT !.requests = q, !.error = error, !.fetches = fetches]
      BY <1>1, <1>2, <1>4 DEF Without, Decks
<1>6. /\ t \in Decks /\ t.requests = q /\ t.fetches = fetches
      /\ t.status = s.status /\ t.player = s.player
      /\ t.cur = s.cur /\ t.voice = s.voice /\ t.doc = s.doc /\ t.cache = s.cache
      /\ t.promised = s.promised /\ t.calls = s.calls /\ t.ready = s.ready
      BY <1>1, <1>3, <1>5 DEF Decks, Errors
<1>7. RequestsFit(t, Fitting(s))
      BY <1>3, <1>6 DEF Calm, AnswersFit, RequestsFit
<1>8. QED
      BY <1>4, <1>6, <1>7, RequestsCalm

\* The requests are the same but for their counts
LEMMA CountsCalm ==
    ASSUME NEW s, Calm(s), NEW q \in Seq(Pending), DOMAIN q = DOMAIN s.requests,
           \A j \in DOMAIN q : q[j].calls = s.requests[j].calls,
           NEW t, t = [s EXCEPT !.requests = q]
    PROVE  Calm(t)
<1>1. s \in Decks
      BY DEF Calm
<1>2. /\ t \in Decks /\ t.requests = q /\ t.fetches = s.fetches
      /\ t.status = s.status /\ t.player = s.player
      /\ t.cur = s.cur /\ t.voice = s.voice /\ t.doc = s.doc /\ t.cache = s.cache
      /\ t.promised = s.promised /\ t.calls = s.calls /\ t.ready = s.ready
      BY <1>1 DEF Decks
<1>3. RequestsFit(t, Fitting(s)) /\ t.fetches \subseteq Seq(Fitting(s))
      BY <1>2 DEF Calm, AnswersFit, RequestsFit
<1>4. QED
      BY <1>2, <1>3, RequestsCalm

LEMMA OneCountCalm ==
    ASSUME NEW s, Calm(s), NEW i \in DOMAIN s.requests, NEW r \in Pending,
           r.calls = s.requests[i].calls,
           NEW t, t = [s EXCEPT !.requests = [s.requests EXCEPT ![i] = r]]
    PROVE  Calm(t)
<1>1. s.requests \in Seq(Pending)
      BY DEF Calm, Decks
<1>2. PICK q : q = [s.requests EXCEPT ![i] = r]
      OBVIOUS
<1>3. /\ q \in Seq(Pending) /\ DOMAIN q = DOMAIN s.requests
      /\ \A j \in DOMAIN q : q[j] = IF j = i THEN r ELSE s.requests[j]
      BY <1>1, <1>2
<1>4. \A j \in DOMAIN q : q[j].calls = s.requests[j].calls
      BY <1>3
<1>5. QED
      BY <1>2, <1>3, <1>4, CountsCalm

LEMMA ServerCalm ==
    ASSUME Calm(deck), ServerActs
    PROVE  Calm(deck')
<1>1. /\ deck \in Decks /\ deck.requests \in Seq(Pending) /\ deck.error \in Errors
      /\ deck.fetches \subseteq Seq(Calls) /\ deck.fetches \subseteq Seq(Fitting(deck))
      BY DEF Calm, Decks, Errors, AnswersFit
<1>2. ASSUME NEW i \in DOMAIN deck.requests, NoAudio(i)
      PROVE  Calm(deck')
  <2>1. PICK error \in {"none", "recoverable", "fatal", deck.error} :
            deck' = Settled([Without(deck, i) EXCEPT !.error = error], deck.requests[i].calls, "nothing")
        BY <1>2 DEF NoAudio
  <2>2. error \in Errors
        BY <1>1, <2>1 DEF Errors
  <2>3. PICK t : t = [Without(deck, i) EXCEPT !.error = error, !.fetches = deck.fetches]
        OBVIOUS
  <2>4. Calm(t)
        BY <1>1, <2>2, <2>3, WithoutCalm
  <2>5. t = [Without(deck, i) EXCEPT !.error = error]
        BY <1>1, <2>3 DEF Without, Decks
  <2>6. deck.requests[i].calls \in Seq(Calls)
        BY RequestIn
  <2>7. "nothing" \in Answers /\ "nothing" # "audio"
        BY DEF Answers
  <2>8. Calm(Settled(t, deck.requests[i].calls, "nothing"))
        BY <2>4, <2>6, <2>7, SettledCalm
  <2>9. QED
        BY <2>1, <2>5, <2>8
<1>3. ASSUME NEW i \in DOMAIN deck.requests, AudioCached(i)
      PROVE  Calm(deck')
  <2>1. PICK fetches : fetches = deck.fetches \cup {deck.requests[i].calls}
        OBVIOUS
  <2>2. fetches \subseteq Seq(Calls) /\ fetches \subseteq Seq(Fitting(deck))
        BY <1>1, <2>1, RequestIn
  <2>3. deck' = [Without(deck, i) EXCEPT !.error = "none", !.fetches = fetches]
        BY <1>1, <1>3, <2>1 DEF AudioCached, Without, Decks
  <2>4. QED
        BY <2>2, <2>3, WithoutCalm DEF Errors
<1>4. ASSUME NEW i \in DOMAIN deck.requests, Acknowledged(i)
      PROVE  Calm(deck')
  <2>1. deck.requests[i] \in Pending
        BY RequestIn
  <2>2. PICK r : r = [deck.requests[i] EXCEPT !.acknowledged = TRUE]
        OBVIOUS
  <2>3. r \in Pending /\ r.calls = deck.requests[i].calls
        BY <2>1, <2>2 DEF Pending
  <2>4. deck' = [deck EXCEPT !.requests = [deck.requests EXCEPT ![i] = r]]
        BY <1>1, <1>4, <2>2 DEF Acknowledged, Decks
  <2>5. QED
        BY <2>3, <2>4, OneCountCalm
<1>5. ASSUME LateStatus
      PROVE  Calm(deck')
  <2>1. PICK error \in Errors : deck' = [deck EXCEPT !.error = error]
        BY <1>5 DEF LateStatus, Errors
  <2>2. PICK t : t = [deck EXCEPT !.error = error]
        OBVIOUS
  <2>3. /\ t \in Decks /\ t.status = deck.status /\ t.player = deck.player
        /\ t.cur = deck.cur /\ t.voice = deck.voice /\ t.doc = deck.doc /\ t.cache = deck.cache
        /\ t.promised = deck.promised /\ t.calls = deck.calls /\ t.requests = deck.requests
        /\ t.fetches = deck.fetches /\ t.ready = deck.ready
        BY <1>1, <2>1, <2>2 DEF Decks, Errors
  <2>4. QED
        BY <2>1, <2>2, <2>3, MinorCalm
<1>6. ASSUME Reconnected
      PROVE  Calm(deck')
  <2>1. PICK q : q = [i \in DOMAIN deck.requests |-> [deck.requests[i] EXCEPT !.resends = 0]]
        OBVIOUS
  <2>2. \A i \in DOMAIN deck.requests : /\ [deck.requests[i] EXCEPT !.resends = 0] \in Pending
                                        /\ [deck.requests[i] EXCEPT !.resends = 0].calls = deck.requests[i].calls
        BY RequestIn DEF Pending
  <2>3. DOMAIN q = DOMAIN deck.requests
        BY <2>1
  <2>4. q \in Seq(Pending)
    <3>1. PICK n \in Nat : DOMAIN deck.requests = 1 .. n
          BY <1>1
    <3>2. \A i \in 1 .. n : [deck.requests[i] EXCEPT !.resends = 0] \in Pending
          BY <2>2, <3>1
    <3>3. q = [i \in 1 .. n |-> [deck.requests[i] EXCEPT !.resends = 0]]
          BY <2>1, <3>1
    <3>4. QED
          BY <3>2, <3>3
  <2>5. \A j \in DOMAIN q : q[j].calls = deck.requests[j].calls
    <3>1. ASSUME NEW j \in DOMAIN q
          PROVE  q[j].calls = deck.requests[j].calls
      <4>1. q[j] = [deck.requests[j] EXCEPT !.resends = 0] /\ j \in DOMAIN deck.requests
            BY <2>1
      <4>2. QED
            BY <2>2, <4>1
    <3>2. QED
          BY <3>1
  <2>6. /\ q \in Seq(Pending) /\ DOMAIN q = DOMAIN deck.requests
        /\ \A j \in DOMAIN q : q[j].calls = deck.requests[j].calls
        BY <2>3, <2>4, <2>5
  <2>7. deck' = [deck EXCEPT !.requests = q]
        BY <1>1, <1>6, <2>1 DEF Reconnected, Decks
  <2>8. QED
        BY <2>6, <2>7, CountsCalm
<1>7. QED
      BY <1>2, <1>3, <1>4, <1>5, <1>6 DEF ServerActs

LEMMA TimersCalm ==
    ASSUME Calm(deck), Timers
    PROVE  Calm(deck')
<1>1. /\ deck \in Decks /\ deck.requests \in Seq(Pending) /\ deck.error \in Errors
      /\ deck.fetches \subseteq Seq(Calls) /\ deck.fetches \subseteq Seq(Fitting(deck))
      BY DEF Calm, Decks, Errors, AnswersFit
<1>2. PICK i \in DOMAIN deck.requests : RetryTimer(i)
      BY DEF Timers
<1>3. PICK r \in Pending : r = deck.requests[i]
      BY RequestIn
<1>4. r.resends + 1 \in Nat
      BY DEF Pending
<1>5. CASE r.acknowledged
  <2>1. PICK e : e = [r EXCEPT !.acknowledged = FALSE]
        OBVIOUS
  <2>2. e \in Pending /\ e.calls = r.calls
        BY <2>1 DEF Pending
  <2>3. deck' = [deck EXCEPT !.requests = [deck.requests EXCEPT ![i] = e]]
        BY <1>1, <1>2, <1>3, <1>5, <2>1 DEF RetryTimer, Decks
  <2>4. QED
        BY <1>3, <2>2, <2>3, OneCountCalm
<1>6. CASE ~r.acknowledged /\ r.resends < MaxResends
  <2>1. PICK e : e = [r EXCEPT !.resends = r.resends + 1]
        OBVIOUS
  <2>2. e \in Pending /\ e.calls = r.calls
        BY <1>4, <2>1 DEF Pending
  <2>3. deck' = [deck EXCEPT !.requests = [deck.requests EXCEPT ![i] = e]]
        BY <1>1, <1>2, <1>3, <1>6, <2>1 DEF RetryTimer, Decks
  <2>4. QED
        BY <1>3, <2>2, <2>3, OneCountCalm
<1>7. CASE ~r.acknowledged /\ ~(r.resends < MaxResends)
  <2>1. PICK t : t = [Without(deck, i) EXCEPT !.error = deck.error, !.fetches = deck.fetches]
        OBVIOUS
  <2>2. Calm(t)
        BY <1>1, <2>1, WithoutCalm
  <2>3. t = Without(deck, i)
        BY <1>1, <2>1 DEF Without, Decks
  <2>4. r.calls \in Seq(Calls)
        BY DEF Pending
  <2>5. "nothing" \in Answers /\ "nothing" # "audio"
        BY DEF Answers
  <2>6. Calm(Settled(t, r.calls, "nothing"))
        BY <2>2, <2>4, <2>5, SettledCalm
  <2>7. deck' = Settled(Without(deck, i), r.calls, "nothing")
        BY <1>2, <1>3, <1>7 DEF RetryTimer
  <2>8. QED
        BY <2>3, <2>6, <2>7
<1>8. QED
      BY <1>5, <1>6, <1>7

LEMMA FetchesCalm ==
    ASSUME Calm(deck), Fetches
    PROVE  Calm(deck')
<1>1. /\ deck \in Decks /\ deck.fetches \subseteq Seq(Calls)
      /\ deck.fetches \subseteq Seq(Fitting(deck)) /\ RequestsFit(deck, Fitting(deck))
      BY DEF Calm, Decks, AnswersFit
<1>2. PICK calls \in deck.fetches : Fetched(calls)
      BY DEF Fetches
<1>3. PICK answer \in Answers :
          deck' = Settled([deck EXCEPT !.fetches = @ \ {calls}], calls, answer)
      BY <1>2 DEF Fetched, Answers
<1>4. PICK t : t = [deck EXCEPT !.fetches = @ \ {calls}]
      OBVIOUS
<1>5. /\ t \in Decks /\ t.fetches = deck.fetches \ {calls} /\ t.requests = deck.requests
      /\ t.status = deck.status /\ t.player = deck.player
      /\ t.cur = deck.cur /\ t.voice = deck.voice /\ t.doc = deck.doc /\ t.cache = deck.cache
      /\ t.promised = deck.promised /\ t.calls = deck.calls /\ t.ready = deck.ready
      BY <1>1, <1>4 DEF Decks
<1>6. RequestsFit(t, Fitting(deck)) /\ t.fetches \subseteq Seq(Fitting(deck))
      BY <1>1, <1>5 DEF RequestsFit
<1>7. Calm(t) /\ Fitting(t) = Fitting(deck)
      BY <1>5, <1>6, RequestsCalm
<1>8. calls \in Seq(Calls) /\ calls \in Seq(Fitting(t))
      BY <1>1, <1>7
<1>9. QED
      BY <1>3, <1>4, <1>7, <1>8, SettledCalm

LEMMA SilenceTyped ==
    /\ Silence \in [state : {"idle", "loading", "playing", "paused"}, sound : Sounds \cup {<< >>}]
    /\ Silence.state = "idle"
BY DEF Silence

\* The player alone changes, while nothing is awaited
LEMMA PlayerCalm ==
    ASSUME NEW s, Calm(s), ~Expects(s),
           NEW p \in [state : {"idle", "loading", "playing", "paused"}, sound : Sounds \cup {<< >>}],
           \/ p.state \in {"idle", "paused"}
           \/ p.state = "playing" /\ p.sound = Here(s) /\ s.status = "playing",
           NEW t, t = [s EXCEPT !.player = p]
    PROVE  Calm(t) /\ ~Expects(t) /\ t.player = p /\ t.status = s.status
<1>1. s \in Decks
      BY DEF Calm
<1>2. /\ t \in Decks /\ t.player = p /\ t.status = s.status
      /\ t.cur = s.cur /\ t.voice = s.voice /\ t.doc = s.doc /\ t.cache = s.cache
      /\ t.promised = s.promised /\ t.calls = s.calls /\ t.requests = s.requests
      /\ t.fetches = s.fetches /\ t.ready = s.ready
      BY <1>1 DEF Decks
<1>3. PlayerFits(t)
      BY <1>2 DEF Calm, PlayerFits, Here
<1>4. QED
      BY <1>2, <1>3, PlayerMoves

LEMMA LoadEndsCalm ==
    ASSUME Calm(deck), Calls = Nat \ {0}, LoadEnds
    PROVE  Calm(deck')
<1>1. deck \in Decks /\ deck.player.state = "loading"
      BY DEF Calm, LoadEnds
<1>2. ~Expects(deck)
      BY <1>1 DEF Calm, OneExpected
<1>3. deck.player.sound = Here(deck)
      BY <1>1 DEF Calm, PlayerFits
<1>4. deck.player.sound.block = deck.cur
      BY <1>3 DEF Here
<1>5. PICK o \in {"playing", "failed", "unplayable"} :
          deck' = PlayBlockEnd(
              CASE ~(deck.player.sound.block = deck.cur /\ deck.status = "playing") ->
                     [deck EXCEPT !.player.state = IF o = "playing" THEN "paused" ELSE "idle"]
                [] (deck.player.sound.block = deck.cur /\ deck.status = "playing") /\ o = "playing" ->
                     [deck EXCEPT !.player.state = "playing"]
                [] (deck.player.sound.block = deck.cur /\ deck.status = "playing") /\ o = "failed" ->
                     AdvanceToNext([deck EXCEPT !.player = Silence])
                [] (deck.player.sound.block = deck.cur /\ deck.status = "playing") /\ o = "unplayable" ->
                     EngineStop([deck EXCEPT !.player = Silence]))
      BY DEF LoadEnds
<1>6. ASSUME NEW v \in {"idle", "paused", "playing"},
             v = "playing" => deck.status = "playing"
      PROVE  Calm([deck EXCEPT !.player.state = v])
  <2>1. PICK p : p = [deck.player EXCEPT !.state = v]
        OBVIOUS
  <2>2. /\ p \in [state : {"idle", "loading", "playing", "paused"}, sound : Sounds \cup {<< >>}]
        /\ p.state = v /\ p.sound = Here(deck)
        BY <1>1, <1>3, <2>1 DEF Decks
  <2>3. PICK t : t = [deck EXCEPT !.player = p]
        OBVIOUS
  <2>4. t = [deck EXCEPT !.player.state = v]
        BY <1>1, <2>1, <2>3 DEF Decks
  <2>5. Calm(t)
        BY <1>2, <1>6, <2>2, <2>3, PlayerCalm
  <2>6. QED
        BY <2>4, <2>5
<1>7. PICK idle : idle = [deck EXCEPT !.player = Silence]
      OBVIOUS
<1>8. Calm(idle) /\ ~Expects(idle) /\ idle.player.state = "idle"
      BY <1>2, <1>7, SilenceTyped, PlayerCalm
<1>9. Calm(AdvanceToNext(idle)) /\ Calm(EngineStop(idle))
      BY <1>8, AdvanceCalm, StopCalm
<1>10. CASE deck.status # "playing"
  <2>1. deck' = PlayBlockEnd([deck EXCEPT !.player.state = IF o = "playing" THEN "paused" ELSE "idle"])
        BY <1>5, <1>10
  <2>2. PICK v \in {"idle", "paused"} : v = IF o = "playing" THEN "paused" ELSE "idle"
        OBVIOUS
  <2>3. Calm([deck EXCEPT !.player.state = v])
        BY <1>6
  <2>4. QED
        BY <2>1, <2>2, <2>3, EndCalm
<1>11. CASE deck.status = "playing" /\ o = "playing"
  <2>1. deck' = PlayBlockEnd([deck EXCEPT !.player.state = "playing"])
        BY <1>4, <1>5, <1>11
  <2>2. Calm([deck EXCEPT !.player.state = "playing"])
        BY <1>6, <1>11
  <2>3. QED
        BY <2>1, <2>2, EndCalm
<1>12. CASE deck.status = "playing" /\ o = "failed"
  <2>1. deck' = PlayBlockEnd(AdvanceToNext(idle))
        BY <1>4, <1>5, <1>7, <1>12
  <2>2. QED
        BY <1>9, <2>1, EndCalm
<1>13. CASE deck.status = "playing" /\ o = "unplayable"
  <2>1. deck' = PlayBlockEnd(EngineStop(idle))
        BY <1>4, <1>5, <1>7, <1>13
  <2>2. QED
        BY <1>9, <2>1, EndCalm
<1>14. QED
       BY <1>10, <1>11, <1>12, <1>13

LEMMA SoundEndsCalm ==
    ASSUME Calm(deck), Calls = Nat \ {0}, SoundEnds
    PROVE  Calm(deck')
<1>1. ~Expects(deck)
      BY DEF Calm, OneExpected, SoundEnds
<1>2. PICK idle : idle = [deck EXCEPT !.player = Silence]
      OBVIOUS
<1>3. Calm(idle) /\ ~Expects(idle) /\ idle.player.state = "idle"
      BY <1>1, <1>2, SilenceTyped, PlayerCalm
<1>4. Calm(AdvanceToNext(idle))
      BY <1>3, AdvanceCalm
<1>5. QED
      BY <1>2, <1>4 DEF SoundEnds

-----------------------------------------------------------------------------
PlayInv == hasty \in BOOLEAN /\ (~hasty => Calm(deck))

LEMMA PlayStart == PlayInit => PlayInv
<1> SUFFICES ASSUME PlayInit
             PROVE  PlayInv
    OBVIOUS
<1>1. PICK v \in Voices, d \in Docs :
          deck = [status |-> "stopped", cur |-> -1, voice |-> v, doc |-> d,
               cache |-> [k \in Keys |-> NoDoc], empty |-> {}, promised |-> [k \in Keys |-> 0],
               calls |-> [c \in Calls |-> Unused], requests |-> << >>, fetches |-> {},
               error |-> "none", failures |-> 0, player |-> Silence, ready |-> << >>, ended |-> 0]
      BY DEF PlayInit
<1>2. /\ deck.status = "stopped" /\ deck.cur = -1 /\ deck.voice = v /\ deck.doc = d
      /\ deck.cache = [k \in Keys |-> NoDoc] /\ deck.promised = [k \in Keys |-> 0]
      /\ deck.calls = [c \in Calls |-> Unused] /\ deck.requests = << >> /\ deck.fetches = {}
      /\ deck.player = Silence /\ deck.ready = << >>
      BY <1>1
<1>3. Unused \in Promises
      BY DEF Unused, Promises
<1>4. << >> \in Seq(Pending) /\ << >> \in Seq(Thens \cup Resumes)
      OBVIOUS
<1>5. deck \in Decks
      BY <1>1, <1>3, <1>4, SilenceTyped DEF Decks, Statuses
<1>6. CallsBlank(deck) /\ CallsLeft(deck)
      BY <1>2 DEF CallsBlank, CallsLeft, Unused
<1>7. PromisesKept(deck) /\ CacheFits(deck)
      BY <1>2 DEF PromisesKept, CacheFits
<1>8. AnswersFit(deck)
      BY <1>2 DEF AnswersFit, RequestsFit, ReadyFits
<1>9. Waiters(deck) = {} /\ Resuming(deck) = {}
      BY <1>2 DEF Waiters, Resuming, Unused
<1>10. OneExpected(deck)
       BY <1>9 DEF OneExpected, Expects
<1>11. PlayerFits(deck)
       BY <1>2, SilenceTyped DEF PlayerFits
<1>12. QED
       BY <1>5, <1>6, <1>7, <1>8, <1>10, <1>11 DEF PlayInv, Calm, PlayInit

LEMMA PlayStep ==
    ASSUME Calls = Nat \ {0}, PlayInv, [PlayNext]_playVars
    PROVE  PlayInv'
<1>1. CASE UNCHANGED playVars
  <2>1. deck' = deck /\ hasty' = hasty
        BY <1>1 DEF playVars
  <2>2. QED
        BY <2>1 DEF PlayInv
<1>2. ASSUME PlayNext
      PROVE  PlayInv'
  <2>1. hasty' \in BOOLEAN /\ (~hasty' => ~hasty)
        BY <1>2 DEF PlayInv, PlayNext, Microtask, UserActs, Play, Pause, StopPlaying, MoveCursor,
           SetVoice, SetDocument, Change, ServerActs, NoAudio, AudioCached, Acknowledged,
           LateStatus, Reconnected, Timers, RetryTimer, Fetches, Fetched, LoadEnds, SoundEnds,
           Happens
  <2>2. ASSUME ~hasty'
        PROVE  Calm(deck')
    <3>1. Calm(deck)
          BY <2>1, <2>2 DEF PlayInv
    <3>2. CASE UserActs
          BY <2>2, <3>1, <3>2, PlayCalm, PauseCalm, StopPlayingCalm, MoveCursorCalm, SetVoiceCalm,
             SetDocumentCalm DEF UserActs
    <3>3. QED
          BY <1>2, <3>1, <3>2, MicrotaskCalm, ServerCalm, TimersCalm, FetchesCalm, LoadEndsCalm,
             SoundEndsCalm DEF PlayNext
  <2>3. QED
        BY <2>1, <2>2 DEF PlayInv
<1>3. QED
      BY <1>1, <1>2

LEMMA PlaySounds == PlayInv => (~hasty => SoundIsCurrent)
BY DEF PlayInv, Calm, PlayerFits, SoundIsCurrent, Here

LEMMA PlayerInAudio == AudioSpec => PlayInit /\ [][PlayNext]_playVars
<1>1. AudioInit => PlayInit
      BY DEF AudioInit
<1>2. [AudioNext]_audioVars => [PlayNext]_playVars
      BY DEF AudioNext, Cache, Player, audioVars
<1>3. QED
      BY <1>1, <1>2, PTL DEF AudioSpec

\* The safety half of PlaybackHeard: while the user goes back on no answer the player
\* is about to use, what sounds is the block under the cursor, in the chosen voice, of
\* the open document (playbackEngine.ts, serverSynthesizer.ts), for any documents,
\* voices, clicks, answers and losses, and with no bound on the promises alive.
THEOREM SoundFollowsCursor ==
    ASSUME Calls = Nat \ {0}
    PROVE  AudioSpec => [](~hasty => SoundIsCurrent)
<1>1. PlayInit => PlayInv
      BY PlayStart
<1>2. PlayInv /\ [PlayNext]_playVars => PlayInv'
      BY PlayStep
<1>3. PlayInv => (~hasty => SoundIsCurrent)
      BY PlaySounds
<1>4. QED
      BY <1>1, <1>2, <1>3, PlayerInAudio, PTL
===============================================================================

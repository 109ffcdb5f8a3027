----------------------------- MODULE RingProofs -----------------------------
(***************************************************************************)
(* The ring of queue.c and thread_pool.c is a sequence: entries that are   *)
(* present have different slots, writing the computed rear slot appends,   *)
(* and moving the front index by one takes the first entry off.  For every *)
(* capacity, every front index and every content.                          *)
(***************************************************************************)
EXTENDS Ring, SequenceTheorems, TLAPS

(* Division with remainder.                                                *)
LEMMA DivMod ==
  ASSUME NEW a \in Nat, NEW m \in Nat \ {0}
  PROVE  /\ a = m * (a \div m) + (a % m)
         /\ a \div m \in Nat
         /\ a % m \in Nat /\ a % m \in 0 .. m - 1
OBVIOUS

(* Numbers that are less than m apart have different remainders.           *)
LEMMA RemaindersDiffer ==
  ASSUME NEW a \in Nat, NEW b \in Nat, NEW m \in Nat \ {0}, a < b, b - a < m
  PROVE  a % m # b % m
<1> SUFFICES ASSUME a % m = b % m PROVE FALSE
  OBVIOUS
<1> DEFINE x == a \div m
           y == b \div m
<1>1. a = m * x + (a % m) /\ x \in Nat /\ a % m \in Nat
  BY DivMod
<1>2. b = m * y + (b % m) /\ y \in Nat
  BY DivMod
<1>3. b - a = m * y - m * x /\ x \in Nat /\ y \in Nat
  BY <1>1, <1>2
<1> HIDE DEF x, y
<1>4. m * y - m * x = m * (y - x)
  BY <1>3
<1>5. CASE y - x <= 0
  <2>1. m * (y - x) <= 0
    BY <1>3, <1>5
  <2> QED
    BY <1>3, <1>4, <2>1
<1>6. CASE y - x >= 1
  <2>1. m * (y - x) >= m
    BY <1>3, <1>6
  <2> QED
    BY <1>3, <1>4, <2>1
<1> QED
  BY <1>3, <1>5, <1>6

(* A number below m is its own remainder, and m more changes nothing.      *)
LEMMA SmallRemainder ==
  ASSUME NEW a \in Nat, NEW m \in Nat \ {0}
  PROVE  /\ a < m => a % m = a
         /\ a >= m /\ a < m + m => a % m = a - m
OBVIOUS

(* A computed slot is a slot of the ring.                                  *)
LEMMA SlotInRing ==
  ASSUME NEW f \in Nat, NEW i \in Nat, NEW c \in Nat \ {0}
  PROVE  Slot(f, i, c) \in 0 .. c - 1
BY DivMod DEF Slot

(* Two entries of a ring that is not overfull have different slots.        *)
LEMMA SlotsDiffer ==
  ASSUME NEW c \in Nat \ {0}, NEW f \in Nat,
         NEW i \in 0 .. c - 1, NEW j \in 0 .. c - 1, i # j
  PROVE  Slot(f, i, c) # Slot(f, j, c)
<1> DEFINE a == f + i
           b == f + j
<1>1. a \in Nat /\ b \in Nat /\ (a < b \/ b < a) /\ b - a < c /\ a - b < c
  OBVIOUS
<1> HIDE DEF a, b
<1>2. a % c # b % c
  BY <1>1, RemaindersDiffer
<1> QED
  BY <1>2 DEF Slot, a, b

(* Once the front has moved by one, every entry is one place nearer.       *)
LEMMA SlotAfterAdvance ==
  ASSUME NEW c \in Nat \ {0}, NEW f \in 0 .. c - 1, NEW i \in 0 .. c - 1
  PROVE  Slot(Slot(f, 1, c), i, c) = Slot(f, i + 1, c)
<1>1. CASE f + 1 < c
  <2>1. (f + 1) % c = f + 1
    BY <1>1, SmallRemainder, SMTT(60)
  <2> QED
    BY <2>1 DEF Slot
<1>2. CASE f + 1 = c
  <2>1. (f + 1) % c = 0
    BY <1>2, SmallRemainder
  <2>2. i % c = i
    BY SmallRemainder
  <2>3. (f + (i + 1)) % c = i
    <3>1. f + (i + 1) \in Nat /\ f + (i + 1) >= c /\ f + (i + 1) < c + c
          /\ f + (i + 1) - c = i
      BY <1>2
    <3> QED
      BY <3>1, SmallRemainder
  <2> QED
    BY <2>1, <2>2, <2>3 DEF Slot
<1> QED
  BY <1>1, <1>2

(* The content of a ring is a sequence as long as its size.                *)
LEMMA ContentsIsSeq ==
  ASSUME NEW S, NEW c \in Nat \ {0}, NEW f \in 0 .. c - 1, NEW n \in 0 .. c,
         NEW a, \A k \in 0 .. c - 1 : a[k] \in S
  PROVE  /\ Contents(a, f, n, c) \in Seq(S)
         /\ Len(Contents(a, f, n, c)) = n
<1> DEFINE s == Contents(a, f, n, c)
<1>1. \A i \in 1 .. n : a[Slot(f, i - 1, c)] \in S
  <2> SUFFICES ASSUME NEW i \in 1 .. n PROVE a[Slot(f, i - 1, c)] \in S
    OBVIOUS
  <2>1. i - 1 \in Nat
    OBVIOUS
  <2>2. Slot(f, i - 1, c) \in 0 .. c - 1
    BY <2>1, SlotInRing
  <2> QED
    BY <2>2
<1>2. s = [i \in 1 .. n |-> a[Slot(f, i - 1, c)]]
  BY DEF Contents
<1>3. s \in [1 .. n -> S]
  BY <1>1, <1>2
<1> HIDE DEF s
<1>4. s \in Seq(S) /\ Len(s) = n
  <2>1. n \in Nat
    OBVIOUS
  <2> QED
    BY <1>3, <2>1
<1> QED
  BY <1>4 DEF s

(* The content of a ring is as long as its size.                           *)
LEMMA ContentsLen ==
  ASSUME NEW c \in Nat \ {0}, NEW f \in 0 .. c - 1, NEW n \in 0 .. c, NEW a
  PROVE  Len(Contents(a, f, n, c)) = n
<1>1. PICK S : \A k \in 0 .. c - 1 : a[k] \in S
  <2>1. \A k \in 0 .. c - 1 : a[k] \in {a[j] : j \in 0 .. c - 1}
    OBVIOUS
  <2> QED
    BY <2>1
<1>2. Contents(a, f, n, c) \in Seq(S) /\ Len(Contents(a, f, n, c)) = n
  BY <1>1, ContentsIsSeq
<1> QED
  BY <1>2

(* The i-th entry.                                                         *)
LEMMA ContentsAt ==
  ASSUME NEW a, NEW f, NEW n, NEW c, NEW i \in 1 .. n
  PROVE  Contents(a, f, n, c)[i] = a[Slot(f, i - 1, c)]
BY DEF Contents

(* Writing the rear slot appends.                                          *)
LEMMA ContentsAfterPut ==
  ASSUME NEW c \in Nat \ {0}, NEW f \in 0 .. c - 1, NEW n \in 0 .. c - 1,
         NEW a, NEW b, NEW x, b[Slot(f, n, c)] = x,
         \A k \in 0 .. c - 1 : k # Slot(f, n, c) => b[k] = a[k]
  PROVE  Contents(b, f, n + 1, c) = Append(Contents(a, f, n, c), x)
<1>0. PICK S : x \in S /\ \A k \in 0 .. c - 1 : a[k] \in S
  <2>1. x \in {a[k] : k \in 0 .. c - 1} \cup {x}
        /\ \A k \in 0 .. c - 1 : a[k] \in {a[j] : j \in 0 .. c - 1} \cup {x}
    OBVIOUS
  <2> QED
    BY <2>1
<1> DEFINE s == Contents(a, f, n, c)
           t == Contents(b, f, n + 1, c)
<1>1. Slot(f, n, c) \in 0 .. c - 1
  <2>1. f \in Nat /\ n \in Nat
    OBVIOUS
  <2> QED
    BY <2>1, SlotInRing
<1>2. \A k \in 0 .. c - 1 : b[k] \in S
  BY <1>0
<1>3. n \in 0 .. c /\ n + 1 \in 0 .. c
  OBVIOUS
<1>4. /\ s \in Seq(S) /\ Len(s) = n
      /\ \A i \in 1 .. n : s[i] = a[Slot(f, i - 1, c)]
  <2>1. s \in Seq(S) /\ Len(s) = n
    BY <1>0, <1>3, ContentsIsSeq
  <2>2. \A i \in 1 .. n : s[i] = a[Slot(f, i - 1, c)]
    BY ContentsAt
  <2> QED
    BY <2>1, <2>2
<1>5. /\ t \in Seq(S) /\ Len(t) = n + 1
      /\ \A i \in 1 .. n + 1 : t[i] = b[Slot(f, i - 1, c)]
  <2>1. t \in Seq(S) /\ Len(t) = n + 1
    BY <1>2, <1>3, ContentsIsSeq
  <2>2. t = [i \in 1 .. n + 1 |-> b[Slot(f, i - 1, c)]]
    BY DEF Contents
  <2> HIDE DEF t
  <2> QED
    BY <2>1, <2>2
<1> HIDE DEF s, t
<1>6. /\ Append(s, x) \in Seq(S) /\ Len(Append(s, x)) = n + 1
      /\ \A i \in 1 .. n : Append(s, x)[i] = s[i]
      /\ Append(s, x)[n + 1] = x
  BY <1>0, <1>4, AppendProperties
<1>7. ASSUME NEW i \in 1 .. n + 1 PROVE t[i] = Append(s, x)[i]
  <2>1. CASE i = n + 1
    <3>1. t[i] = b[Slot(f, n, c)]
      BY <1>5, <2>1
    <3>2. b[Slot(f, n, c)] = x
      BY <1>1
    <3> QED
      BY <1>6, <2>1, <3>1, <3>2
  <2>2. CASE i \in 1 .. n
    <3>1. i - 1 \in 0 .. c - 1 /\ i - 1 # n /\ i - 1 \in Nat
      BY <2>2
    <3>2. Slot(f, i - 1, c) # Slot(f, n, c) /\ Slot(f, i - 1, c) \in 0 .. c - 1
      <4>1. Slot(f, i - 1, c) # Slot(f, n, c)
        BY <3>1, SlotsDiffer
      <4>2. Slot(f, i - 1, c) \in 0 .. c - 1
        <5>1. f \in Nat
          OBVIOUS
        <5> QED
          BY <3>1, <5>1, SlotInRing
      <4> QED
        BY <4>1, <4>2
    <3>3. b[Slot(f, i - 1, c)] = a[Slot(f, i - 1, c)]
      BY <3>2
    <3> QED
      BY <1>4, <1>5, <1>6, <2>2, <3>3
  <2>3. i = n + 1 \/ i \in 1 .. n
    OBVIOUS
  <2> QED
    BY <2>1, <2>2, <2>3
<1> QED
  BY <1>5, <1>6, <1>7, SeqEqual DEF s, t

(* Moving the front takes the first entry off.                             *)
LEMMA ContentsAfterTake ==
  ASSUME NEW c \in Nat \ {0}, NEW f \in 0 .. c - 1, NEW n \in 1 .. c, NEW a
  PROVE  /\ Contents(a, f, n, c) # << >>
         /\ Head(Contents(a, f, n, c)) = a[f]
         /\ Contents(a, Slot(f, 1, c), n - 1, c) = Tail(Contents(a, f, n, c))
<1>0. PICK S : \A k \in 0 .. c - 1 : a[k] \in S
  <2>1. \A k \in 0 .. c - 1 : a[k] \in {a[j] : j \in 0 .. c - 1}
    OBVIOUS
  <2> QED
    BY <2>1
<1> DEFINE s == Contents(a, f, n, c)
           g == Slot(f, 1, c)
           t == Contents(a, g, n - 1, c)
<1>1. g \in 0 .. c - 1
  BY SlotInRing
<1>2. n \in 0 .. c /\ n - 1 \in 0 .. c
  OBVIOUS
<1>3. /\ s \in Seq(S) /\ Len(s) = n
      /\ \A i \in 1 .. n : s[i] = a[Slot(f, i - 1, c)]
  <2>1. s \in Seq(S) /\ Len(s) = n
    BY <1>0, <1>2, ContentsIsSeq
  <2>2. \A i \in 1 .. n : s[i] = a[Slot(f, i - 1, c)]
    BY ContentsAt
  <2> QED
    BY <2>1, <2>2
<1> HIDE DEF g
<1>4. /\ t \in Seq(S) /\ Len(t) = n - 1
      /\ \A i \in 1 .. n - 1 : t[i] = a[Slot(g, i - 1, c)]
  <2>1. t \in Seq(S) /\ Len(t) = n - 1
    <3>1. ASSUME NEW k \in 0 .. c
          PROVE  /\ Contents(a, g, k, c) \in Seq(S)
                 /\ Len(Contents(a, g, k, c)) = k
      BY <1>0, <1>1, ContentsIsSeq
    <3> QED
      BY <1>2, <3>1
  <2>2. \A i \in 1 .. n - 1 : t[i] = a[Slot(g, i - 1, c)]
    <3> SUFFICES ASSUME NEW i \in 1 .. n - 1
                 PROVE  t[i] = a[Slot(g, i - 1, c)]
      OBVIOUS
    <3>1. t = [j \in 1 .. n - 1 |-> a[Slot(g, j - 1, c)]]
      BY DEF Contents
    <3> HIDE DEF t
    <3> QED
      BY <3>1
  <2> QED
    BY <2>1, <2>2
<1> HIDE DEF s, t
<1>5. s # << >>
  <2>1. Len(<< >>) = 0 /\ Len(s) # 0
    BY <1>3
  <2> QED
    BY <2>1, Zenon
<1>6. Head(s) = a[f]
  <2>1. Head(s) = s[1]
    BY <1>3, <1>5
  <2>2. f + (1 - 1) = f
    OBVIOUS
  <2>3. Slot(f, 1 - 1, c) = f
    BY <2>2, SmallRemainder DEF Slot
  <2> QED
    BY <1>3, <2>1, <2>3
<1>7. /\ Tail(s) \in Seq(S) /\ Len(Tail(s)) = n - 1
      /\ \A i \in 1 .. n - 1 : Tail(s)[i] = s[i + 1]
  BY <1>3, <1>5, HeadTailProperties
<1>8. ASSUME NEW i \in 1 .. n - 1 PROVE t[i] = Tail(s)[i]
  <2>1. i - 1 \in 0 .. c - 1 /\ i + 1 \in 1 .. n /\ (i - 1) + 1 = i /\ (i + 1) - 1 = i
    OBVIOUS
  <2>2. Slot(g, i - 1, c) = Slot(f, (i - 1) + 1, c)
    BY <2>1, SlotAfterAdvance DEF g
  <2>3. t[i] = a[Slot(f, i, c)]
    BY <1>4, <2>1, <2>2
  <2>4. s[i + 1] = a[Slot(f, i, c)]
    BY <1>3, <2>1
  <2> QED
    BY <1>7, <2>3, <2>4
<1> QED
  BY <1>4, <1>5, <1>6, <1>7, <1>8, SeqEqual DEF s, t, g

-----------------------------------------------------------------------------
(* The entries of a ring as a set, and no entry twice.                     *)
RingEntries(items, front, size, capacity) ==
  {items[Slot(front, i, capacity)] : i \in 0 .. size - 1}

RingDistinct(items, front, size, capacity) ==
  \A i, j \in 0 .. size - 1 :
    items[Slot(front, i, capacity)] = items[Slot(front, j, capacity)] => i = j

(* Writing the rear slot adds one entry.                                   *)
LEMMA EntriesAfterPut ==
  ASSUME NEW c \in Nat \ {0}, NEW f \in 0 .. c - 1, NEW n \in 0 .. c - 1,
         NEW a, NEW b, NEW x, b[Slot(f, n, c)] = x,
         \A k \in 0 .. c - 1 : k # Slot(f, n, c) => b[k] = a[k]
  PROVE  /\ RingEntries(b, f, n + 1, c) = RingEntries(a, f, n, c) \cup {x}
         /\ RingDistinct(a, f, n, c) /\ x \notin RingEntries(a, f, n, c)
              => RingDistinct(b, f, n + 1, c)
<1> DEFINE A(i) == a[Slot(f, i, c)]
           B(i) == b[Slot(f, i, c)]
<1>1. B(n) = x /\ \A i \in 0 .. n - 1 : B(i) = A(i)
  <2> SUFFICES ASSUME NEW i \in 0 .. n - 1 PROVE B(i) = A(i)
    OBVIOUS
  <2>1. i \in 0 .. c - 1 /\ i # n /\ i \in Nat /\ f \in Nat
    OBVIOUS
  <2>2. Slot(f, i, c) # Slot(f, n, c)
    BY <2>1, SlotsDiffer
  <2>3. Slot(f, i, c) \in 0 .. c - 1
    BY <2>1, SlotInRing
  <2> QED
    BY <2>2, <2>3
<1>2. RingEntries(a, f, n, c) = {A(i) : i \in 0 .. n - 1}
  BY DEF RingEntries
<1>3. RingEntries(b, f, n + 1, c) = {B(i) : i \in 0 .. n}
  <2>1. (n + 1) - 1 = n
    OBVIOUS
  <2> QED
    BY <2>1, Zenon DEF RingEntries
<1>4. RingDistinct(a, f, n, c) <=> \A i, j \in 0 .. n - 1 : A(i) = A(j) => i = j
  BY DEF RingDistinct
<1>5. RingDistinct(b, f, n + 1, c) <=> \A i, j \in 0 .. n : B(i) = B(j) => i = j
  BY DEF RingDistinct
<1> HIDE DEF A, B
<1>6. \A i : i \in 0 .. n <=> i \in 0 .. n - 1 \/ i = n
  OBVIOUS
<1>7. n \notin 0 .. n - 1
  OBVIOUS
<1>8. {B(i) : i \in 0 .. n} = {A(i) : i \in 0 .. n - 1} \cup {x}
  BY <1>1, <1>6
<1>9. ASSUME RingDistinct(a, f, n, c), x \notin RingEntries(a, f, n, c)
      PROVE  RingDistinct(b, f, n + 1, c)
  <2>1. \A i \in 0 .. n - 1 : A(i) # x
    BY <1>2, <1>9
  <2> SUFFICES ASSUME NEW i \in 0 .. n, NEW j \in 0 .. n, B(i) = B(j)
               PROVE  i = j
    BY <1>5
  <2> QED
    BY <1>1, <1>4, <1>6, <1>9, <2>1
<1> QED
  BY <1>2, <1>3, <1>8, <1>9

(* Moving the front brings no new entry in, and what it takes was there.   *)
LEMMA EntriesOnlyLeave ==
  ASSUME NEW c \in Nat \ {0}, NEW f \in 0 .. c - 1, NEW n \in 1 .. c, NEW a
  PROVE  /\ a[f] \in RingEntries(a, f, n, c)
         /\ RingEntries(a, Slot(f, 1, c), n - 1, c)
              \subseteq RingEntries(a, f, n, c)
<1> DEFINE g == Slot(f, 1, c)
<1>1. ASSUME NEW i \in 0 .. n - 2
      PROVE  i + 1 \in 0 .. n - 1 /\ Slot(g, i, c) = Slot(f, i + 1, c)
  <2>1. i \in 0 .. c - 1 /\ i + 1 \in 0 .. n - 1
    OBVIOUS
  <2> QED
    BY <2>1, SlotAfterAdvance
<1>2. Slot(f, 0, c) = f /\ 0 \in 0 .. n - 1
  <2>1. f + 0 = f
    OBVIOUS
  <2> QED
    BY <2>1, SmallRemainder DEF Slot
<1> HIDE DEF g
<1>3. (n - 1) - 1 = n - 2
  OBVIOUS
<1>4. RingEntries(a, g, n - 1, c) \subseteq RingEntries(a, f, n, c)
  BY <1>1, <1>3 DEF RingEntries
<1>5. a[f] \in RingEntries(a, f, n, c)
  BY <1>2 DEF RingEntries
<1> QED
  BY <1>4, <1>5 DEF g

(* Moving the front takes exactly one entry away.                          *)
LEMMA EntriesAfterTake ==
  ASSUME NEW c \in Nat \ {0}, NEW f \in 0 .. c - 1, NEW n \in 1 .. c, NEW a,
         RingDistinct(a, f, n, c)
  PROVE  /\ a[f] \in RingEntries(a, f, n, c)
         /\ RingEntries(a, Slot(f, 1, c), n - 1, c)
              = RingEntries(a, f, n, c) \ {a[f]}
         /\ RingDistinct(a, Slot(f, 1, c), n - 1, c)
<1> DEFINE g == Slot(f, 1, c)
           A(i) == a[Slot(f, i, c)]
           B(i) == a[Slot(g, i, c)]
<1>1. ASSUME NEW i \in 0 .. n - 2 PROVE B(i) = A(i + 1)
  <2>1. i \in 0 .. c - 1
    OBVIOUS
  <2> QED
    BY <2>1, SlotAfterAdvance
<1>2. A(0) = a[f]
  <2>1. f + 0 = f
    OBVIOUS
  <2> QED
    BY <2>1, SmallRemainder DEF Slot
<1>3. RingEntries(a, f, n, c) = {A(i) : i \in 0 .. n - 1}
  BY DEF RingEntries
<1>4. RingEntries(a, g, n - 1, c) = {B(i) : i \in 0 .. n - 2}
  BY DEF RingEntries
<1>5. \A i, j \in 0 .. n - 1 : A(i) = A(j) => i = j
  BY DEF RingDistinct
<1>6. RingDistinct(a, g, n - 1, c)
        <=> \A i, j \in 0 .. n - 2 : B(i) = B(j) => i = j
  BY DEF RingDistinct
<1> HIDE DEF A, B, g
<1>7. \A i \in 0 .. n - 2 : i + 1 \in 0 .. n - 1 /\ i + 1 # 0
  OBVIOUS
<1>8. \A i \in 0 .. n - 1 : i # 0 => i - 1 \in 0 .. n - 2 /\ (i - 1) + 1 = i
  OBVIOUS
<1>9. 0 \in 0 .. n - 1
  OBVIOUS
<1>10. {B(i) : i \in 0 .. n - 2} = {A(i) : i \in 0 .. n - 1} \ {A(0)}
  <2>1. ASSUME NEW y \in {B(i) : i \in 0 .. n - 2}
        PROVE  y \in {A(i) : i \in 0 .. n - 1} \ {A(0)}
    <3>1. PICK i \in 0 .. n - 2 : y = B(i)
      OBVIOUS
    <3> QED
      BY <1>1, <1>5, <1>7, <1>9, <3>1
  <2>2. ASSUME NEW y \in {A(i) : i \in 0 .. n - 1} \ {A(0)}
        PROVE  y \in {B(i) : i \in 0 .. n - 2}
    <3>1. PICK i \in 0 .. n - 1 : y = A(i)
      OBVIOUS
    <3>2. i # 0
      BY <3>1
    <3> QED
      BY <1>1, <1>8, <3>1, <3>2
  <2> QED
    BY <2>1, <2>2
<1>11. RingDistinct(a, g, n - 1, c)
  <2> SUFFICES ASSUME NEW i \in 0 .. n - 2, NEW j \in 0 .. n - 2, B(i) = B(j)
               PROVE  i = j
    BY <1>6
  <2>1. A(i + 1) = A(j + 1)
    BY <1>1
  <2>2. i + 1 = j + 1
    BY <1>5, <1>7, <2>1
  <2> QED
    BY <2>2
<1>12. a[f] \in {A(i) : i \in 0 .. n - 1}
  BY <1>2, <1>9
<1> QED
  BY <1>2, <1>3, <1>4, <1>10, <1>11, <1>12 DEF g

=============================================================================

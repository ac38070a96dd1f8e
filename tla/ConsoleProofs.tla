--------------------------- MODULE ConsoleProofs ---------------------------
(***************************************************************************)
(* The line buffer of a console never overflows, and with its ring of      *)
(* cooked bytes it implements module LineEditor, for buffers of any size   *)
(* and whatever is typed and read.                                         *)
(***************************************************************************)
EXTENDS Console, ListsProofs

Ring == 0..(CBUF_SZ - 1)

\* The line in buf ends at n.
EndsAt(buf, n) == buf[n] = NUL /\ \A k \in 0..(n - 1) : buf[k] # NUL

\* The bytes of buf before place c, and from there up to place n.
Before(buf, c)   == [k \in 1..c |-> buf[k - 1]]
After(buf, c, n) == [k \in 1..(n - c) |-> buf[c + k - 1]]

\* The bytes of ring b from place x up to place y.
Bytes(b, x, y) == [k \in 1..Used(x, y) |-> b[(x + k - 1) % CBUF_SZ]]

CookedType ==
  /\ cbuf \in [Ring -> Byte] /\ f \in Ring /\ r \in Ring
  /\ rstk \in Seq(Counts)

\* What is in the ring ends with the end of a line, so that get_cooked() stops
\* inside it; who waits, waits alone and for the first line.
WholeLines ==
  /\ f # r => cbuf[(r - 1) % CBUF_SZ] = NUL
  /\ rstk # <<>> => f = r /\ Len(rstk) = 1

ConsoleInv == LineEnds /\ CookedType /\ WholeLines
-----------------------------------------------------------------------------
(* Arithmetic of the ring. *)

(* A place less than one turn beyond the ring, or before it. *)
LEMMA Modulo ==
  ASSUME NEW n \in Nat \ {0}
  PROVE  /\ \A a \in 0..(n - 1) : a % n = a
         /\ \A a \in n..(2 * n - 1) : a % n = a - n
         /\ \A a \in (-n)..(-1) : a % n = a + n
OBVIOUS

(* The same for the ring of cooked bytes. *)
LEMMA RingModulo ==
  /\ CBUF_SZ \in Nat \ {0}
  /\ \A a \in Int : /\ 0 <= a /\ a < CBUF_SZ => a % CBUF_SZ = a
                    /\ CBUF_SZ <= a /\ a < 2 * CBUF_SZ => a % CBUF_SZ = a - CBUF_SZ
                    /\ -CBUF_SZ <= a /\ a < 0 => a % CBUF_SZ = a + CBUF_SZ
<1>1. CBUF_SZ \in Nat \ {0}
  BY ConsoleAssumption
<1>2. /\ \A a \in 0..(CBUF_SZ - 1) : a % CBUF_SZ = a
      /\ \A a \in CBUF_SZ..(2 * CBUF_SZ - 1) : a % CBUF_SZ = a - CBUF_SZ
      /\ \A a \in (-CBUF_SZ)..(-1) : a % CBUF_SZ = a + CBUF_SZ
  BY <1>1, Modulo, Zenon
<1>3. ASSUME NEW a \in Int
      PROVE  /\ 0 <= a /\ a < CBUF_SZ => a \in 0..(CBUF_SZ - 1)
             /\ CBUF_SZ <= a /\ a < 2 * CBUF_SZ => a \in CBUF_SZ..(2 * CBUF_SZ - 1)
             /\ -CBUF_SZ <= a /\ a < 0 => a \in (-CBUF_SZ)..(-1)
  BY <1>1
<1> QED
  BY <1>1, <1>2, <1>3, Zenon

(* How much is in use. *)
LEMMA UsedIs ==
  ASSUME NEW x \in Ring, NEW y \in Ring
  PROVE  /\ Used(x, y) = IF x <= y THEN y - x ELSE y - x + CBUF_SZ
         /\ Used(x, y) \in Ring /\ (Used(x, y) = 0 <=> x = y)
<1>1. y - x \in Int /\ CBUF_SZ \in Nat \ {0}
  BY RingModulo DEF Ring
<1>2. (y - x) % CBUF_SZ = IF x <= y THEN y - x ELSE y - x + CBUF_SZ
  BY <1>1, RingModulo DEF Ring
<1> QED
  BY <1>1, <1>2 DEF Used, Ring

(* Where its bytes are. *)
LEMMA UsedPlaces ==
  ASSUME NEW x \in Ring, NEW y \in Ring
  PROVE  /\ \A k \in Ring : /\ (x + k) % CBUF_SZ \in Ring
                            /\ (x + k) % CBUF_SZ = IF x + k < CBUF_SZ THEN x + k ELSE x + k - CBUF_SZ
         /\ \A k \in 1..Used(x, y) : (x + k - 1) % CBUF_SZ \in Ring
         /\ (x + Used(x, y)) % CBUF_SZ = y
<1>1. CBUF_SZ \in Nat \ {0} /\ x \in Int
  BY RingModulo DEF Ring
<1>2. ASSUME NEW k \in Ring
      PROVE  /\ (x + k) % CBUF_SZ \in Ring
             /\ (x + k) % CBUF_SZ = IF x + k < CBUF_SZ THEN x + k ELSE x + k - CBUF_SZ
  <2>1. x + k \in Int /\ k \in Int /\ 0 <= x + k /\ x + k < 2 * CBUF_SZ
    BY <1>1 DEF Ring
  <2>2. (x + k) % CBUF_SZ = IF x + k < CBUF_SZ THEN x + k ELSE x + k - CBUF_SZ
    BY <2>1, <1>1, RingModulo
  <2> QED
    BY <2>1, <2>2, <1>1 DEF Ring
<1>3. Used(x, y) \in Ring
  BY UsedIs
<1>4. ASSUME NEW k \in 1..Used(x, y) PROVE (x + k - 1) % CBUF_SZ \in Ring
  <2>1. k - 1 \in Ring /\ x + (k - 1) = x + k - 1
    BY <1>1, <1>3 DEF Ring
  <2> QED
    BY <2>1, <1>2
<1>5. (x + Used(x, y)) % CBUF_SZ = y
  <2> DEFINE u == Used(x, y)
  <2>1. u = IF x <= y THEN y - x ELSE y - x + CBUF_SZ
    BY UsedIs
  <2>2. (x + u) % CBUF_SZ = IF x + u < CBUF_SZ THEN x + u ELSE x + u - CBUF_SZ
    BY <1>2, <1>3
  <2> HIDE DEF u
  <2>3. (IF x + u < CBUF_SZ THEN x + u ELSE x + u - CBUF_SZ) = y
    BY <2>1, <1>1 DEF Ring
  <2> QED
    BY <2>2, <2>3 DEF u
<1> QED
  BY <1>2, <1>4, <1>5

(* The bytes in use are a sequence. *)
LEMMA BytesType ==
  ASSUME NEW b \in [Ring -> Byte], NEW x \in Ring, NEW y \in Ring
  PROVE  /\ Bytes(b, x, y) \in Seq(Byte) /\ Len(Bytes(b, x, y)) = Used(x, y)
         /\ \A k \in 1..Used(x, y) : Bytes(b, x, y)[k] = b[(x + k - 1) % CBUF_SZ]
<1>1. Used(x, y) \in Nat
  BY UsedIs, RingModulo DEF Ring
<1>2. \A k \in 1..Used(x, y) : b[(x + k - 1) % CBUF_SZ] \in Byte
  BY UsedPlaces
<1> QED
  BY <1>1, <1>2 DEF Bytes

(* f moves on by n bytes: the others stay as they are. *)
LEMMA BytesRest ==
  ASSUME NEW b \in [Ring -> Byte], NEW x \in Ring, NEW y \in Ring,
         NEW n \in 0..Used(x, y)
  PROVE  /\ (x + n) % CBUF_SZ \in Ring
         /\ Used((x + n) % CBUF_SZ, y) = Used(x, y) - n
         /\ Bytes(b, (x + n) % CBUF_SZ, y) = SubSeq(Bytes(b, x, y), n + 1, Used(x, y))
<1> DEFINE z == (x + n) % CBUF_SZ
           u == Used(x, y)
           v == Used(z, y)
           s == Bytes(b, x, y)
           t == SubSeq(s, n + 1, u)
<1>1. /\ u \in Ring /\ CBUF_SZ \in Nat \ {0} /\ x \in Int /\ y \in Int
      /\ 0 <= x /\ x < CBUF_SZ /\ 0 <= y /\ y < CBUF_SZ
  BY UsedIs, RingModulo DEF Ring
<1>2. n \in Ring /\ n \in Nat /\ n <= u /\ u \in Nat /\ u < CBUF_SZ
  BY <1>1 DEF Ring
<1>3. z \in Ring /\ z = IF x + n < CBUF_SZ THEN x + n ELSE x + n - CBUF_SZ
  BY <1>2, UsedPlaces
<1>4. u = IF x <= y THEN y - x ELSE y - x + CBUF_SZ
  BY UsedIs
<1>5. v = IF z <= y THEN y - z ELSE y - z + CBUF_SZ
  BY <1>3, UsedIs
<1>6. /\ s \in Seq(Byte) /\ Len(s) = u
      /\ \A k \in 1..u : s[k] = b[(x + k - 1) % CBUF_SZ]
  BY BytesType
<1>7. /\ Bytes(b, z, y) \in Seq(Byte) /\ Len(Bytes(b, z, y)) = v
      /\ \A k \in 1..v : Bytes(b, z, y)[k] = b[(z + k - 1) % CBUF_SZ]
  BY <1>3, BytesType
<1> HIDE DEF z, u, v, s
<1>8. v = u - n /\ z \in Int
  BY <1>1, <1>2, <1>3, <1>4, <1>5 DEF Ring
<1>9. t \in Seq(Byte) /\ Len(t) = u - n /\ \A k \in 1..(u - n) : t[k] = s[n + k]
  BY <1>2, <1>6
<1> HIDE DEF t
<1>10. ASSUME NEW k \in 1..v
       PROVE  Bytes(b, z, y)[k] = t[k]
  <2>1. k \in Int /\ 1 <= k /\ n + k <= u
    BY <1>2, <1>8
  <2>2. k - 1 \in Ring /\ n + k - 1 \in Ring
    BY <2>1, <1>1, <1>2 DEF Ring
  <2>3. t[k] = b[(x + (n + k) - 1) % CBUF_SZ]
    BY <2>1, <1>2, <1>6, <1>9, SMTT(60)
  <2>4. (z + (k - 1)) % CBUF_SZ = IF z + (k - 1) < CBUF_SZ THEN z + (k - 1) ELSE z + (k - 1) - CBUF_SZ
    BY <2>2, <1>3, UsedPlaces
  <2>5. (x + (n + k - 1)) % CBUF_SZ
          = IF x + (n + k - 1) < CBUF_SZ THEN x + (n + k - 1) ELSE x + (n + k - 1) - CBUF_SZ
    BY <2>2, UsedPlaces
  <2>6. z + (k - 1) = z + k - 1 /\ x + (n + k - 1) = x + (n + k) - 1
    BY <2>1, <1>1, <1>2, <1>8
  <2>7. (IF z + (k - 1) < CBUF_SZ THEN z + (k - 1) ELSE z + (k - 1) - CBUF_SZ)
          = IF x + (n + k - 1) < CBUF_SZ THEN x + (n + k - 1) ELSE x + (n + k - 1) - CBUF_SZ
    BY <2>1, <1>1, <1>2, <1>3 DEF Ring
  <2> QED
    BY <2>3, <2>4, <2>5, <2>6, <2>7, <1>7
<1>11. Bytes(b, z, y) = t
  BY <1>7, <1>8, <1>9, <1>10, SeqEqual
<1> QED
  BY <1>3, <1>8, <1>11 DEF z, u, v, s, t
-----------------------------------------------------------------------------
(* The line. *)

(* The loops over lbuf find the one end of the line. *)
LEMMA EndUnique ==
  ASSUME NEW buf, NEW n \in 0..LBUF_SZ, EndsAt(buf, n), NEW k \in 0..n
  PROVE  (CHOOSE m \in k..LBUF_SZ : buf[m] = NUL /\ \A j \in k..(m - 1) : buf[j] # NUL) = n
<1>1. LBUF_SZ \in Nat
  BY ConsoleAssumption
<1>2. n \in k..LBUF_SZ /\ buf[n] = NUL /\ \A j \in k..(n - 1) : buf[j] # NUL
  BY <1>1 DEF EndsAt
<1>3. ASSUME NEW m \in k..LBUF_SZ, buf[m] = NUL, \A j \in k..(m - 1) : buf[j] # NUL
      PROVE  m = n
  BY <1>1, <1>2, <1>3
<1> QED
  BY <1>2, <1>3

(* EndFrom() from any place up to the end. *)
LEMMA EndFromIs ==
  ASSUME NEW n \in 0..LBUF_SZ, EndsAt(lbuf, n), NEW k \in 0..n
  PROVE  EndFrom(k) = n
BY EndUnique DEF EndFrom

(* The same for the line as a step leaves it. *)
LEMMA EndFromNext ==
  ASSUME NEW n \in 0..LBUF_SZ, EndsAt(lbuf', n), i' \in 0..n
  PROVE  EndFrom(i)' = n
BY EndUnique DEF EndFrom

(* The two parts of a line are sequences. *)
LEMMA PartTypes ==
  ASSUME NEW buf \in [0..LBUF_SZ -> Byte], NEW n \in 0..LBUF_SZ, NEW c \in 0..n
  PROVE  /\ Before(buf, c) \in Seq(Byte) /\ Len(Before(buf, c)) = c
         /\ \A k \in 1..c : Before(buf, c)[k] = buf[k - 1]
         /\ After(buf, c, n) \in Seq(Byte) /\ Len(After(buf, c, n)) = n - c
         /\ \A k \in 1..(n - c) : After(buf, c, n)[k] = buf[c + k - 1]
<1>1. LBUF_SZ \in Nat
  BY ConsoleAssumption
<1>2. /\ c \in Nat /\ \A k \in 1..c : buf[k - 1] \in Byte
      /\ n - c \in Nat /\ \A k \in 1..(n - c) : buf[c + k - 1] \in Byte
  BY <1>1
<1> QED
  BY <1>2 DEF Before, After

(* Moving the cursor does not change the line. *)
LEMMA Joined ==
  ASSUME NEW buf \in [0..LBUF_SZ -> Byte], NEW n \in 0..LBUF_SZ, NEW c \in 0..n
  PROVE  Before(buf, c) \o After(buf, c, n) = Before(buf, n)
<1> DEFINE b == Before(buf, c)
           a == After(buf, c, n)
           w == Before(buf, n)
<1>1. LBUF_SZ \in Nat /\ n \in 0..n
  BY ConsoleAssumption
<1>2. /\ b \in Seq(Byte) /\ Len(b) = c /\ \A k \in 1..c : b[k] = buf[k - 1]
      /\ a \in Seq(Byte) /\ Len(a) = n - c /\ \A k \in 1..(n - c) : a[k] = buf[c + k - 1]
  BY PartTypes
<1>3. w \in Seq(Byte) /\ Len(w) = n /\ \A k \in 1..n : w[k] = buf[k - 1]
  BY <1>1, PartTypes
<1> HIDE DEF b, a, w
<1>4. /\ b \o a \in Seq(Byte) /\ Len(b \o a) = n
      /\ \A k \in 1..n : (b \o a)[k] = IF k <= c THEN b[k] ELSE a[k - c]
  BY <1>1, <1>2, ConcatProperties
<1>5. \A k \in 1..n : (b \o a)[k] = w[k]
  BY <1>1, <1>2, <1>3, <1>4
<1>6. b \o a = w
  BY <1>3, <1>4, <1>5, SeqEqual
<1> QED
  BY <1>6 DEF b, a, w

\* The line buffers that ShiftUp() and RemoveAtPlace() make of buf.
Typed(buf, c, n, ch) ==
  [k \in 0..LBUF_SZ |-> IF k = c THEN ch ELSE IF k \in (c + 1)..(n + 1) THEN buf[k - 1] ELSE buf[k]]
Removed(buf, c, n) ==
  [k \in 0..LBUF_SZ |-> IF k >= c /\ k < n THEN buf[k + 1] ELSE buf[k]]

(* consl_accept(): ch at the cursor, the rest one place up. *)
LEMMA TypeEdits ==
  ASSUME NEW buf \in [0..LBUF_SZ -> Byte], NEW n \in 0..(LBUF_SZ - 2), NEW c \in 0..n, EndsAt(buf, n),
         NEW ch \in Chars, NEW new,
         new = Typed(buf, c, n, ch)
  PROVE  /\ new \in [0..LBUF_SZ -> Byte] /\ EndsAt(new, n + 1)
         /\ Before(new, c + 1) = Append(Before(buf, c), ch)
         /\ After(new, c + 1, n + 1) = After(buf, c, n)
<1>1. LBUF_SZ \in Nat /\ NUL \notin Chars /\ ch \in Byte /\ ch # NUL
  BY ConsoleAssumption DEF Byte
<1>2. new \in [0..LBUF_SZ -> Byte]
  BY <1>1 DEF Typed
<1>3. EndsAt(new, n + 1)
  BY <1>1 DEF EndsAt, Typed
<1>4. n \in 0..LBUF_SZ /\ n + 1 \in 0..LBUF_SZ /\ c + 1 \in 0..(n + 1)
  BY <1>1
<1>5. /\ Before(buf, c) \in Seq(Byte) /\ Len(Before(buf, c)) = c
      /\ \A k \in 1..c : Before(buf, c)[k] = buf[k - 1]
      /\ After(buf, c, n) \in Seq(Byte) /\ Len(After(buf, c, n)) = n - c
      /\ \A k \in 1..(n - c) : After(buf, c, n)[k] = buf[c + k - 1]
  BY <1>4, PartTypes
<1>6. /\ Before(new, c + 1) \in Seq(Byte) /\ Len(Before(new, c + 1)) = c + 1
      /\ \A k \in 1..(c + 1) : Before(new, c + 1)[k] = new[k - 1]
      /\ After(new, c + 1, n + 1) \in Seq(Byte) /\ Len(After(new, c + 1, n + 1)) = n + 1 - (c + 1)
      /\ \A k \in 1..(n + 1 - (c + 1)) : After(new, c + 1, n + 1)[k] = new[c + 1 + k - 1]
  <2>1. \A m \in 0..LBUF_SZ : \A d \in 0..m :
          /\ Before(new, d) \in Seq(Byte) /\ Len(Before(new, d)) = d
          /\ \A k \in 1..d : Before(new, d)[k] = new[k - 1]
          /\ After(new, d, m) \in Seq(Byte) /\ Len(After(new, d, m)) = m - d
          /\ \A k \in 1..(m - d) : After(new, d, m)[k] = new[d + k - 1]
    BY <1>2, PartTypes
  <2>2. PICK m \in 0..LBUF_SZ : m = n + 1
    BY <1>4
  <2>3. PICK d \in 0..m : d = c + 1
    BY <1>4, <2>2
  <2>4. /\ Before(new, d) \in Seq(Byte) /\ Len(Before(new, d)) = d
        /\ \A k \in 1..d : Before(new, d)[k] = new[k - 1]
        /\ After(new, d, m) \in Seq(Byte) /\ Len(After(new, d, m)) = m - d
        /\ \A k \in 1..(m - d) : After(new, d, m)[k] = new[d + k - 1]
    BY ONLY <2>1, Zenon
  <2>5. Before(new, d) = Before(new, c + 1) /\ After(new, d, m) = After(new, c + 1, n + 1)
    BY ONLY <2>2, <2>3
  <2> QED
    BY ONLY <2>2, <2>3, <2>4, <2>5
<1>7. /\ Append(Before(buf, c), ch) \in Seq(Byte) /\ Len(Append(Before(buf, c), ch)) = c + 1
      /\ \A k \in 1..c : Append(Before(buf, c), ch)[k] = buf[k - 1]
      /\ Append(Before(buf, c), ch)[c + 1] = ch
  BY <1>1, <1>5, AppendProperties
<1>8. /\ \A k \in 1..c : new[k - 1] = buf[k - 1]
      /\ new[c] = ch /\ \A k \in 1..(n - c) : new[c + k] = buf[c + k - 1]
  BY <1>1 DEF Typed
<1>9. Before(new, c + 1) = Append(Before(buf, c), ch)
  <2> DEFINE x == Before(new, c + 1)
             y == Append(Before(buf, c), ch)
  <2>1. x \in Seq(Byte) /\ y \in Seq(Byte) /\ Len(x) = Len(y) /\ Len(x) = c + 1
    BY <1>6, <1>7
  <2>2. ASSUME NEW k \in 1..(c + 1) PROVE x[k] = y[k]
    <3>1. CASE k \in 1..c
      BY <3>1, <1>6, <1>7, <1>8
    <3>2. CASE k = c + 1
      BY <3>2, <1>6, <1>7, <1>8
    <3>3. k \in 1..c \/ k = c + 1
      BY <1>1, <1>4
    <3> QED
      BY <3>1, <3>2, <3>3
  <2> HIDE DEF x, y
  <2>3. x = y
    BY <2>1, <2>2, SeqEqual
  <2> QED
    BY <2>3 DEF x, y
<1>10. After(new, c + 1, n + 1) = After(buf, c, n)
  <2> DEFINE x == After(new, c + 1, n + 1)
             y == After(buf, c, n)
  <2>1. n + 1 - (c + 1) = n - c /\ \A k \in 1..(n - c) : c + 1 + k - 1 = c + k
    BY <1>1, <1>4
  <2>2. x \in Seq(Byte) /\ Len(x) = n - c /\ \A k \in 1..(n - c) : x[k] = new[c + k]
    BY <2>1, <1>6
  <2>3. y \in Seq(Byte) /\ Len(y) = n - c /\ \A k \in 1..(n - c) : y[k] = buf[c + k - 1]
    BY <1>5
  <2> HIDE DEF x, y
  <2>4. \A k \in 1..(n - c) : x[k] = y[k]
    BY <2>2, <2>3, <1>8, Zenon
  <2>5. x = y
    BY <2>2, <2>3, <2>4, SeqEqual
  <2> QED
    BY <2>5 DEF x, y
<1> QED
  BY <1>2, <1>3, <1>9, <1>10

(* removec(): the byte at place c goes, what is behind it moves down. *)
LEMMA RemoveEdits ==
  ASSUME NEW buf \in [0..LBUF_SZ -> Byte], NEW n \in 1..LBUF_SZ, NEW c \in 0..(n - 1), EndsAt(buf, n),
         NEW new,
         new = Removed(buf, c, n)
  PROVE  /\ new \in [0..LBUF_SZ -> Byte] /\ EndsAt(new, n - 1)
         /\ Before(new, c) = Before(buf, c) /\ Before(new, c) = Front(Before(buf, c + 1))
         /\ After(new, c, n - 1) = After(buf, c + 1, n)
         /\ After(new, c, n - 1) = Tail(After(buf, c, n))
         /\ After(buf, c, n) # <<>> /\ Before(buf, c + 1) # <<>>
<1>1. LBUF_SZ \in Nat /\ n \in 0..LBUF_SZ /\ n - 1 \in 0..LBUF_SZ /\ c \in 0..n /\ c + 1 \in 0..n
  BY ConsoleAssumption
<1>2. new \in [0..LBUF_SZ -> Byte]
  BY <1>1 DEF Removed
<1>3. EndsAt(new, n - 1)
  BY <1>1 DEF EndsAt, Removed
<1>4. /\ \A k \in 1..c : new[k - 1] = buf[k - 1]
      /\ \A k \in 1..(n - 1 - c) : new[c + k - 1] = buf[c + k]
  BY <1>1 DEF Removed
<1>5. /\ Before(buf, c) \in Seq(Byte) /\ Len(Before(buf, c)) = c
      /\ \A k \in 1..c : Before(buf, c)[k] = buf[k - 1]
      /\ After(buf, c, n) \in Seq(Byte) /\ Len(After(buf, c, n)) = n - c
      /\ \A k \in 1..(n - c) : After(buf, c, n)[k] = buf[c + k - 1]
  BY <1>1, PartTypes
<1>6. /\ Before(buf, c + 1) \in Seq(Byte) /\ Len(Before(buf, c + 1)) = c + 1
      /\ \A k \in 1..(c + 1) : Before(buf, c + 1)[k] = buf[k - 1]
      /\ After(buf, c + 1, n) \in Seq(Byte) /\ Len(After(buf, c + 1, n)) = n - (c + 1)
      /\ \A k \in 1..(n - (c + 1)) : After(buf, c + 1, n)[k] = buf[c + 1 + k - 1]
  BY <1>1, PartTypes
<1>7. /\ Before(new, c) \in Seq(Byte) /\ Len(Before(new, c)) = c
      /\ \A k \in 1..c : Before(new, c)[k] = new[k - 1]
      /\ After(new, c, n - 1) \in Seq(Byte) /\ Len(After(new, c, n - 1)) = n - 1 - c
      /\ \A k \in 1..(n - 1 - c) : After(new, c, n - 1)[k] = new[c + k - 1]
  BY <1>1, <1>2, PartTypes
<1>8. Before(new, c) = Before(buf, c)
  BY <1>4 DEF Before
<1>9. Before(new, c) = Front(Before(buf, c + 1))
  <2> DEFINE x == Before(new, c)
             y == Front(Before(buf, c + 1))
  <2>1. y \in Seq(Byte) /\ Len(y) = c /\ \A k \in 1..c : y[k] = Before(buf, c + 1)[k]
    BY <1>1, <1>6 DEF Front
  <2>2. x \in Seq(Byte) /\ Len(x) = Len(y) /\ \A k \in 1..c : x[k] = buf[k - 1]
    BY <2>1, <1>4, <1>7
  <2> HIDE DEF x, y
  <2>3. \A k \in 1..c : y[k] = buf[k - 1]
    <3>1. \A k \in 1..c : k \in 1..(c + 1)
      BY <1>1
    <3> QED
      BY <2>1, <3>1, <1>6, Zenon
  <2>4. x = y
    BY <2>1, <2>2, <2>3, SeqEqual
  <2> QED
    BY <2>4 DEF x, y
<1>10. After(new, c, n - 1) = After(buf, c + 1, n)
  <2>1. n - 1 - c = n - (c + 1) /\ \A k \in 1..(n - 1 - c) : c + 1 + k - 1 = c + k
    BY <1>1
  <2> QED
    BY <2>1, <1>4 DEF After
<1>11. After(new, c, n - 1) = Tail(After(buf, c, n))
  <2> DEFINE a == After(buf, c, n)
             x == After(new, c, n - 1)
             y == Tail(a)
  <2>1. n - c \in Nat \ {0} /\ n - 1 - c = n - c - 1
    BY <1>1
  <2>2. a \in Seq(Byte) /\ Len(a) = n - c /\ \A k \in 1..(n - c) : a[k] = buf[c + k - 1]
    BY <1>5
  <2>3. x \in Seq(Byte) /\ Len(x) = n - c - 1 /\ \A k \in 1..(n - c - 1) : x[k] = buf[c + k]
    BY <2>1, <1>4, <1>7
  <2> HIDE DEF a, x
  <2>4. a # <<>> /\ y \in Seq(Byte) /\ Len(y) = n - c - 1 /\ \A k \in 1..(n - c - 1) : y[k] = a[k + 1]
    BY <2>1, <2>2
  <2>5. \A k \in 1..(n - c - 1) : k + 1 \in 1..(n - c) /\ c + (k + 1) - 1 = c + k
    BY <1>1
  <2> HIDE DEF y
  <2>6. ASSUME NEW k \in 1..(n - c - 1) PROVE x[k] = y[k]
    BY <2>2, <2>3, <2>4, <2>5
  <2>7. x = y
    BY <2>3, <2>4, <2>6, SeqEqual
  <2> QED
    BY <2>7 DEF x, y, a
<1>12. After(buf, c, n) # <<>> /\ Before(buf, c + 1) # <<>>
  BY <1>1, <1>5, <1>6
<1> QED
  BY <1>2, <1>3, <1>8, <1>9, <1>10, <1>11, <1>12
-----------------------------------------------------------------------------
(* Reading. *)

\* What get_cooked() does with bytes s: it stops at the first NUL, or at count.
StopsAt(s, count, n) ==
  /\ n <= count /\ \A k \in 1..n : s[k] # NUL
  /\ n = count \/ s[n + 1] = NUL

(* In bytes that end with a NUL there is one place to stop, before the end. *)
LEMMA OneStop ==
  ASSUME NEW s \in Seq(Byte), s # <<>>, s[Len(s)] = NUL, NEW count \in Nat
  PROVE  \E n \in 0..(Len(s) - 1) :
           StopsAt(s, count, n) /\ \A m \in 0..Len(s) : StopsAt(s, count, m) => m = n
<1>1. Len(s) \in Nat /\ Len(s) > 0
  OBVIOUS
<1> DEFINE T == {k \in 1..Len(s) : s[k] = NUL}
<1>2. T \in SUBSET Nat /\ Len(s) \in T
  BY <1>1
<1>3. PICK e \in T : \A k \in T : e <= k
  BY <1>2, LeastElement
<1>4. e \in 1..Len(s) /\ s[e] = NUL /\ \A k \in 1..(e - 1) : s[k] # NUL
  BY <1>1, <1>3
<1> HIDE DEF T
<1>5. ASSUME NEW n \in 0..Len(s), NEW m \in 0..Len(s), StopsAt(s, count, n), StopsAt(s, count, m), n < m
      PROVE  FALSE
  <2>1. n + 1 \in 1..m /\ n # count
    BY <1>1, <1>5 DEF StopsAt
  <2> QED
    BY <2>1, <1>5 DEF StopsAt
<1>6. \A n, m \in 0..Len(s) : StopsAt(s, count, n) /\ StopsAt(s, count, m) => m = n
  BY <1>1, <1>5
<1>7. CASE e - 1 <= count
  <2>1. StopsAt(s, count, e - 1) /\ e - 1 \in 0..(Len(s) - 1) /\ e - 1 \in 0..Len(s)
    BY <1>1, <1>4, <1>7 DEF StopsAt
  <2> QED
    BY <2>1, <1>6, Zenon
<1>8. CASE count < e - 1
  <2>1. StopsAt(s, count, count) /\ count \in 0..(Len(s) - 1) /\ count \in 0..Len(s)
    BY <1>1, <1>4, <1>8 DEF StopsAt
  <2> QED
    BY <2>1, <1>6, Zenon
<1> QED
  BY <1>4, <1>7, <1>8

(* The last byte in use is one before the end of the ring's part in use. *)
LEMMA LastPlace ==
  ASSUME NEW x \in Ring, NEW y \in Ring, x # y
  PROVE  (x + Used(x, y) - 1) % CBUF_SZ = (y - 1) % CBUF_SZ
<1> DEFINE u == Used(x, y)
<1>1. u \in Ring /\ u # 0 /\ u = IF x <= y THEN y - x ELSE y - x + CBUF_SZ
  BY UsedIs, Zenon
<1> HIDE DEF u
<1>2. /\ CBUF_SZ \in Nat \ {0} /\ x \in Nat /\ x < CBUF_SZ /\ y \in Nat /\ y < CBUF_SZ
      /\ u \in Nat /\ u < CBUF_SZ
  BY <1>1, RingModulo DEF Ring
<1>3. u - 1 \in Ring /\ x + (u - 1) = x + u - 1
  BY <1>1, <1>2 DEF Ring
<1>4. (x + (u - 1)) % CBUF_SZ = IF x + (u - 1) < CBUF_SZ THEN x + (u - 1) ELSE x + (u - 1) - CBUF_SZ
  BY <1>3, UsedPlaces
<1>5. (y - 1) % CBUF_SZ = IF y = 0 THEN y - 1 + CBUF_SZ ELSE y - 1
  <2>1. y - 1 \in Int /\ (y = 0 => -CBUF_SZ <= y - 1 /\ y - 1 < 0) /\ (y # 0 => 0 <= y - 1 /\ y - 1 < CBUF_SZ)
    BY <1>2
  <2> QED
    BY <2>1, RingModulo
<1>6. (IF x + (u - 1) < CBUF_SZ THEN x + (u - 1) ELSE x + (u - 1) - CBUF_SZ)
        = IF y = 0 THEN y - 1 + CBUF_SZ ELSE y - 1
  BY <1>1, <1>2
<1> QED
  BY <1>3, <1>4, <1>5, <1>6 DEF u

(* get_cooked() stops where the abstract read stops. *)
LEMMA GetsIs ==
  ASSUME NEW b \in [Ring -> Byte], NEW y \in Ring, f \in Ring, f # y, b[(y - 1) % CBUF_SZ] = NUL,
         NEW count \in Nat
  PROVE  \E n \in 0..(Used(f, y) - 1) :
           /\ StopsAt(Bytes(b, f, y), count, n)
           /\ GetsFrom(b, y, count) = n /\ Editor!Gets(Bytes(b, f, y), count) = n
<1> DEFINE s == Bytes(b, f, y)
           u == Used(f, y)
<1>1. /\ s \in Seq(Byte) /\ Len(s) = u
      /\ \A k \in 1..u : s[k] = b[(f + k - 1) % CBUF_SZ]
  BY BytesType
<1>2. u \in Ring /\ u # 0 /\ u \in Nat /\ CBUF_SZ \in Nat \ {0} /\ f \in Int /\ y \in Int
  <2>1. u \in Ring /\ u # 0
    BY UsedIs, Zenon
  <2> HIDE DEF u
  <2> QED
    BY <2>1, RingModulo DEF Ring
<1>3. (f + u - 1) % CBUF_SZ = (y - 1) % CBUF_SZ
  BY LastPlace
<1>4. s # <<>> /\ s[Len(s)] = NUL
  <2>1. u \in 1..u
    BY <1>2
  <2> QED
    BY <2>1, <1>1, <1>2, <1>3
<1>5. PICK n \in 0..(u - 1) : StopsAt(s, count, n) /\ \A m \in 0..u : StopsAt(s, count, m) => m = n
  BY <1>1, <1>4, OneStop
<1>6. ASSUME NEW m \in 0..u
      PROVE  StopsAt(s, count, m) <=> /\ m <= count
                                      /\ \A k \in 0..(m - 1) : b[(f + k) % CBUF_SZ] # NUL
                                      /\ m = count \/ b[(f + m) % CBUF_SZ] = NUL
  <2>1. \A k \in 0..(u - 1) : s[k + 1] = b[(f + k) % CBUF_SZ]
    <3> SUFFICES ASSUME NEW k \in 0..(u - 1) PROVE s[k + 1] = b[(f + k) % CBUF_SZ]
      OBVIOUS
    <3>1. k + 1 \in 1..u /\ f + (k + 1) - 1 = f + k
      BY <1>2
    <3> QED
      BY <3>1, <1>1
  <2>2. u - 1 \in 0..(u - 1) /\ s[u - 1 + 1] = NUL /\ u - 1 + 1 = u
    BY <1>1, <1>2, <1>4
  <2> HIDE DEF s, u
  <2>3. CASE m = u
    <3>1. ~StopsAt(s, count, m)
      BY <2>2, <2>3, <1>2 DEF StopsAt
    <3>2. u - 1 \in 0..(m - 1) /\ b[(f + (u - 1)) % CBUF_SZ] = NUL
      BY <2>1, <2>2, <2>3
    <3> QED
      BY <3>1, <3>2, Zenon
  <2>4. CASE m < u
    <3>1. m \in 0..(u - 1) /\ \A k \in 0..(m - 1) : k \in 0..(u - 1) /\ k + 1 \in 1..m
      BY <2>4, <1>2
    <3>2. (\A k \in 1..m : s[k] # NUL) <=> \A k \in 0..(m - 1) : b[(f + k) % CBUF_SZ] # NUL
      <4>1. ASSUME \A k \in 1..m : s[k] # NUL
            PROVE  \A k \in 0..(m - 1) : b[(f + k) % CBUF_SZ] # NUL
        BY <4>1, <3>1, <2>1, Zenon
      <4>2. ASSUME \A k \in 0..(m - 1) : b[(f + k) % CBUF_SZ] # NUL, NEW k \in 1..m
            PROVE  s[k] # NUL
        <5>1. k - 1 \in 0..(m - 1) /\ k - 1 + 1 = k
          BY <1>2
        <5> QED
          BY <5>1, <4>2, <3>1, <2>1
      <4> QED
        BY <4>1, <4>2, Zenon
    <3>3. s[m + 1] = b[(f + m) % CBUF_SZ]
      BY <3>1, <2>1
    <3> QED
      BY <3>2, <3>3, Zenon DEF StopsAt
  <2> QED
    BY <2>3, <2>4, <1>2
<1>7. n \in 0..u
  BY <1>2
<1>8. GetsFrom(b, y, count) = n
  BY <1>5, <1>6, <1>7 DEF GetsFrom
<1>9. Editor!Gets(s, count) = n
  BY <1>1, <1>5, <1>7 DEF Editor!Gets, StopsAt
<1> QED
  BY <1>5, <1>8, <1>9

(* What get_cooked() gives and leaves. *)
LEMMA Served ==
  ASSUME NEW b \in [Ring -> Byte], NEW y \in Ring, f \in Ring, f # y, b[(y - 1) % CBUF_SZ] = NUL,
         NEW count \in Nat, GetCooked(b, y, count)
  PROVE  \E s, n : /\ s = Bytes(b, f, y) /\ n = Editor!Gets(s, count)
                   /\ f' \in Ring /\ answer' = SubSeq(s, 1, n)
                   /\ Bytes(b, f', y) = SubSeq(s, IF n < count THEN n + 2 ELSE n + 1, Len(s))
<1> DEFINE u == Used(f, y)
<1>0a. PICK s : s = Bytes(b, f, y)
  OBVIOUS
<1>0b. PICK n : n = Editor!Gets(s, count)
  OBVIOUS
<1>1. n \in 0..(u - 1) /\ StopsAt(s, count, n) /\ GetsFrom(b, y, count) = n
  BY GetsIs, <1>0a, <1>0b
<1>2. /\ s \in Seq(Byte) /\ Len(s) = u
      /\ \A k \in 1..u : s[k] = b[(f + k - 1) % CBUF_SZ]
  BY BytesType, <1>0a
<1>3. u \in Ring
  BY UsedIs, Zenon
<1>4. /\ answer' = [k \in 1..n |-> b[(f + k - 1) % CBUF_SZ]]
      /\ f' = (f + (IF n < count THEN n + 1 ELSE n)) % CBUF_SZ
  BY <1>1 DEF GetCooked
<1> HIDE DEF u
<1>5. u \in Nat /\ n \in Nat /\ n <= u /\ n \in 0..u /\ n + 1 \in 0..u /\ (n < count) \in BOOLEAN
  BY <1>1, <1>3, RingModulo DEF Ring
<1>6. answer' = SubSeq(s, 1, n)
  <2> DEFINE x == [k \in 1..n |-> b[(f + k - 1) % CBUF_SZ]]
             z == SubSeq(s, 1, n)
  <2>1. z \in Seq(Byte) /\ Len(z) = n /\ \A k \in 1..n : z[k] = s[k]
    BY <1>2, <1>5
  <2>2. \A k \in 1..n : k \in 1..u
    BY <1>5
  <2>3. \A k \in 1..n : b[(f + k - 1) % CBUF_SZ] = s[k] /\ s[k] \in Byte
    BY <2>2, <1>2
  <2>4. x \in Seq(Byte) /\ Len(x) = n /\ \A k \in 1..n : x[k] = s[k]
    BY <2>3, <1>5
  <2> HIDE DEF x, z
  <2>5. x = z
    BY <2>1, <2>4, SeqEqual
  <2> QED
    BY <2>5, <1>4 DEF x, z
<1>7. PICK m \in 0..u : m = IF n < count THEN n + 1 ELSE n
  BY <1>5
<1>8. f' = (f + m) % CBUF_SZ
  BY <1>4, <1>7
<1>9. f' \in Ring /\ Bytes(b, f', y) = SubSeq(s, m + 1, u)
  BY <1>0a, <1>8, BytesRest DEF u
<1>10. m + 1 = IF n < count THEN n + 2 ELSE n + 1
  BY <1>5, <1>7
<1> QED
  BY <1>0a, <1>0b, <1>2, <1>6, <1>9, <1>10
-----------------------------------------------------------------------------
(* Cooking. *)

(* How far the places behind x are from y. *)
LEMMA Distance ==
  ASSUME NEW x \in Ring, NEW y \in Ring, NEW k \in Ring
  PROVE  (((x + k) % CBUF_SZ) - y) % CBUF_SZ
           = IF k < Used(x, y) THEN CBUF_SZ - Used(x, y) + k ELSE k - Used(x, y)
<1> DEFINE p == (x + k) % CBUF_SZ
           u == Used(x, y)
<1>1. p \in Ring /\ p = IF x + k < CBUF_SZ THEN x + k ELSE x + k - CBUF_SZ
  BY UsedPlaces
<1>2. u = IF x <= y THEN y - x ELSE y - x + CBUF_SZ
  BY UsedIs
<1> HIDE DEF p, u
<1>3. (p - y) % CBUF_SZ = IF y <= p THEN p - y ELSE p - y + CBUF_SZ
  BY <1>1, UsedIs, Zenon DEF Used
<1>4. CBUF_SZ \in Nat /\ x \in Nat /\ y \in Nat /\ k \in Nat /\ x < CBUF_SZ /\ y < CBUF_SZ /\ k < CBUF_SZ
  BY RingModulo DEF Ring
<1>5. (IF y <= p THEN p - y ELSE p - y + CBUF_SZ) = IF k < u THEN CBUF_SZ - u + k ELSE k - u
  BY <1>1, <1>2, <1>4
<1> QED
  BY <1>3, <1>5 DEF p, u

(* What a concatenation holds. *)
LEMMA ConcatParts ==
  ASSUME NEW s \in Seq(Byte), NEW t \in Seq(Byte)
  PROVE  /\ s \o t \in Seq(Byte) /\ Len(s \o t) = Len(s) + Len(t)
         /\ \A k \in 1..Len(s) : (s \o t)[k] = s[k]
         /\ \A k \in 1..Len(t) : (s \o t)[Len(s) + k] = t[k]
<1>1. /\ s \o t \in Seq(Byte) /\ Len(s \o t) = Len(s) + Len(t)
      /\ \A k \in 1..(Len(s) + Len(t)) : (s \o t)[k] = IF k <= Len(s) THEN s[k] ELSE t[k - Len(s)]
  BY ConcatProperties
<1>2. ASSUME NEW k \in 1..Len(s) PROVE (s \o t)[k] = s[k]
  BY <1>1
<1>3. ASSUME NEW k \in 1..Len(t) PROVE (s \o t)[Len(s) + k] = t[k]
  <2>1. Len(s) + k \in 1..(Len(s) + Len(t)) /\ ~(Len(s) + k <= Len(s)) /\ Len(s) + k - Len(s) = k
    OBVIOUS
  <2> QED
    BY <2>1, <1>1
<1> QED
  BY <1>1, <1>2, <1>3

\* The ring that Cooked() makes of ring old, and where it then ends.
Added(old, y, buf, e) ==
  [k \in Ring |-> IF (k - y) % CBUF_SZ < e + 1 THEN buf[(k - y) % CBUF_SZ] ELSE old[k]]
Behind(y, e) == (y + (e + 1)) % CBUF_SZ

(* cook(): the ring with a line of n bytes, NUL included, behind what it holds. *)
LEMMA CookAdds ==
  ASSUME NEW old \in [Ring -> Byte], NEW x \in Ring, NEW y \in Ring,
         NEW buf \in [0..LBUF_SZ -> Byte], NEW e \in 0..LBUF_SZ, EndsAt(buf, e),
         Used(x, y) + e + 1 < CBUF_SZ
  PROVE  /\ Added(old, y, buf, e) \in [Ring -> Byte] /\ Behind(y, e) \in Ring /\ x # Behind(y, e)
         /\ Added(old, y, buf, e)[(Behind(y, e) - 1) % CBUF_SZ] = NUL
         /\ Bytes(Added(old, y, buf, e), x, Behind(y, e)) = Bytes(old, x, y) \o Before(buf, e) \o <<NUL>>
<1>0a. PICK b : b = Added(old, y, buf, e)
  OBVIOUS
<1>0b. PICK z : z = Behind(y, e)
  OBVIOUS
<1> DEFINE u == Used(x, y)
           v == Used(x, z)
           n == e + 1
           s == Bytes(old, x, y)
           t == Bytes(b, x, z)
           w == Before(buf, e)
<1>1. /\ CBUF_SZ \in Nat \ {0} /\ LBUF_SZ \in Nat /\ e \in Nat /\ e <= LBUF_SZ
      /\ x \in Nat /\ x < CBUF_SZ /\ y \in Nat /\ y < CBUF_SZ
  BY ConsoleAssumption DEF Ring
<1>2. u \in Ring /\ u = IF x <= y THEN y - x ELSE y - x + CBUF_SZ
  BY UsedIs
<1>3. \A k \in Ring : (k - y) % CBUF_SZ \in Ring
  BY UsedIs, Zenon DEF Used
<1>4. b \in [Ring -> Byte]
  <2>1. ASSUME NEW k \in Ring
        PROVE  (IF (k - y) % CBUF_SZ < e + 1 THEN buf[(k - y) % CBUF_SZ] ELSE old[k]) \in Byte
    <3>1. PICK d \in Ring : d = (k - y) % CBUF_SZ
      BY <1>3
    <3>2. d < e + 1 => d \in 0..LBUF_SZ
      BY <1>1 DEF Ring
    <3>3. (IF d < e + 1 THEN buf[d] ELSE old[k]) \in Byte
      BY <3>2
    <3> QED
      BY <3>1, <3>3
  <2> QED
    BY <2>1, <1>0a DEF Added
<1> HIDE DEF u
<1>5. u \in Nat /\ u + n < CBUF_SZ /\ n \in Ring /\ u + n \in Ring /\ n > 0
  BY <1>1, <1>2 DEF Ring, u
<1>6. z \in Ring /\ z = IF y + n < CBUF_SZ THEN y + n ELSE y + n - CBUF_SZ
  BY <1>0b, <1>5, UsedPlaces DEF Behind
<1>7. v = IF x <= z THEN z - x ELSE z - x + CBUF_SZ
  BY <1>6, UsedIs
<1> HIDE DEF v
<1>8. v = u + n /\ v # 0
  BY <1>1, <1>2, <1>5, <1>6, <1>7 DEF Ring
<1>9. x # z
  BY <1>6, <1>8, UsedIs DEF v
<1>10. /\ s \in Seq(Byte) /\ Len(s) = u
       /\ \A k \in 1..u : s[k] = old[(x + k - 1) % CBUF_SZ]
  BY BytesType DEF u
<1>11. /\ t \in Seq(Byte) /\ Len(t) = u + n
       /\ \A k \in 1..(u + n) : t[k] = b[(x + k - 1) % CBUF_SZ]
  <2>1. /\ t \in Seq(Byte) /\ Len(t) = v
        /\ \A k \in 1..v : t[k] = b[(x + k - 1) % CBUF_SZ]
    BY <1>4, <1>6, BytesType, Zenon DEF v
  <2> HIDE DEF t
  <2> QED
    BY <2>1, <1>8
<1>12. w \in Seq(Byte) /\ Len(w) = e /\ \A k \in 1..e : w[k] = buf[k - 1]
  <2>1. e \in 0..e
    BY <1>1
  <2> QED
    BY <2>1, PartTypes
<1> HIDE DEF s, t, w
<1>13. ASSUME NEW k \in 1..u PROVE t[k] = s[k]
  <2>1. k - 1 \in Ring /\ k - 1 < u /\ x + (k - 1) = x + k - 1 /\ k \in 1..(u + n) /\ k \in Nat
    BY <1>1, <1>5 DEF Ring
  <2>2. PICK p \in Ring : p = (x + k - 1) % CBUF_SZ
    BY <2>1, UsedPlaces
  <2>3. (p - y) % CBUF_SZ = CBUF_SZ - u + (k - 1)
    BY <2>1, <2>2, Distance DEF u
  <2>4. ~(CBUF_SZ - u + (k - 1) < e + 1)
    BY <2>1, <1>1, <1>5
  <2>5. b[p] = old[p]
    BY <2>3, <2>4, <1>0a DEF Added
  <2> QED
    BY <2>1, <2>2, <2>5, <1>10, <1>11
<1>14. ASSUME NEW k \in 1..n PROVE t[u + k] = buf[k - 1]
  <2>1. /\ u + k - 1 \in Ring /\ ~(u + k - 1 < u) /\ x + (u + k - 1) = x + (u + k) - 1
        /\ u + k \in 1..(u + n) /\ k - 1 < e + 1 /\ u + k - 1 - u = k - 1
    BY <1>1, <1>5 DEF Ring
  <2>2. PICK p \in Ring : p = (x + (u + k) - 1) % CBUF_SZ
    BY <2>1, UsedPlaces
  <2>3. (p - y) % CBUF_SZ = k - 1
    <3>1. PICK j \in Ring : j = u + k - 1
      BY <2>1
    <3>2. (((x + j) % CBUF_SZ) - y) % CBUF_SZ = IF j < u THEN CBUF_SZ - u + j ELSE j - u
      BY Distance DEF u
    <3>3. x + j = x + (u + k) - 1 /\ ~(j < u) /\ j - u = k - 1
      BY <2>1, <3>1, <1>1, <1>5
    <3>4. p = (x + j) % CBUF_SZ
      BY <2>2, <3>3
    <3> QED
      BY <3>2, <3>3, <3>4
  <2>5. b[p] = buf[k - 1]
    BY <2>1, <2>3, <1>0a DEF Added
  <2> QED
    BY <2>1, <2>2, <2>5, <1>11
<1>15. t = s \o w \o <<NUL>>
  <2> DEFINE q == s \o w \o <<NUL>>
  <2>1. /\ s \o w \in Seq(Byte) /\ Len(s \o w) = u + e
        /\ \A k \in 1..u : (s \o w)[k] = s[k]
        /\ \A k \in 1..e : (s \o w)[u + k] = w[k]
    BY <1>10, <1>12, ConcatParts
  <2>2. /\ q \in Seq(Byte) /\ Len(q) = u + n
        /\ \A k \in 1..(u + e) : q[k] = (s \o w)[k]
        /\ q[u + n] = NUL
    <3>1. <<NUL>> \in Seq(Byte) /\ Len(<<NUL>>) = 1 /\ <<NUL>>[1] = NUL /\ 1 \in 1..1 /\ u + e + 1 = u + n
      BY <1>1, <1>5 DEF Byte
    <3>2. PICK x1 : x1 = <<NUL>>
      OBVIOUS
    <3>3. PICK x2 : x2 = s \o w
      OBVIOUS
    <3>4. /\ x2 \o x1 \in Seq(Byte) /\ Len(x2 \o x1) = u + e + 1
          /\ \A k \in 1..(u + e) : (x2 \o x1)[k] = x2[k]
          /\ \A k \in 1..1 : (x2 \o x1)[u + e + k] = x1[k]
      BY <3>1, <3>2, <3>3, <2>1, ConcatParts
    <3> QED
      BY <3>1, <3>2, <3>3, <3>4
  <2> HIDE DEF q
  <2>3. ASSUME NEW k \in 1..(u + n) PROVE t[k] = q[k]
    <3>1. CASE k \in 1..u
      <4>1. k \in 1..(u + e)
        BY <3>1, <1>1, <1>5
      <4> QED
        BY <3>1, <4>1, <2>1, <2>2, <1>13
    <3>2. CASE k \in (u + 1)..(u + e)
      <4>1. PICK j \in 1..e : k = u + j
        <5>1. k - u \in 1..e /\ k = u + (k - u)
          BY <3>2, <1>1, <1>5
        <5> QED
          BY <5>1
      <4>2. j \in 1..n /\ k \in 1..(u + e)
        BY <4>1, <1>1, <1>5
      <4> QED
        BY <4>1, <4>2, <2>1, <2>2, <1>12, <1>14
    <3>3. CASE k = u + n
      <4>1. n \in 1..n /\ n - 1 = e
        BY <1>1, <1>5
      <4> QED
        BY <3>3, <4>1, <2>2, <1>14 DEF EndsAt
    <3>4. k \in 1..u \/ k \in (u + 1)..(u + e) \/ k = u + n
      BY <1>1, <1>5
    <3> QED
      BY <3>1, <3>2, <3>3, <3>4
  <2>4. t = q
    BY <2>2, <2>3, <1>11, SeqEqual
  <2> QED
    BY <2>4 DEF q
<1>16. b[(z - 1) % CBUF_SZ] = NUL
  <2>1. (x + v - 1) % CBUF_SZ = (z - 1) % CBUF_SZ
    BY <1>6, <1>9, LastPlace DEF v
  <2>2. n \in 1..n /\ n - 1 = e /\ u + n \in 1..(u + n)
    BY <1>1, <1>5
  <2>3. t[u + n] = NUL
    BY <2>2, <1>14 DEF EndsAt
  <2> QED
    BY <2>1, <2>2, <2>3, <1>8, <1>11
<1> QED
  BY <1>0a, <1>0b, <1>4, <1>6, <1>9, <1>15, <1>16 DEF s, t, w

-----------------------------------------------------------------------------
(* The steps. *)

\* The mapping of module Console: what the abstract variables stand for.
OnLeft  == Before(lbuf, i)
OnRight == After(lbuf, i, EndFrom(i))
Stream  == Bytes(cbuf, f, r)

(* Where the line ends. *)
LEMMA LineAt ==
  ASSUME LineEnds
  PROVE  /\ lbuf \in [0..LBUF_SZ -> Byte] /\ LBUF_SZ \in Nat
         /\ \E n \in 0..(LBUF_SZ - 1) : /\ n \in 0..LBUF_SZ /\ EndsAt(lbuf, n) /\ i \in 0..n
                                        /\ \A k \in 0..n : EndFrom(k) = n
<1>1. LBUF_SZ \in Nat
  BY ConsoleAssumption
<1>2. PICK n \in i..(LBUF_SZ - 1) : lbuf[n] = NUL /\ \A k \in 0..(n - 1) : lbuf[k] # NUL
  BY DEF LineEnds
<1>3. n \in 0..(LBUF_SZ - 1) /\ n \in 0..LBUF_SZ /\ EndsAt(lbuf, n) /\ i \in 0..n
  BY <1>1, <1>2 DEF EndsAt, LineEnds
<1>4. \A k \in 0..n : EndFrom(k) = n
  BY <1>3, EndFromIs
<1> QED
  BY <1>1, <1>3, <1>4 DEF LineEnds

(* The line as a step leaves it. *)
LEMMA LineNext ==
  ASSUME NEW buf \in [0..LBUF_SZ -> Byte], NEW n \in 0..(LBUF_SZ - 1), NEW c \in 0..n,
         EndsAt(buf, n), lbuf' = buf, i' = c
  PROVE  /\ LineEnds'
         /\ OnLeft' = Before(buf, c) /\ OnRight' = After(buf, c, n)
<1>1. LBUF_SZ \in Nat
  BY ConsoleAssumption
<1>2. n \in 0..LBUF_SZ /\ n \in c..(LBUF_SZ - 1) /\ c \in 0..LBUF_SZ
  BY <1>1
<1>3. EndFrom(i)' = n
  BY <1>2, EndFromNext
<1>4. LineEnds'
  BY <1>2 DEF LineEnds, EndsAt
<1> QED
  BY <1>3, <1>4 DEF OnLeft, OnRight

(* The abstract state, and what leaves it alone. *)
LEMMA EditorState ==
  /\ Editor!evars = <<OnLeft, OnRight, Stream, rstk, answer>>
  /\ Editor!line = <<OnLeft, OnRight>>
  /\ Editor!io = <<Stream, rstk, answer>>
  /\ UNCHANGED cooked => UNCHANGED Editor!io
  /\ UNCHANGED <<lbuf, i>> => UNCHANGED Editor!line
BY DEF Editor!evars, Editor!line, Editor!io, OnLeft, OnRight, Stream, Before, After, Bytes, EndFrom, Used, cooked

(* A step that leaves line and ring alone. *)
LEMMA Untouched ==
  ASSUME ConsoleInv, UNCHANGED <<lbuf, i, cooked>>
  PROVE  ConsoleInv' /\ UNCHANGED Editor!evars
<1>1. ConsoleInv'
  BY DEF ConsoleInv, LineEnds, CookedType, WholeLines, cooked
<1>2. UNCHANGED Editor!evars
  BY EditorState DEF cooked, Editor!evars, Editor!line, Editor!io
<1> QED
  BY <1>1, <1>2

(* A step that edits the line. *)
LEMMA Edited ==
  ASSUME ConsoleInv, LineEnds', UNCHANGED cooked
  PROVE  ConsoleInv' /\ UNCHANGED Editor!io
<1>1. CookedType' /\ WholeLines'
  BY DEF ConsoleInv, CookedType, WholeLines, cooked
<1> QED
  BY <1>1, EditorState DEF ConsoleInv

(* The abstract steps, in terms of the mapping. *)
LEMMA EditorSteps ==
  /\ \A ch \in Chars : UNCHANGED Editor!io /\ OnLeft' = Append(OnLeft, ch) /\ UNCHANGED OnRight => Editor!ENext
  /\ UNCHANGED Editor!io /\ OnLeft # <<>> /\ OnLeft' = Front(OnLeft) /\ UNCHANGED OnRight => Editor!ENext
  /\ UNCHANGED Editor!io /\ OnRight # <<>> /\ OnRight' = Tail(OnRight) /\ UNCHANGED OnLeft => Editor!ENext
  /\ /\ UNCHANGED Editor!io /\ OnLeft' \o OnRight' = OnLeft \o OnRight
     /\ Len(OnLeft') \in {Len(OnLeft) - 1, Len(OnLeft) + 1} \/ OnLeft' = <<>> \/ OnRight' = <<>>
     => Editor!ENext
<1> USE DEF OnLeft, OnRight, Before, After
<1>1. ASSUME NEW ch \in Chars, UNCHANGED Editor!io, OnLeft' = Append(OnLeft, ch), UNCHANGED OnRight
      PROVE  Editor!ENext
  BY <1>1 DEF Editor!ENext, Editor!Type
<1>2. ASSUME UNCHANGED Editor!io, OnLeft # <<>>, OnLeft' = Front(OnLeft), UNCHANGED OnRight
      PROVE  Editor!ENext
  BY <1>2 DEF Editor!ENext, Editor!Backspace, Editor!Front, Front
<1>3. ASSUME UNCHANGED Editor!io, OnRight # <<>>, OnRight' = Tail(OnRight), UNCHANGED OnLeft
      PROVE  Editor!ENext
  BY <1>3 DEF Editor!ENext, Editor!Delete
<1>4. ASSUME UNCHANGED Editor!io, OnLeft' \o OnRight' = OnLeft \o OnRight,
             Len(OnLeft') \in {Len(OnLeft) - 1, Len(OnLeft) + 1} \/ OnLeft' = <<>> \/ OnRight' = <<>>
      PROVE  Editor!ENext
  BY <1>4 DEF Editor!ENext, Editor!Move
<1> QED
  BY <1>1, <1>2, <1>3, <1>4

(* consl_accept(). *)
LEMMA AcceptStep ==
  ASSUME ConsoleInv, NEW ch \in Chars, Accept(ch)
  PROVE  ConsoleInv' /\ [Editor!ENext]_(Editor!evars)
<1>1. /\ lbuf \in [0..LBUF_SZ -> Byte] /\ LBUF_SZ \in Nat
      /\ \E n \in 0..(LBUF_SZ - 1) : /\ n \in 0..LBUF_SZ /\ EndsAt(lbuf, n) /\ i \in 0..n
                                     /\ \A k \in 0..n : EndFrom(k) = n
  BY LineAt DEF ConsoleInv
<1>2. PICK n \in 0..(LBUF_SZ - 1) : /\ n \in 0..LBUF_SZ /\ EndsAt(lbuf, n) /\ i \in 0..n
                                    /\ \A k \in 0..n : EndFrom(k) = n
  BY <1>1
<1>3. CASE n + 1 >= LBUF_SZ
  BY <1>2, <1>3, Untouched DEF Accept
<1>4. CASE ~(n + 1 >= LBUF_SZ)
  <2>1. lbuf' = ShiftUp(n, ch) /\ i' = i + 1 /\ UNCHANGED cooked
    BY <1>2, <1>4 DEF Accept
  <2>2. n \in 0..(LBUF_SZ - 2) /\ n + 1 \in 0..(LBUF_SZ - 1) /\ i + 1 \in 0..(n + 1)
    BY <1>1, <1>2, <1>4
  <2>3. PICK new : new = ShiftUp(n, ch)
    OBVIOUS
  <2>4. /\ new \in [0..LBUF_SZ -> Byte] /\ EndsAt(new, n + 1)
        /\ Before(new, i + 1) = Append(Before(lbuf, i), ch)
        /\ After(new, i + 1, n + 1) = After(lbuf, i, n)
    <3>1. new = Typed(lbuf, i, n, ch)
      BY <2>3 DEF ShiftUp, Typed
    <3>2. lbuf \in [0..LBUF_SZ -> Byte] /\ n \in 0..(LBUF_SZ - 2) /\ i \in 0..n /\ EndsAt(lbuf, n)
      BY <2>2, <1>1, <1>2
    <3> QED
      BY ONLY <3>1, <3>2, ch \in Chars, TypeEdits, SMTT(60)
  <2>5. LineEnds' /\ OnLeft' = Before(new, i + 1) /\ OnRight' = After(new, i + 1, n + 1)
    <3>1. PICK m \in 0..(LBUF_SZ - 1) : m = n + 1
      BY <2>2
    <3>2. PICK c \in 0..m : c = i + 1
      BY <2>2, <3>1
    <3>3. LineEnds' /\ OnLeft' = Before(new, c) /\ OnRight' = After(new, c, m)
      BY <2>1, <2>3, <2>4, <3>1, <3>2, LineNext
    <3> QED
      BY <3>1, <3>2, <3>3
  <2>6. OnLeft' = Append(OnLeft, ch) /\ UNCHANGED OnRight
    BY <2>4, <2>5, <1>2 DEF OnLeft, OnRight
  <2> QED
    BY <2>1, <2>5, <2>6, Edited, EditorSteps
<1> QED
  BY <1>3, <1>4

(* backsp() behind the byte at place c: it goes. *)
LEMMA RemoveStep ==
  ASSUME ConsoleInv, NEW c, c + 1 \in 0..EndFrom(i), c \in Nat, BackspAt(c + 1), NEW n, n = EndFrom(i)
  PROVE  /\ ConsoleInv' /\ UNCHANGED Editor!io
         /\ OnLeft' = Before(lbuf, c) /\ OnLeft' = Front(Before(lbuf, c + 1)) /\ Before(lbuf, c + 1) # <<>>
         /\ OnRight' = After(lbuf, c + 1, n)
         /\ OnRight' = Tail(After(lbuf, c, n)) /\ After(lbuf, c, n) # <<>>
<1>1. /\ lbuf \in [0..LBUF_SZ -> Byte] /\ LBUF_SZ \in Nat
      /\ \E m \in 0..(LBUF_SZ - 1) : /\ m \in 0..LBUF_SZ /\ EndsAt(lbuf, m) /\ i \in 0..m
                                     /\ \A k \in 0..m : EndFrom(k) = m
  BY LineAt DEF ConsoleInv
<1>2. n \in 0..(LBUF_SZ - 1) /\ EndsAt(lbuf, n) /\ i \in 0..n /\ \A k \in 0..n : EndFrom(k) = n
  BY <1>1
<1>3. n \in 1..LBUF_SZ /\ c \in 0..(n - 1) /\ n - 1 \in 0..(LBUF_SZ - 1) /\ c + 1 > 0 /\ c + 1 - 1 = c /\ c \in 0..n
  BY <1>1, <1>2
<1>4. lbuf' = RemoveAtPlace(c) /\ i' = c /\ UNCHANGED cooked
  BY <1>3 DEF BackspAt
<1>5. PICK new : new = RemoveAtPlace(c)
  OBVIOUS
<1>6. new = Removed(lbuf, c, n)
  BY <1>2, <1>3, <1>5 DEF RemoveAtPlace, Removed
<1>7. /\ new \in [0..LBUF_SZ -> Byte] /\ EndsAt(new, n - 1)
      /\ Before(new, c) = Before(lbuf, c) /\ Before(new, c) = Front(Before(lbuf, c + 1))
      /\ After(new, c, n - 1) = After(lbuf, c + 1, n)
      /\ After(new, c, n - 1) = Tail(After(lbuf, c, n))
      /\ After(lbuf, c, n) # <<>> /\ Before(lbuf, c + 1) # <<>>
  BY <1>1, <1>2, <1>3, <1>6, RemoveEdits, SMTT(30)
<1>8. LineEnds' /\ OnLeft' = Before(new, c) /\ OnRight' = After(new, c, n - 1)
  <2>1. PICK m \in 0..(LBUF_SZ - 1) : m = n - 1
    BY <1>3
  <2>2. c \in 0..m
    BY <1>3, <2>1
  <2>3. LineEnds' /\ OnLeft' = Before(new, c) /\ OnRight' = After(new, c, m)
    BY <1>4, <1>5, <1>7, <2>1, <2>2, LineNext
  <2> QED
    BY <2>1, <2>3
<1> QED
  BY <1>4, <1>7, <1>8, Edited

(* The Backspace and the Delete key. *)
LEMMA BackStep ==
  ASSUME ConsoleInv, KeyBack \/ KeyDel
  PROVE  ConsoleInv' /\ [Editor!ENext]_(Editor!evars)
<1>1. /\ lbuf \in [0..LBUF_SZ -> Byte] /\ LBUF_SZ \in Nat
      /\ \E n \in 0..(LBUF_SZ - 1) : /\ n \in 0..LBUF_SZ /\ EndsAt(lbuf, n) /\ i \in 0..n
                                     /\ \A k \in 0..n : EndFrom(k) = n
  BY LineAt DEF ConsoleInv
<1>2. PICK n \in 0..(LBUF_SZ - 1) : /\ n \in 0..LBUF_SZ /\ EndsAt(lbuf, n) /\ i \in 0..n
                                    /\ \A k \in 0..n : EndFrom(k) = n
  BY <1>1
<1>3. EndFrom(i) = n
  BY <1>2
<1>4. CASE BackspAt(i) /\ i = 0
  BY <1>4, Untouched DEF BackspAt
<1>5. CASE BackspAt(i) /\ i # 0
  <2>1. PICK c \in Nat : i = c + 1
    BY <1>2, <1>5
  <2>2. c + 1 \in 0..n /\ BackspAt(c + 1)
    BY <2>1, <1>2, <1>5
  <2>3. /\ ConsoleInv' /\ UNCHANGED Editor!io
        /\ OnLeft' = Front(Before(lbuf, c + 1)) /\ Before(lbuf, c + 1) # <<>>
        /\ OnRight' = After(lbuf, c + 1, n)
    BY <2>2, <1>3, RemoveStep
  <2> QED
    BY <2>1, <2>3, <1>3, EditorSteps DEF OnLeft, OnRight
<1>6. CASE BackspAt(i + 1) /\ lbuf[i] # NUL
  <2>1. i \in Nat /\ i + 1 \in 0..n
    BY <1>2, <1>6 DEF EndsAt
  <2>2. PICK c : c = i
    OBVIOUS
  <2>3. /\ ConsoleInv' /\ UNCHANGED Editor!io
        /\ OnLeft' = Before(lbuf, c)
        /\ OnRight' = Tail(After(lbuf, c, n)) /\ After(lbuf, c, n) # <<>>
    BY <2>1, <2>2, <1>3, <1>6, RemoveStep
  <2> QED
    BY <2>2, <2>3, <1>3, EditorSteps DEF OnLeft, OnRight
<1> QED
  BY <1>4, <1>5, <1>6 DEF KeyBack, KeyDel, Right

(* The keys that move the cursor. *)
LEMMA MoveStep ==
  ASSUME ConsoleInv, KeyLeft \/ KeyRight \/ KeyHome \/ KeyEnd
  PROVE  ConsoleInv' /\ [Editor!ENext]_(Editor!evars)
<1>1. /\ lbuf \in [0..LBUF_SZ -> Byte] /\ LBUF_SZ \in Nat
      /\ \E n \in 0..(LBUF_SZ - 1) : /\ n \in 0..LBUF_SZ /\ EndsAt(lbuf, n) /\ i \in 0..n
                                     /\ \A k \in 0..n : EndFrom(k) = n
  BY LineAt DEF ConsoleInv
<1>2. PICK n \in 0..(LBUF_SZ - 1) : /\ n \in 0..LBUF_SZ /\ EndsAt(lbuf, n) /\ i \in 0..n
                                    /\ \A k \in 0..n : EndFrom(k) = n
  BY <1>1
<1>3. PICK c \in 0..n : MoveTo(c) /\ (c = i \/ c \in {i - 1, i + 1} \/ c = 0 \/ c = n)
  <2>1. CASE KeyLeft
    <3>1. (IF i > 0 THEN i - 1 ELSE 0) \in 0..n
      BY <1>2
    <3> QED
      BY <2>1, <3>1 DEF KeyLeft
  <2>2. CASE KeyRight
    <3>1. lbuf[i] # NUL => i + 1 \in 0..n
      BY <1>2 DEF EndsAt
    <3> QED
      BY <2>2, <3>1, <1>2 DEF KeyRight, Right
  <2>3. CASE KeyHome
    BY <2>3, <1>2 DEF KeyHome
  <2>4. CASE KeyEnd
    <3>1. EndFrom(i) = n /\ n \in 0..n
      BY <1>2
    <3> QED
      BY <2>4, <3>1 DEF KeyEnd
  <2> QED
    BY <2>1, <2>2, <2>3, <2>4
<1>4. lbuf' = lbuf /\ i' = c /\ UNCHANGED cooked
  BY <1>3 DEF MoveTo
<1>5. LineEnds' /\ OnLeft' = Before(lbuf, c) /\ OnRight' = After(lbuf, c, n)
  BY <1>1, <1>2, <1>4, LineNext
<1>6. OnLeft = Before(lbuf, i) /\ OnRight = After(lbuf, i, n)
  BY <1>2 DEF OnLeft, OnRight
<1>7. ConsoleInv' /\ UNCHANGED Editor!io
  BY <1>4, <1>5, Edited
<1>8. CASE c = i
  BY <1>4, <1>7, <1>8, Untouched
<1>9. CASE c \in {i - 1, i + 1} \/ c = 0 \/ c = n
  <2>1. OnLeft' \o OnRight' = OnLeft \o OnRight
    BY <1>1, <1>2, <1>5, <1>6, Joined
  <2>2. Len(OnLeft') = c /\ Len(OnLeft) = i /\ Len(OnRight') = n - c /\ OnLeft' \in Seq(Byte) /\ OnRight' \in Seq(Byte)
    BY <1>1, <1>2, <1>5, <1>6, PartTypes
  <2>3. Len(OnLeft') \in {Len(OnLeft) - 1, Len(OnLeft) + 1} \/ OnLeft' = <<>> \/ OnRight' = <<>>
    <3>1. c = n => n - c = 0
      BY <1>2
    <3>2. c = 0 => OnLeft' = <<>>
      BY <2>2
    <3>3. c = n => OnRight' = <<>>
      BY <2>2, <3>1
    <3> QED
      BY <1>9, <2>2, <3>2, <3>3
  <2> QED
    BY <1>7, <2>1, <2>3, EditorSteps
<1> QED
  BY <1>3, <1>8, <1>9

(* Enter and the read requests, in terms of the mapping. *)
LEMMA EditorReads ==
  ASSUME NEW s, NEW count, NEW n, n = Editor!Gets(s, count)
  PROVE  /\ /\ OnLeft' = <<>> /\ OnRight' = <<>> /\ s = Stream \o OnLeft \o OnRight \o <<NUL>>
            /\ rstk = <<>> /\ Stream' = s /\ UNCHANGED <<rstk, answer>>
            => Editor!ENext
         /\ /\ OnLeft' = <<>> /\ OnRight' = <<>> /\ s = Stream \o OnLeft \o OnRight \o <<NUL>>
            /\ rstk # <<>> /\ count = Last(rstk) /\ rstk' = Front(rstk)
            /\ answer' = SubSeq(s, 1, n)
            /\ Stream' = SubSeq(s, IF n < count THEN n + 2 ELSE n + 1, Len(s))
            => Editor!ENext
         /\ /\ UNCHANGED Editor!line /\ count \in Counts /\ Stream = <<>>
            /\ rstk' = Append(rstk, count) /\ UNCHANGED <<Stream, answer>>
            => Editor!ENext
         /\ /\ UNCHANGED Editor!line /\ count \in Counts /\ Stream # <<>> /\ s = Stream
            /\ UNCHANGED rstk /\ answer' = SubSeq(s, 1, n)
            /\ Stream' = SubSeq(s, IF n < count THEN n + 2 ELSE n + 1, Len(s))
            => Editor!ENext
<1> USE DEF OnLeft, OnRight, Before, After, Stream, Bytes
<1>1. ASSUME OnLeft' = <<>>, OnRight' = <<>>, s = Stream \o OnLeft \o OnRight \o <<NUL>>,
             rstk = <<>>, Stream' = s, UNCHANGED <<rstk, answer>>
      PROVE  Editor!ENext
  BY <1>1 DEF Editor!ENext, Editor!Enter
<1>2. ASSUME OnLeft' = <<>>, OnRight' = <<>>, s = Stream \o OnLeft \o OnRight \o <<NUL>>,
             rstk # <<>>, count = Last(rstk), rstk' = Front(rstk), answer' = SubSeq(s, 1, n),
             Stream' = SubSeq(s, IF n < count THEN n + 2 ELSE n + 1, Len(s))
      PROVE  Editor!ENext
  <2>1. /\ answer' = SubSeq(s, 1, Editor!Gets(s, count))
        /\ Stream' = SubSeq(s, IF Editor!Gets(s, count) < count THEN Editor!Gets(s, count) + 2
                                                               ELSE Editor!Gets(s, count) + 1, Len(s))
    BY <1>2, Zenon
  <2>2. Editor!Last(rstk) = Last(rstk) /\ Editor!Front(rstk) = Front(rstk)
    BY DEF Editor!Last, Editor!Front, Last, Front
  <2>3. Editor!Serve(Stream \o OnLeft \o OnRight \o <<NUL>>, Editor!Last(rstk))
    <3> HIDE DEF Stream, OnLeft, OnRight, Bytes
    <3>1. s = Stream \o OnLeft \o OnRight \o <<NUL>> /\ count = Editor!Last(rstk)
      BY <1>2, <2>2
    <3> QED
      BY ONLY <2>1, <3>1, Zenon DEF Editor!Serve, Stream, Bytes
  <2>4. rstk # <<>> /\ rstk' = Editor!Front(rstk) /\ OnLeft' = <<>> /\ OnRight' = <<>>
    BY <1>2, <2>2, Zenon
  <2>5. Editor!Enter
    BY ONLY <2>3, <2>4, Zenon DEF Editor!Enter, OnLeft, OnRight, Before, After, Stream, Bytes
  <2> QED
    BY <2>5 DEF Editor!ENext
<1>3. ASSUME UNCHANGED Editor!line, count \in Counts, Stream = <<>>,
             rstk' = Append(rstk, count), UNCHANGED <<Stream, answer>>
      PROVE  Editor!ENext
  BY <1>3 DEF Editor!ENext, Editor!Read
<1>4. ASSUME UNCHANGED Editor!line, count \in Counts, Stream # <<>>, s = Stream,
             UNCHANGED rstk, answer' = SubSeq(s, 1, n),
             Stream' = SubSeq(s, IF n < count THEN n + 2 ELSE n + 1, Len(s))
      PROVE  Editor!ENext
  <2>1. Editor!Serve(s, count)
    BY <1>4 DEF Editor!Serve
  <2> QED
    BY <1>4, <2>1 DEF Editor!ENext, Editor!Read
<1> QED
  BY <1>1, <1>2, <1>3, <1>4

(* The Enter key: cook(). *)
LEMMA EnterStep ==
  ASSUME ConsoleInv, KeyEnter
  PROVE  ConsoleInv' /\ [Editor!ENext]_(Editor!evars)
<1>1. /\ lbuf \in [0..LBUF_SZ -> Byte] /\ LBUF_SZ \in Nat \ {0}
      /\ \E e \in 0..(LBUF_SZ - 1) : /\ e \in 0..LBUF_SZ /\ EndsAt(lbuf, e) /\ i \in 0..e
                                     /\ \A k \in 0..e : EndFrom(k) = e
  BY LineAt, ConsoleAssumption DEF ConsoleInv
<1>2. PICK e \in 0..(LBUF_SZ - 1) : /\ e \in 0..LBUF_SZ /\ EndsAt(lbuf, e) /\ i \in 0..e
                                    /\ \A k \in 0..e : EndFrom(k) = e
  BY <1>1
<1>3. EndFrom(0) = e /\ EndFrom(i) = e
  BY <1>2
<1>4. CASE Used(f, r) + e + 1 >= CBUF_SZ
  BY <1>3, <1>4, Untouched DEF KeyEnter
<1>5. CASE ~(Used(f, r) + e + 1 >= CBUF_SZ)
  <2>0. cbuf \in [Ring -> Byte] /\ f \in Ring /\ r \in Ring /\ rstk \in Seq(Counts)
    BY DEF ConsoleInv, CookedType
  <2>1. Cook(e + 1)
    BY <1>3, <1>5 DEF KeyEnter
  <2>2. Used(f, r) + e + 1 < CBUF_SZ
    <3>1. Used(f, r) \in Ring
      BY <2>0, UsedIs
    <3>2. Used(f, r) \in Nat /\ CBUF_SZ \in Nat /\ e \in Nat
      BY <3>1, RingModulo DEF Ring
    <3> QED
      BY <3>2, <1>5
  <2>3. PICK b : b = cbuf'
    OBVIOUS
  <2>4. PICK z : z = r'
    OBVIOUS
  <2>5. b = Added(cbuf, r, lbuf, e) /\ z = Behind(r, e)
    BY <2>1, <2>3, <2>4 DEF Cook, Cooked, Ring, Added, Behind
  <2>6. /\ b \in [Ring -> Byte] /\ z \in Ring /\ f # z /\ b[(z - 1) % CBUF_SZ] = NUL
        /\ Bytes(b, f, z) = Bytes(cbuf, f, r) \o Before(lbuf, e) \o <<NUL>>
    <3>1. lbuf \in [0..LBUF_SZ -> Byte] /\ e \in 0..LBUF_SZ /\ EndsAt(lbuf, e)
      BY <1>1, <1>2
    <3> QED
      BY ONLY <2>0, <2>2, <2>5, <3>1, CookAdds
  <2>7. PICK s : s = Stream \o OnLeft \o OnRight \o <<NUL>>
    OBVIOUS
  <2>8. Bytes(b, f, z) = s
    <3>1. OnLeft \o OnRight = Before(lbuf, e)
      BY <1>1, <1>2, <1>3, Joined DEF OnLeft, OnRight
    <3>2. OnLeft \in Seq(Byte) /\ OnRight \in Seq(Byte) /\ Stream \in Seq(Byte)
      BY <1>1, <1>2, <1>3, <2>0, PartTypes, BytesType DEF OnLeft, OnRight, Stream
    <3>3. Stream \o OnLeft \o OnRight = Stream \o (OnLeft \o OnRight)
      <4>1. \A x, y, w \in Seq(Byte) : (x \o y) \o w = x \o (y \o w)
        BY ConcatAssociative, SMTT(60)
      <4> QED
        BY ONLY <3>2, <4>1, Zenon
    <3> QED
      BY <2>6, <2>7, <3>1, <3>3 DEF Stream
  <2>9. LineEnds' /\ OnLeft' = <<>> /\ OnRight' = <<>>
    <3>1. PICK buf : buf = [lbuf EXCEPT ![0] = NUL]
      OBVIOUS
    <3>2. lbuf' = buf /\ i' = 0
      BY <2>1, <3>1 DEF Cook
    <3>3. 0 \in 0..(LBUF_SZ - 1) /\ 0 \in 0..0
      BY <1>1
    <3>4. buf \in [0..LBUF_SZ -> Byte] /\ EndsAt(buf, 0)
      BY <3>1, <1>1 DEF Byte, EndsAt
    <3>5. LineEnds' /\ OnLeft' = Before(buf, 0) /\ OnRight' = After(buf, 0, 0)
      BY <3>2, <3>3, <3>4, LineNext
    <3> QED
      BY <3>5 DEF Before, After
  <2>10. /\ cbuf' \in [Ring -> Byte] /\ r' \in Ring /\ cbuf'[(r' - 1) % CBUF_SZ] = NUL
         /\ r' = z /\ cbuf' = b
    BY <2>3, <2>4, <2>6
  <2>11. CASE rstk = <<>>
    <3>1. UNCHANGED <<f, answer, rstk>>
      BY <2>1, <2>11 DEF Cook
    <3>2. Stream' = s
      BY <2>8, <2>10, <3>1 DEF Stream
    <3>3. CookedType' /\ WholeLines'
      BY <2>0, <2>10, <2>11, <3>1 DEF CookedType, WholeLines
    <3>4. Editor!ENext
      BY <2>7, <2>9, <2>11, <3>1, <3>2, EditorReads
    <3> QED
      BY <2>9, <3>3, <3>4 DEF ConsoleInv
  <2>12. CASE rstk # <<>>
    <3>1. PICK count : count = Last(rstk)
      OBVIOUS
    <3>2. Len(rstk) = 1 /\ count \in Counts /\ count \in Nat
      <4>1. Len(rstk) = 1
        BY <2>12 DEF ConsoleInv, WholeLines
      <4>2. rstk \in Seq(Counts) /\ 1 \in 1..Len(rstk)
        BY <4>1, <2>0
      <4>3. rstk[1] \in Counts
        BY ONLY <4>2, ElementOfSeq
      <4>4. count = rstk[1] /\ rstk[1] \in Counts
        BY <4>1, <4>3, <3>1 DEF Last
      <4> QED
        BY <4>1, <4>4, ConsoleAssumption
    <3>3. GetCooked(b, z, count) /\ rstk' = Front(rstk)
      BY <2>1, <2>3, <2>4, <2>12, <3>1 DEF Cook
    <3>4. rstk' = <<>>
      BY <2>0, <3>2, <3>3 DEF Front
    <3>5. PICK n : n = Editor!Gets(s, count)
      OBVIOUS
    <3>6. /\ f' \in Ring /\ answer' = SubSeq(s, 1, n)
          /\ Bytes(b, f', z) = SubSeq(s, IF n < count THEN n + 2 ELSE n + 1, Len(s))
      <4>1. \E s1, n1 : /\ s1 = Bytes(b, f, z) /\ n1 = Editor!Gets(s1, count)
                        /\ f' \in Ring /\ answer' = SubSeq(s1, 1, n1)
                        /\ Bytes(b, f', z) = SubSeq(s1, IF n1 < count THEN n1 + 2 ELSE n1 + 1, Len(s1))
        BY ONLY <2>0, <2>6, <3>2, <3>3, Served, Zenon
      <4> QED
        BY <4>1, <2>8, <3>5, Zenon
    <3>7. Stream' = SubSeq(s, IF n < count THEN n + 2 ELSE n + 1, Len(s))
      BY <2>10, <3>6 DEF Stream
    <3>8. CookedType' /\ WholeLines'
      BY <2>10, <3>4, <3>6 DEF CookedType, WholeLines
    <3>9. Editor!ENext
      BY <2>7, <2>9, <2>12, <3>1, <3>3, <3>5, <3>6, <3>7, EditorReads
    <3> QED
      BY <2>9, <3>8, <3>9 DEF ConsoleInv
  <2> QED
    BY <2>11, <2>12
<1> QED
  BY <1>4, <1>5

(* read_request(). *)
LEMMA ReadStep ==
  ASSUME ConsoleInv, NEW count \in Counts, ReadRequest(count)
  PROVE  ConsoleInv' /\ [Editor!ENext]_(Editor!evars)
<1>1. cbuf \in [Ring -> Byte] /\ f \in Ring /\ r \in Ring /\ rstk = <<>> /\ count \in Nat
  BY ConsoleAssumption DEF ConsoleInv, CookedType, ReadRequest
<1>2. LineEnds' /\ UNCHANGED Editor!line /\ UNCHANGED <<cbuf, r>>
  BY EditorState DEF ConsoleInv, LineEnds, ReadRequest
<1>3. Stream \in Seq(Byte) /\ Len(Stream) = Used(f, r) /\ (Used(f, r) = 0 <=> f = r)
  BY <1>1, BytesType, UsedIs DEF Stream
<1>4. CASE f = r
  <2>1. rstk' = Append(rstk, count) /\ UNCHANGED <<f, answer>>
    BY <1>4 DEF ReadRequest
  <2>2. UNCHANGED Stream /\ Stream = <<>>
    BY <1>2, <1>3, <1>4, <2>1 DEF Stream
  <2>3. CookedType' /\ WholeLines'
    BY <1>1, <1>2, <1>4, <2>1 DEF CookedType, WholeLines
  <2>4. Editor!ENext
    BY <1>2, <2>1, <2>2, EditorReads
  <2> QED
    BY <1>2, <2>3, <2>4 DEF ConsoleInv
<1>5. CASE f # r
  <2>1. GetCooked(cbuf, r, count) /\ UNCHANGED rstk
    BY <1>5 DEF ReadRequest
  <2>2. cbuf[(r - 1) % CBUF_SZ] = NUL
    BY <1>5 DEF ConsoleInv, WholeLines
  <2>3. PICK s : s = Stream
    OBVIOUS
  <2>4. PICK n : n = Editor!Gets(s, count)
    OBVIOUS
  <2>5. /\ f' \in Ring /\ answer' = SubSeq(s, 1, n)
        /\ Bytes(cbuf, f', r) = SubSeq(s, IF n < count THEN n + 2 ELSE n + 1, Len(s))
    <3>1. \E s1, n1 : /\ s1 = Bytes(cbuf, f, r) /\ n1 = Editor!Gets(s1, count)
                      /\ f' \in Ring /\ answer' = SubSeq(s1, 1, n1)
                      /\ Bytes(cbuf, f', r) = SubSeq(s1, IF n1 < count THEN n1 + 2 ELSE n1 + 1, Len(s1))
      BY ONLY <1>1, <1>5, <2>1, <2>2, Served, Zenon
    <3> QED
      BY <3>1, <2>3, <2>4, Zenon DEF Stream
  <2>6. Stream' = SubSeq(s, IF n < count THEN n + 2 ELSE n + 1, Len(s)) /\ Stream # <<>>
    BY <1>2, <1>3, <1>5, <2>5 DEF Stream
  <2>7. CookedType' /\ WholeLines'
    BY <1>1, <1>2, <2>1, <2>2, <2>5 DEF CookedType, WholeLines
  <2>8. Editor!ENext
    BY <1>2, <2>1, <2>3, <2>4, <2>5, <2>6, EditorReads
  <2> QED
    BY <1>2, <2>7, <2>8 DEF ConsoleInv
<1> QED
  BY <1>4, <1>5
-----------------------------------------------------------------------------
(* An empty console. *)
LEMMA InitConsole ==
  ASSUME CInit
  PROVE  ConsoleInv /\ Editor!EInit
<1>1. LBUF_SZ \in Nat \ {0} /\ CBUF_SZ \in Nat \ {0}
  BY ConsoleAssumption
<1>2. lbuf \in [0..LBUF_SZ -> Byte] /\ i \in 0..LBUF_SZ /\ 0 \in i..(LBUF_SZ - 1) /\ EndsAt(lbuf, 0)
  BY <1>1 DEF CInit, Byte, EndsAt
<1>3. LineEnds
  BY <1>2 DEF LineEnds, EndsAt
<1>4. CookedType /\ WholeLines
  BY <1>1 DEF CInit, CookedType, WholeLines, Ring, Byte
<1>5. EndFrom(i) = 0
  BY <1>1, <1>2, EndFromIs DEF CInit
<1>6. Used(f, r) = 0
  BY <1>4, UsedIs DEF CInit, CookedType
<1>7. Editor!EInit
  BY <1>5, <1>6 DEF CInit, Editor!EInit
<1> QED
  BY <1>3, <1>4, <1>7 DEF ConsoleInv

(* Every step of a console keeps the invariant and is a step of the editor. *)
LEMMA ConsoleStep ==
  ASSUME ConsoleInv, [CNext]_cvars
  PROVE  ConsoleInv' /\ [Editor!ENext]_(Editor!evars)
<1>1. CASE UNCHANGED cvars
  BY <1>1, Untouched DEF cvars, cooked
<1> QED
  BY <1>1, AcceptStep, BackStep, MoveStep, EnterStep, ReadStep DEF CNext

(* The inductive invariant. *)
THEOREM ConsoleHolds == CSpec => []ConsoleInv
<1>1. CInit => ConsoleInv
  BY InitConsole
<1>2. ConsoleInv /\ [CNext]_cvars => ConsoleInv'
  BY ConsoleStep
<1> QED
  BY <1>1, <1>2, PTL DEF CSpec

(* The line and its NUL stay inside lbuf, the cursor inside the line: the loops
   of consl_accept(), removec() and cook() end, for buffers of any size. *)
THEOREM LineStaysInside == CSpec => []LineEnds
<1>1. ConsoleInv => LineEnds
  BY DEF ConsoleInv
<1> QED
  BY <1>1, ConsoleHolds, PTL

(* A console implements the line editor: who reads gets the lines as they were
   edited, in order and each byte once, wherever the ring wraps around and
   whether the read came before the line or after it. *)
THEOREM ConsoleImplementsLineEditor == CSpec => ImplementsLineEditor
<1>1. CInit => Editor!EInit
  BY InitConsole
<1>2. ConsoleInv /\ [CNext]_cvars => [Editor!ENext]_(Editor!evars)
  BY ConsoleStep
<1> QED
  BY <1>1, <1>2, ConsoleHolds, PTL DEF CSpec, ImplementsLineEditor, Editor!ESpec
=============================================================================

------------------------------ MODULE Console ------------------------------
(***************************************************************************)
(* One terminal of ttyd (drivers/tty/console.c): the line buffer lbuf with *)
(* its cursor, the ring cbuf of cooked bytes, and the stack of read        *)
(* requests that wait for a line.  The screen is left out.                 *)
(*                                                                         *)
(* ttyd serves one message at a time: every action is one key, as readkey()*)
(* passes it on to the current console, or one DEV_READ.                   *)
(***************************************************************************)
EXTENDS Integers, Sequences, SequencesExt

CONSTANTS Chars,     \* the characters of keychar[][]
          NUL,       \* the byte 0
          Counts,    \* the len of a read request
          LBUF_SZ, CBUF_SZ

ASSUME ConsoleAssumption ==
  /\ NUL \notin Chars /\ Counts \subseteq Nat
  /\ {LBUF_SZ, CBUF_SZ} \subseteq Nat \ {0}

VARIABLES
  lbuf,     \* the line, ended by NUL; what follows is stale
  i,        \* cursor in lbuf
  cbuf, f, r,   \* ring: the bytes from f up to r wait to be read
  rstk,     \* counts of the requests kept
  answer,   \* the bytes sent with the last answer
  halted    \* a panic: a buffer is full

cvars == <<lbuf, i, cbuf, f, r, rstk, answer, halted>>
cooked == <<cbuf, f, r, rstk, answer>>

Byte == Chars \cup {NUL}

\* The place of the NUL that ends the line, from place k on.
EndFrom(k) == CHOOSE n \in k..LBUF_SZ : lbuf[n] = NUL /\ \A m \in k..(n - 1) : lbuf[m] # NUL
-----------------------------------------------------------------------------
(* Editing: consl_accept() and consl_feed() *)

\* The rest of the line, NUL at n included, one place up, and ch into the gap.
ShiftUp(n, ch) ==
  [k \in 0..LBUF_SZ |-> IF k = i THEN ch ELSE IF k \in (i + 1)..(n + 1) THEN lbuf[k - 1] ELSE lbuf[k]]

\* Mutant: the NUL may come to stand on the last place.
AcceptLate(ch) ==
  /\ ~halted
  /\ IF EndFrom(i) + 1 > LBUF_SZ
     THEN halted' = TRUE /\ UNCHANGED <<lbuf, i>>
     ELSE lbuf' = ShiftUp(EndFrom(i), ch) /\ i' = i + 1 /\ UNCHANGED halted
  /\ UNCHANGED cooked

Accept(ch) ==
  /\ ~halted
  /\ IF EndFrom(i) + 1 >= LBUF_SZ       \* line buffer full
     THEN halted' = TRUE /\ UNCHANGED <<lbuf, i>>
     ELSE lbuf' = ShiftUp(EndFrom(i), ch) /\ i' = i + 1 /\ UNCHANGED halted
  /\ UNCHANGED cooked

\* removec(): the line behind place k one place down, onto k.
RemoveAtPlace(k) ==
  [n \in 0..LBUF_SZ |-> IF n >= k /\ n < EndFrom(k) THEN lbuf[n + 1] ELSE lbuf[n]]

\* backsp() with the cursor at place c.
BackspAt(c) ==
  /\ ~halted
  /\ IF c > 0 THEN lbuf' = RemoveAtPlace(c - 1) /\ i' = c - 1 ELSE i' = c /\ UNCHANGED lbuf
  /\ UNCHANGED <<cooked, halted>>

\* Where movr() leaves the cursor.
Right == IF lbuf[i] # NUL THEN i + 1 ELSE i

KeyBack == BackspAt(i)

KeyDel == BackspAt(Right)

MoveTo(c) == ~halted /\ i' = c /\ UNCHANGED <<lbuf, cooked, halted>>

KeyLeft  == MoveTo(IF i > 0 THEN i - 1 ELSE 0)
KeyRight == MoveTo(Right)
KeyHome  == MoveTo(0)
KeyEnd   == MoveTo(EndFrom(i))
-----------------------------------------------------------------------------
(* cook(), read_request() and get_cooked() *)

Used(first, last) == (last - first) % CBUF_SZ

\* The ring with the line and its NUL, n bytes in all, added at r.
Cooked(n) ==
  [k \in 0..(CBUF_SZ - 1) |-> IF (k - r) % CBUF_SZ < n THEN lbuf[(k - r) % CBUF_SZ] ELSE cbuf[k]]

\* get_cooked() from ring b, of which the bytes from f up to last are in use:
\* how many bytes a read of count gets.
GetsFrom(b, last, count) ==
  CHOOSE n \in 0..Used(f, last) :
    /\ n <= count
    /\ \A k \in 0..(n - 1) : b[(f + k) % CBUF_SZ] # NUL
    /\ n = count \/ b[(f + n) % CBUF_SZ] = NUL

\* Mutant: the NUL is taken only when nothing precedes it.
GetCookedKeepsNul(b, last, count) ==
  LET n == GetsFrom(b, last, count)
  IN /\ answer' = [k \in 1..n |-> b[(f + k - 1) % CBUF_SZ]]
     /\ f' = (f + (IF n = 0 /\ count > 0 THEN 1 ELSE n)) % CBUF_SZ

GetCooked(b, last, count) ==
  LET n == GetsFrom(b, last, count)
  IN /\ answer' = [k \in 1..n |-> b[(f + k - 1) % CBUF_SZ]]
     /\ f' = (f + (IF n < count THEN n + 1 ELSE n)) % CBUF_SZ

\* cook() of a line of n bytes: into the ring, then the newest request, if any.
Cook(n) ==
  /\ cbuf' = Cooked(n) /\ r' = (r + n) % CBUF_SZ
  /\ lbuf' = [lbuf EXCEPT ![0] = NUL] /\ i' = 0
  /\ IF rstk = <<>>
     THEN UNCHANGED <<f, answer, rstk>>
     ELSE GetCooked(cbuf', r', Last(rstk)) /\ rstk' = Front(rstk)
  /\ UNCHANGED halted

KeyEnter ==
  /\ ~halted
  /\ IF Used(f, r) + EndFrom(0) + 1 >= CBUF_SZ      \* cooked buffer full
     THEN halted' = TRUE /\ UNCHANGED <<lbuf, i, cooked>>
     ELSE Cook(EndFrom(0) + 1)

\* The one reader of this console, which is not waiting already, asks for count:
\* the stack never comes to RSTK_SZ requests.
ReadRequest(count) ==
  /\ ~halted /\ rstk = <<>>
  /\ IF f = r
     THEN /\ rstk' = Append(rstk, count)
          /\ UNCHANGED <<f, answer>>
     ELSE GetCooked(cbuf, r, count) /\ UNCHANGED rstk
  /\ UNCHANGED <<lbuf, i, cbuf, r, halted>>
-----------------------------------------------------------------------------
CInit ==
  /\ lbuf = [k \in 0..LBUF_SZ |-> NUL] /\ i = 0
  /\ cbuf = [k \in 0..(CBUF_SZ - 1) |-> NUL] /\ f = 0 /\ r = 0
  /\ rstk = <<>> /\ answer = <<>> /\ halted = FALSE

CNext ==
  \/ \E ch \in Chars : Accept(ch)
  \/ KeyBack \/ KeyDel \/ KeyLeft \/ KeyRight \/ KeyHome \/ KeyEnd \/ KeyEnter
  \/ \E count \in Counts : ReadRequest(count)

CSpec == CInit /\ [][CNext]_cvars
-----------------------------------------------------------------------------
(* Properties. *)

(* The cursor stays inside the line and the line inside lbuf, with room for the
   NUL that every loop over lbuf relies on to end. *)
LineEnds ==
  /\ lbuf \in [0..LBUF_SZ -> Byte] /\ i \in 0..LBUF_SZ
  /\ \E n \in i..(LBUF_SZ - 1) : lbuf[n] = NUL /\ \A k \in 0..(n - 1) : lbuf[k] # NUL

(* Editing in place, the stale bytes behind the line, the wrap-around of the
   ring and the two ways to serve a read come to what LineEditor says: the
   reader gets the lines as edited, in order, each byte once. *)
Editor == INSTANCE LineEditor WITH
  before  <- [k \in 1..i |-> lbuf[k - 1]],
  after   <- [k \in 1..(EndFrom(i) - i) |-> lbuf[i + k - 1]],
  stream  <- [k \in 1..Used(f, r) |-> cbuf[(f + k - 1) % CBUF_SZ]],
  waiting <- rstk

ImplementsLineEditor == Editor!ESpec
=============================================================================

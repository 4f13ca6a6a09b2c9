-------------------------- MODULE JournalBook_proofs --------------------------
(***************************************************************************)
(* The import, the backup and the scoreboards, for sheets and decisions of *)
(* any size.                                                               *)
(*                                                                         *)
(* The pairing of the import.  Shares bought lie on a line in the order of *)
(* the purchases, shares sold in the order of the sales.  The queue of the *)
(* import lies on that line from what was sold to what was bought, each    *)
(* leg within its purchase, and the trades it has closed lie on it from    *)
(* nothing to what was sold, each within its purchase and its sale.        *)
(*                                                                         *)
(* The backup.  Decisions of an ordered book follow one another, and so do *)
(* their rows in the sheet.  The import therefore has one purchase queued  *)
(* at a time, with what is unsold of its decision, and has closed one      *)
(* trade for each sale it has read.  The trades of one decision start on   *)
(* its day and overlap, those of two do not: the import groups them as     *)
(* they were.                                                              *)
(*                                                                         *)
(* The scoreboards.  Each leg that wins or loses by its own measure does   *)
(* so by more than its band, and a winner by more than a tenth of its      *)
(* weight in R; the dollars and the R of a decision are sums over its legs.*)
(***************************************************************************)
EXTENDS JournalScore, Journal_proofs

-----------------------------------------------------------------------------
(* The least and the greatest of few. *)

LEMMA LessOfTwo ==
  ASSUME NEW a \in Int, NEW b \in Int
  PROVE  Min({a, b}) = IF a <= b THEN a ELSE b
<1>1. \A x \in {a, b} : (IF a <= b THEN a ELSE b) <= x
  OBVIOUS
<1>2. ASSUME NEW m \in {a, b}, \A x \in {a, b} : m <= x PROVE m = IF a <= b THEN a ELSE b
  BY <1>2
<1>. QED  BY <1>1, <1>2 DEF Min

LEMMA MoreOfTwo ==
  ASSUME NEW a \in Int, NEW b \in Int
  PROVE  Max({a, b}) = IF a <= b THEN b ELSE a
<1>1. \A x \in {a, b} : (IF a <= b THEN b ELSE a) >= x
  OBVIOUS
<1>2. ASSUME NEW m \in {a, b}, \A x \in {a, b} : m >= x PROVE m = IF a <= b THEN b ELSE a
  BY <1>2
<1>. QED  BY <1>1, <1>2 DEF Max

LEMMA SharedIs ==
  ASSUME NEW a \in Int, NEW b \in Int, NEW c \in Int, NEW d \in Int
  PROVE  LET lo == IF a <= c THEN c ELSE a
             hi == IF b <= d THEN b ELSE d
         IN  Shared(a, b, c, d) = IF lo <= hi THEN hi - lo ELSE 0
<1>. DEFINE lo == Max({a, c})
            hi == Min({b, d})
<1>1. lo = (IF a <= c THEN c ELSE a) /\ hi = (IF b <= d THEN b ELSE d)
  BY LessOfTwo, MoreOfTwo
<1>2. lo \in Int /\ hi \in Int
  BY <1>1
<1>. HIDE DEF lo, hi
<1>3. Max({0, hi - lo}) = IF 0 <= hi - lo THEN hi - lo ELSE 0
  BY <1>2, MoreOfTwo
<1>4. Max({0, hi - lo}) = IF lo <= hi THEN hi - lo ELSE 0
  BY <1>2, <1>3
<1>. QED  BY <1>1, <1>4 DEF Shared, lo, hi

LEMMA GreatestMember ==
  ASSUME NEW N \in Nat, NEW T \in SUBSET (1 .. N), T # {}
  PROVE  Max(T) \in T /\ \A x \in T : x <= Max(T)
<1>. DEFINE U == {N - x : x \in T}
<1>1. U \subseteq Nat /\ U # {}
  <2>1. \A x \in T : N - x \in Nat
    OBVIOUS
  <2>. QED  BY <2>1
<1>2. PICK u \in U : \A y \in U : u <= y
  <2>. HIDE DEF U
  <2>. QED  BY <1>1, SmallestMember
<1>3. PICK m \in T : u = N - m
  BY <1>2
<1>4. \A x \in T : m >= x
  <2>. TAKE x \in T
  <2>1. u <= N - x /\ x \in Int /\ m \in Int
    BY <1>2
  <2>. QED  BY <1>3, <2>1
<1>5. \E x \in T : \A y \in T : x >= y
  BY <1>4
<1>6. Max(T) \in T /\ \A y \in T : Max(T) >= y
  BY <1>5 DEF Max
<1>7. \A y \in T : y \in Int
  OBVIOUS
<1>. QED  BY <1>6, <1>7

LEMMA GreatestOfRange ==
  ASSUME NEW n \in Nat, n # 0
  PROVE  Max(1 .. n) = n
<1>1. Max(1 .. n) \in 1 .. n /\ \A x \in 1 .. n : x <= Max(1 .. n)
  <2>1. 1 .. n \in SUBSET (1 .. n) /\ 1 .. n # {}
    OBVIOUS
  <2>. QED  BY <2>1, GreatestMember
<1>. QED  BY <1>1

-----------------------------------------------------------------------------
(* The rows, and what each turn of the two loops makes of what it finds. *)

FileRows ==
  [tipo : {"compra", "venta"}, fecha : Nat, id : Nat, qty : Nat \ {0}, price : Nat,
   stop : Nat \cup {None}, pnl : Int \cup {None}, r : (Int \X Int) \cup {None}]
Pairs == {ParsedTrade(leg, venta, chunk) : leg \in FileRows, venta \in FileRows, chunk \in Nat \ {0}}

Taken == [left : Nat, queue : Seq(FileRows), closed : Seq(Pairs)]
Parsed == [queue : Seq(FileRows), closed : Seq(Pairs)]

LEMMA PairIs ==
  ASSUME NEW leg, NEW venta, NEW chunk
  PROVE  LET pair == ParsedTrade(leg, venta, chunk)
         IN  pair.qty = chunk /\ pair.entry_date = leg.fecha /\ pair.exit_date = venta.fecha
BY DEF ParsedTrade, OpenTrade

\* One round: what is left to sell takes what it can from the leg.
LEMMA TakeFromIs ==
  ASSUME NEW acc \in Taken, NEW leg \in FileRows, NEW venta \in FileRows
  PROVE  LET new == TakeFrom(acc, leg, venta)
             rest == [leg EXCEPT !.qty = @ - acc.left]
         IN  /\ new \in Taken
             /\ acc.left = 0 =>
                  new.left = 0 /\ new.closed = acc.closed /\ new.queue = Append(acc.queue, leg)
             /\ acc.left # 0 /\ acc.left < leg.qty =>
                  /\ new.left = 0 /\ new.queue = Append(acc.queue, rest)
                  /\ new.closed = Append(acc.closed, ParsedTrade(leg, venta, acc.left))
                  /\ rest \in FileRows /\ rest.fecha = leg.fecha /\ rest.qty = leg.qty - acc.left
             /\ acc.left # 0 /\ acc.left >= leg.qty =>
                  /\ new.left = acc.left - leg.qty /\ new.queue = acc.queue
                  /\ new.closed = Append(acc.closed, ParsedTrade(leg, venta, leg.qty))
<1>. DEFINE chunk == Min({acc.left, leg.qty})
            rest == [leg EXCEPT !.qty = @ - chunk]
            new == TakeFrom(acc, leg, venta)
<1>0. /\ acc.left \in Nat /\ leg.qty \in Nat \ {0}
      /\ acc.queue \in Seq(FileRows) /\ acc.closed \in Seq(Pairs)
  BY DEF Taken, FileRows
<1>1. /\ acc.left \in Nat /\ leg.qty \in Nat \ {0}
      /\ acc.queue \in Seq(FileRows) /\ acc.closed \in Seq(Pairs)
      /\ chunk = IF acc.left <= leg.qty THEN acc.left ELSE leg.qty
  BY <1>0, LessOfTwo
<1>2. rest.qty = leg.qty - chunk /\ rest.fecha = leg.fecha
  BY DEF FileRows
<1>3. /\ acc.left = 0 => new = [acc EXCEPT !.queue = Append(@, leg)]
      /\ acc.left # 0 =>
           new = [left |-> acc.left - chunk,
                  queue |-> IF rest.qty = 0 THEN acc.queue ELSE Append(acc.queue, rest),
                  closed |-> Append(acc.closed, ParsedTrade(leg, venta, chunk))]
  BY DEF TakeFrom
<1>. HIDE DEF new
<1>4. CASE acc.left = 0
  <2>1. new.left = 0 /\ new.closed = acc.closed /\ new.queue = Append(acc.queue, leg) /\ new \in Taken
    <3>1. Append(acc.queue, leg) \in Seq(FileRows)
      BY <1>1
    <3>2. new = [acc EXCEPT !.queue = Append(acc.queue, leg)]
      BY <1>3, <1>4
    <3>. QED  BY <1>4, <3>1, <3>2 DEF Taken
  <2>. QED  BY <1>1, <1>4, <2>1 DEF new
<1>5. CASE acc.left # 0 /\ acc.left < leg.qty
  <2>1. chunk = acc.left
    BY <1>1, <1>5
  <2>2. rest \in FileRows /\ rest.qty # 0
    <3>1. leg.qty - chunk \in Nat \ {0}
      BY <1>1, <1>5, <2>1
    <3>. HIDE DEF chunk
    <3>. QED  BY <3>1 DEF FileRows
  <2>3. ParsedTrade(leg, venta, chunk) \in Pairs
    BY <1>1, <1>5, <2>1 DEF Pairs
  <2>. HIDE DEF rest
  <2>4. new = [left |-> 0, queue |-> Append(acc.queue, rest),
               closed |-> Append(acc.closed, ParsedTrade(leg, venta, chunk))]
    BY <1>1, <1>3, <1>5, <2>1, <2>2
  <2>5. new \in Taken
    BY <1>1, <2>2, <2>3, <2>4 DEF Taken
  <2>6. /\ new.left = 0 /\ new.queue = Append(acc.queue, rest)
        /\ new.closed = Append(acc.closed, ParsedTrade(leg, venta, acc.left))
    BY <2>1, <2>4
  <2>7. rest = [leg EXCEPT !.qty = @ - acc.left]
    BY <2>1 DEF rest
  <2>8. rest.qty = leg.qty - acc.left /\ rest.fecha = leg.fecha
    BY <1>2, <2>1 DEF rest
  <2>. QED  BY <1>1, <1>5, <2>2, <2>5, <2>6, <2>7, <2>8 DEF new
<1>6. CASE acc.left # 0 /\ acc.left >= leg.qty
  <2>1. chunk = leg.qty /\ rest.qty = 0
    BY <1>1, <1>2, <1>6
  <2>2. ParsedTrade(leg, venta, leg.qty) \in Pairs
    BY <1>1 DEF Pairs
  <2>3. new = [left |-> acc.left - leg.qty, queue |-> acc.queue,
               closed |-> Append(acc.closed, ParsedTrade(leg, venta, leg.qty))]
    BY <1>3, <1>6, <2>1
  <2>4. new \in Taken
    BY <1>1, <1>6, <2>2, <2>3 DEF Taken
  <2>. QED  BY <1>1, <1>6, <2>3, <2>4 DEF new
<1>. QED  BY <1>1, <1>4, <1>5, <1>6

-----------------------------------------------------------------------------
(* The loops. *)

\* A fold over 1 .. N, the greatest taken off first.
Downward(fold, N, base, turn) ==
  fold = [T \in SUBSET (1 .. N) |-> IF T = {} THEN base ELSE turn[Max(T)][fold[T \ {Max(T)}]]]

LEMMA DownwardExists ==
  ASSUME NEW N \in Nat, NEW A, NEW base \in A, NEW turn \in [1 .. N -> [A -> A]]
  PROVE  \E fold \in [SUBSET (1 .. N) -> A] : Downward(fold, N, base, turn)
<1>. DEFINE largest == [T \in SUBSET (1 .. N) |-> Max(T)]
<1>1. \A T \in SUBSET (1 .. N) : T # {} => largest[T] \in T
  BY GreatestMember
<1>2. \A T \in SUBSET (1 .. N) : largest[T] = Max(T)
  OBVIOUS
<1>. HIDE DEF largest
<1>3. CanFold(1 .. N, A, base, turn, largest)
  <2>1. IsFiniteSet(1 .. N)
    BY FS_Interval
  <2>. QED  BY <1>1, <2>1 DEF CanFold
<1>4. HasFold(1 .. N, A, base, turn, largest)
  BY ONLY <1>3, FoldsExist
<1>5. PICK fold \in [SUBSET (1 .. N) -> A] : FoldsOver(fold, 1 .. N, base, turn, largest)
  BY <1>4 DEF HasFold
<1>6. Downward(fold, N, base, turn)
  <2>. DEFINE a(T) == IF T = {} THEN base ELSE turn[largest[T]][fold[T \ {largest[T]}]]
              b(T) == IF T = {} THEN base ELSE turn[Max(T)][fold[T \ {Max(T)}]]
  <2>1. \A T \in SUBSET (1 .. N) : a(T) = b(T)
    BY <1>2
  <2>2. fold = [T \in SUBSET (1 .. N) |-> a(T)]
    BY <1>5 DEF FoldsOver
  <2>3. fold = [T \in SUBSET (1 .. N) |-> b(T)]
    <3>. HIDE DEF a, b
    <3>. QED  BY <2>1, <2>2
  <2>. QED  BY <2>3 DEF Downward
<1>. QED  BY <1>6

Runs(c, N, A, base, turn) ==
  /\ c[{}] = base
  /\ \A k \in 1 .. N : c[(1 .. k) \ {k}] \in A => c[1 .. k] = turn[k][c[(1 .. k) \ {k}]]

\* What it makes of the first k is what it makes of the first k - 1, and a turn.
LEMMA DownwardCourse ==
  ASSUME NEW N \in Nat, NEW A, NEW base \in A, NEW turn \in [1 .. N -> [A -> A]],
         NEW c, Runs(c, N, A, base, turn)
  PROVE  Course([k \in 0 .. N |-> c[1 .. k]], N, A, base, turn)
<1>. DEFINE f == [k \in 0 .. N |-> c[1 .. k]]
            P == {k \in 0 .. N : c[1 .. k] \in A}
<1>1. c[1 .. 0] = base
  <2>1. 1 .. 0 = {}
    OBVIOUS
  <2>. QED  BY <2>1 DEF Runs
<1>2. \A k \in 1 .. N : (1 .. k) \ {k} = 1 .. (k - 1)
  <2>. TAKE k \in 1 .. N
  <2>1. \A x : x \in (1 .. k) \ {k} <=> x \in 1 .. (k - 1)
    OBVIOUS
  <2>. QED  BY <2>1
<1>3. \A k \in 1 .. N : c[1 .. (k - 1)] \in A => c[1 .. k] = turn[k][c[1 .. (k - 1)]]
  BY <1>2 DEF Runs
<1>4. 0 .. N \subseteq P
  <2>1. 0 \in P
    BY <1>1
  <2>2. ASSUME NEW k \in 0 .. N - 1, k \in P PROVE k + 1 \in P
    <3>1. k + 1 \in 1 .. N /\ k + 1 - 1 = k
      OBVIOUS
    <3>2. c[1 .. (k + 1)] = turn[k + 1][c[1 .. k]] /\ c[1 .. k] \in A
      BY <1>3, <2>2, <3>1
    <3>. QED  BY <3>1, <3>2
  <2>. HIDE DEF P
  <2>. QED  BY <2>1, <2>2, UpwardInduction
<1>5. f \in [0 .. N -> A] /\ f[0] = base
  BY <1>1, <1>4
<1>6. \A k \in 1 .. N : f[k] = turn[k][f[k - 1]]
  <2>. TAKE k \in 1 .. N
  <2>1. k - 1 \in 0 .. N /\ k \in 0 .. N
    OBVIOUS
  <2>2. c[1 .. (k - 1)] \in A
    BY <1>4, <2>1
  <2>. QED  BY <1>3, <2>1, <2>2
<1>. HIDE DEF f
<1>7. Course(f, N, A, base, turn)
  BY <1>5, <1>6 DEF Course
<1>. QED  BY <1>7 DEF f

Sale(venta, closed) == [left |-> venta.qty, queue |-> << >>, closed |-> closed]

\* A sale goes through the legs of the queue, one round each.
LEMMA SellCourse ==
  ASSUME NEW acc \in Parsed, NEW venta \in FileRows
  PROVE  \E f \in [0 .. Len(acc.queue) -> Taken] :
           /\ f[0] = Sale(venta, acc.closed)
           /\ \A k \in 1 .. Len(acc.queue) : f[k] = TakeFrom(f[k - 1], acc.queue[k], venta)
           /\ LET end == f[Len(acc.queue)]
              IN  Sell(acc, venta) = [queue |-> end.queue, closed |-> end.closed]
<1>. DEFINE legs == acc.queue
            base == Sale(venta, acc.closed)
            N == Len(legs)
            turn == [k \in 1 .. N |-> [a \in Taken |-> TakeFrom(a, legs[k], venta)]]
            value(c, T) == IF T = {} THEN base ELSE TakeFrom(c[T \ {Max(T)}], legs[Max(T)], venta)
            IsFold(c) == c = [T \in SUBSET DOMAIN legs |-> value(c, T)]
<1>1. /\ legs \in Seq(FileRows) /\ N \in Nat /\ DOMAIN legs = 1 .. N
      /\ \A k \in 1 .. N : legs[k] \in FileRows
  BY DEF Parsed
<1>2. base \in Taken
  BY DEF Sale, Taken, Parsed, FileRows
<1>3. turn \in [1 .. N -> [Taken -> Taken]]
  <2>1. \A k \in 1 .. N, a \in Taken : TakeFrom(a, legs[k], venta) \in Taken
    BY <1>1, TakeFromIs
  <2>. HIDE DEF N, legs
  <2>. QED  BY <2>1
<1>4. \A k \in 1 .. N, a \in Taken : turn[k][a] = TakeFrom(a, legs[k], venta)
  OBVIOUS
<1>5. FoldLeft(LAMBDA a, leg : TakeFrom(a, leg, venta), base, legs) = (CHOOSE c : IsFold(c))[DOMAIN legs]
  BY Zenon DEF FoldLeft, MapThenFoldSet
<1>. HIDE DEF turn, base, N, legs
<1>6. PICK fold \in [SUBSET (1 .. N) -> Taken] : Downward(fold, N, base, turn)
  BY <1>1, <1>2, <1>3, DownwardExists
<1>7. IsFold(fold)
  <2>. DEFINE a(T) == IF T = {} THEN base ELSE turn[Max(T)][fold[T \ {Max(T)}]]
  <2>1. \A T \in SUBSET (1 .. N) : a(T) = value(fold, T)
    <3>. TAKE T \in SUBSET (1 .. N)
    <3>1. CASE T # {}
      <4>1. Max(T) \in 1 .. N /\ T \ {Max(T)} \in SUBSET (1 .. N)
        BY <1>1, <3>1, GreatestMember
      <4>2. fold[T \ {Max(T)}] \in Taken
        BY <1>6, <4>1
      <4>. QED  BY <1>4, <3>1, <4>1, <4>2
    <3>. QED  BY <3>1
  <2>2. fold = [T \in SUBSET (1 .. N) |-> a(T)]
    BY <1>6 DEF Downward
  <2>. HIDE DEF a, value
  <2>. QED  BY <1>1, <2>1, <2>2
<1>8. PICK c : c = CHOOSE x : IsFold(x)
  OBVIOUS
<1>9. IsFold(c)
  <2>. HIDE DEF IsFold
  <2>. QED  BY <1>7, <1>8
<1>10. c[{}] = base
  BY <1>9
<1>11. ASSUME NEW k \in 1 .. N, c[(1 .. k) \ {k}] \in Taken
       PROVE  c[1 .. k] = turn[k][c[(1 .. k) \ {k}]]
  <2>1. 1 .. k \in SUBSET DOMAIN legs /\ 1 .. k # {}
    <3>1. k \in 1 .. k /\ \A x : x \in 1 .. k => x \in 1 .. N
      BY <1>1
    <3>. QED  BY <1>1, <3>1
  <2>2. Max(1 .. k) = k
    BY <1>1, GreatestOfRange
  <2>3. c[1 .. k] = TakeFrom(c[(1 .. k) \ {Max(1 .. k)}], legs[Max(1 .. k)], venta)
    BY <1>9, <2>1
  <2>. QED  BY <1>4, <1>11, <2>2, <2>3
<1>. HIDE DEF IsFold
<1>. DEFINE f == [k \in 0 .. N |-> c[1 .. k]]
<1>12. Course(f, N, Taken, base, turn)
  <2>1. Runs(c, N, Taken, base, turn)
    BY <1>10, <1>11 DEF Runs
  <2>. QED  BY <1>1, <1>2, <1>3, <2>1, DownwardCourse
<1>13. f[N] = c[DOMAIN legs]
  BY <1>1
<1>. HIDE DEF f
<1>14. f \in [0 .. N -> Taken] /\ f[0] = base
  BY <1>12 DEF Course
<1>15. \A k \in 1 .. N : f[k] = TakeFrom(f[k - 1], legs[k], venta)
  BY <1>1, <1>4, <1>12, <1>14 DEF Course
<1>16. Sell(acc, venta) = [queue |-> f[N].queue, closed |-> f[N].closed]
  <2>1. FoldLeft(LAMBDA a, leg : TakeFrom(a, leg, venta), base, legs) = f[N]
    BY <1>5, <1>8, <1>13
  <2>. QED  BY <2>1 DEF Sell, base, Sale, legs
<1>. QED  BY <1>14, <1>15, <1>16 DEF N, legs, base

Nothing == [queue |-> << >>, closed |-> << >>]

\* A row bought is queued, a row sold takes from the queue.
LEMMA ReadRowIs ==
  ASSUME NEW acc \in Parsed, NEW row \in FileRows
  PROVE  /\ ReadRow(acc, row) \in Parsed
         /\ row.tipo = "compra" => ReadRow(acc, row) = [queue |-> Append(acc.queue, row), closed |-> acc.closed]
         /\ row.tipo # "compra" => ReadRow(acc, row) = Sell(acc, row)
<1>1. Legible(row)
  <2>1. row.price \in Nat /\ None \notin Nat
    BY JournalAssumption DEF FileRows
  <2>. QED  BY <2>1 DEF Legible
<1>2. row.tipo = "compra" => ReadRow(acc, row) = [queue |-> Append(acc.queue, row), closed |-> acc.closed]
  BY <1>1 DEF ReadRow, Parsed
<1>3. row.tipo # "compra" => ReadRow(acc, row) = Sell(acc, row)
  BY <1>1 DEF ReadRow
<1>4. Sell(acc, row) \in Parsed
  <2>1. Len(acc.queue) \in 0 .. Len(acc.queue)
    BY DEF Parsed
  <2>2. PICK end \in Taken : Sell(acc, row) = [queue |-> end.queue, closed |-> end.closed]
    BY <2>1, SellCourse
  <2>. QED  BY <2>2 DEF Taken, Parsed
<1>5. row.tipo = "compra" => ReadRow(acc, row) \in Parsed
  BY <1>2 DEF Parsed
<1>. QED  BY <1>2, <1>3, <1>4, <1>5

\* The import goes through the rows of the sheet.
LEMMA ParseCourse ==
  ASSUME NEW rows \in Seq(FileRows)
  PROVE  \E f \in [0 .. Len(rows) -> Parsed] :
           /\ f[0] = Nothing /\ f[Len(rows)] = Parse(rows)
           /\ \A n \in 1 .. Len(rows) : f[n] = ReadRow(f[n - 1], rows[n])
<1>. DEFINE N == Len(rows)
            turn == [n \in 1 .. N |-> [a \in Parsed |-> ReadRow(a, rows[n])]]
            value(c, T) == IF T = {} THEN Nothing ELSE ReadRow(c[T \ {Max(T)}], rows[Max(T)])
            IsFold(c) == c = [T \in SUBSET DOMAIN rows |-> value(c, T)]
<1>1. N \in Nat /\ DOMAIN rows = 1 .. N /\ \A n \in 1 .. N : rows[n] \in FileRows
  OBVIOUS
<1>2. Nothing \in Parsed
  BY DEF Nothing, Parsed
<1>3. turn \in [1 .. N -> [Parsed -> Parsed]]
  <2>1. \A n \in 1 .. N, a \in Parsed : ReadRow(a, rows[n]) \in Parsed
    BY <1>1, ReadRowIs
  <2>. HIDE DEF N
  <2>. QED  BY <2>1
<1>4. \A n \in 1 .. N, a \in Parsed : turn[n][a] = ReadRow(a, rows[n])
  OBVIOUS
<1>5. Parse(rows) = (CHOOSE c : IsFold(c))[DOMAIN rows]
  BY Zenon DEF Parse, Nothing, FoldLeft, MapThenFoldSet
<1>. HIDE DEF turn, N
<1>6. PICK fold \in [SUBSET (1 .. N) -> Parsed] : Downward(fold, N, Nothing, turn)
  BY <1>1, <1>2, <1>3, DownwardExists
<1>7. IsFold(fold)
  <2>. DEFINE a(T) == IF T = {} THEN Nothing ELSE turn[Max(T)][fold[T \ {Max(T)}]]
  <2>1. \A T \in SUBSET (1 .. N) : a(T) = value(fold, T)
    <3>. TAKE T \in SUBSET (1 .. N)
    <3>1. CASE T # {}
      <4>1. Max(T) \in 1 .. N /\ T \ {Max(T)} \in SUBSET (1 .. N)
        BY <1>1, <3>1, GreatestMember
      <4>2. fold[T \ {Max(T)}] \in Parsed
        BY <1>6, <4>1
      <4>. QED  BY <1>4, <3>1, <4>1, <4>2
    <3>. QED  BY <3>1
  <2>2. fold = [T \in SUBSET (1 .. N) |-> a(T)]
    BY <1>6 DEF Downward
  <2>. HIDE DEF a, value
  <2>. QED  BY <1>1, <2>1, <2>2
<1>8. PICK c : c = CHOOSE x : IsFold(x)
  OBVIOUS
<1>9. IsFold(c)
  <2>. HIDE DEF IsFold
  <2>. QED  BY <1>7, <1>8
<1>10. c[{}] = Nothing
  BY <1>9
<1>11. ASSUME NEW n \in 1 .. N, c[(1 .. n) \ {n}] \in Parsed
       PROVE  c[1 .. n] = turn[n][c[(1 .. n) \ {n}]]
  <2>1. 1 .. n \in SUBSET DOMAIN rows /\ 1 .. n # {}
    <3>1. n \in 1 .. n /\ \A x : x \in 1 .. n => x \in 1 .. N
      BY <1>1
    <3>. QED  BY <1>1, <3>1
  <2>2. Max(1 .. n) = n
    BY <1>1, GreatestOfRange
  <2>3. c[1 .. n] = ReadRow(c[(1 .. n) \ {Max(1 .. n)}], rows[Max(1 .. n)])
    BY <1>9, <2>1
  <2>. QED  BY <1>4, <1>11, <2>2, <2>3
<1>. HIDE DEF IsFold
<1>. DEFINE f == [n \in 0 .. N |-> c[1 .. n]]
<1>12. Course(f, N, Parsed, Nothing, turn)
  <2>1. Runs(c, N, Parsed, Nothing, turn)
    BY <1>10, <1>11 DEF Runs
  <2>. QED  BY <1>1, <1>2, <1>3, <2>1, DownwardCourse
<1>13. f[N] = c[DOMAIN rows]
  BY <1>1
<1>. HIDE DEF f
<1>14. f \in [0 .. N -> Parsed] /\ f[0] = Nothing /\ f[N] = Parse(rows)
  BY <1>5, <1>8, <1>12, <1>13 DEF Course
<1>15. \A n \in 1 .. N : f[n] = ReadRow(f[n - 1], rows[n])
  BY <1>1, <1>4, <1>12, <1>14 DEF Course
<1>. QED  BY <1>14, <1>15 DEF N

-----------------------------------------------------------------------------
(* The line of the shares. *)

\* What rises at each step has risen between any two.
LEMMA RisesThroughout ==
  ASSUME NEW N \in Nat, NEW f \in [0 .. N -> Nat], \A n \in 1 .. N : f[n - 1] <= f[n]
  PROVE  \A i, j \in 0 .. N : i <= j => f[i] <= f[j]
<1>. DEFINE P == {j \in 0 .. N : \A i \in 0 .. j : f[i] <= f[j]}
<1>1. 0 \in P
  OBVIOUS
<1>2. ASSUME NEW j \in 0 .. N - 1, j \in P PROVE j + 1 \in P
  <2>1. j + 1 \in 1 .. N /\ j + 1 - 1 = j /\ f[j] <= f[j + 1]
    <3>1. j + 1 \in 1 .. N /\ j + 1 - 1 = j
      OBVIOUS
    <3>. QED  BY <3>1
  <2>2. ASSUME NEW i \in 0 .. j + 1 PROVE f[i] <= f[j + 1]
    <3>1. CASE i = j + 1
      BY <2>1, <3>1
    <3>2. CASE i # j + 1
      <4>1. i \in 0 .. j
        BY <3>2
      <4>2. f[i] <= f[j] /\ f[i] \in Nat /\ f[j] \in Nat /\ f[j + 1] \in Nat
        BY <1>2, <2>1, <4>1
      <4>. QED  BY <2>1, <4>2
    <3>. QED  BY <3>1, <3>2
  <2>. QED  BY <2>1, <2>2
<1>3. 0 .. N \subseteq P
  <2>. HIDE DEF P
  <2>. QED  BY <1>1, <1>2, UpwardInduction
<1>. QED  BY <1>3

LEMMA SheetTyped ==
  ASSUME NEW sheet \in Sheets
  PROVE  /\ Len(sheet) \in Nat /\ DOMAIN sheet = 1 .. Len(sheet)
         /\ \A n \in 1 .. Len(sheet) : /\ sheet[n].qty \in Nat \ {0}
                                       /\ sheet[n].tipo \in {"compra", "venta"}
<1>. DEFINE Row == [tipo : {"compra", "venta"}, qty : Nat \ {0}]
<1>1. sheet \in Seq(Row)
  BY DEF Sheets
<1>2. \A row \in Row : row.qty \in Nat \ {0} /\ row.tipo \in {"compra", "venta"}
  OBVIOUS
<1>. HIDE DEF Row
<1>3. \A n \in 1 .. Len(sheet) : sheet[n] \in Row
  BY <1>1
<1>. QED  BY <1>1, <1>2, <1>3

LEMMA BoughtSteps ==
  ASSUME NEW sheet \in Sheets
  PROVE  /\ Bought(sheet, 0) = 0
         /\ \A n \in 0 .. Len(sheet) : Bought(sheet, n) \in Nat
         /\ \A n \in 1 .. Len(sheet) :
              Bought(sheet, n) = Bought(sheet, n - 1)
                                   + (IF sheet[n].tipo = "compra" THEN sheet[n].qty ELSE 0)
<1>. DEFINE N == Len(sheet)
            purchases(n) == {m \in 1 .. n : sheet[m].tipo = "compra"}
<1>1. N \in Nat /\ \A n \in 1 .. N : sheet[n].qty \in Nat \ {0}
  BY SheetTyped
<1>2. Bought(sheet, 0) = 0
  <2>1. purchases(0) = {}
    OBVIOUS
  <2>. QED  BY <2>1, SharesEmpty DEF Bought
<1>3. ASSUME NEW n \in 0 .. N
      PROVE  IsFiniteSet(purchases(n)) /\ \A t \in purchases(n) : sheet[t].qty \in Int
  <2>1. IsFiniteSet(1 .. n) /\ purchases(n) \subseteq 1 .. n
    BY FS_Interval
  <2>2. IsFiniteSet(purchases(n))
    BY <2>1, FS_Subset
  <2>. QED  BY <1>1, <2>2
<1>4. ASSUME NEW n \in 1 .. N, Bought(sheet, n - 1) \in Nat
      PROVE  /\ Bought(sheet, n) = Bought(sheet, n - 1)
                                     + (IF sheet[n].tipo = "compra" THEN sheet[n].qty ELSE 0)
             /\ Bought(sheet, n) \in Nat
  <2>1. CASE sheet[n].tipo = "compra"
    <3>1. purchases(n) = purchases(n - 1) \cup {n} /\ n \notin purchases(n - 1) /\ n - 1 \in 0 .. N
      BY <1>1, <2>1
    <3>2. IsFiniteSet(purchases(n - 1)) /\ \A t \in purchases(n - 1) : sheet[t].qty \in Int
      BY <1>3, <3>1
    <3>3. sheet[n].qty \in Int
      BY <1>1
    <3>. HIDE DEF purchases
    <3>4. Shares(sheet, purchases(n - 1) \cup {n}) = Shares(sheet, purchases(n - 1)) + sheet[n].qty
      BY <3>1, <3>2, <3>3, SharesAdd
    <3>5. Shares(sheet, purchases(n)) = Shares(sheet, purchases(n - 1)) + sheet[n].qty
      BY <3>1, <3>4
    <3>6. Bought(sheet, n) = Bought(sheet, n - 1) + sheet[n].qty
      BY <3>5 DEF Bought, purchases
    <3>. QED  BY <1>1, <1>4, <2>1, <3>6
  <2>2. CASE sheet[n].tipo # "compra"
    <3>1. purchases(n) = purchases(n - 1)
      <4>1. \A m : m \in purchases(n) <=> m \in purchases(n - 1)
        BY <2>2
      <4>. HIDE DEF purchases
      <4>. QED  BY <4>1
    <3>2. Bought(sheet, n) = Bought(sheet, n - 1)
      BY <3>1 DEF Bought
    <3>. QED  BY <1>4, <2>2, <3>2
  <2>. QED  BY <2>1, <2>2
<1>. DEFINE P == {n \in 0 .. N : Bought(sheet, n) \in Nat}
<1>5. 0 .. N \subseteq P
  <2>1. 0 \in P
    BY <1>1, <1>2
  <2>2. ASSUME NEW n \in 0 .. N - 1, n \in P PROVE n + 1 \in P
    <3>1. n + 1 \in 1 .. N /\ n + 1 - 1 = n
      BY <1>1
    <3>2. Bought(sheet, n + 1 - 1) \in Nat
      BY <2>2, <3>1
    <3>3. Bought(sheet, n + 1) \in Nat
      BY <1>4, <3>1, <3>2
    <3>. QED  BY <1>1, <3>1, <3>3
  <2>. HIDE DEF P, N
  <2>. QED  BY <1>1, <2>1, <2>2, UpwardInduction
<1>6. \A n \in 1 .. N : Bought(sheet, n - 1) \in Nat
  <2>1. \A n \in 1 .. N : n - 1 \in 0 .. N
    BY <1>1
  <2>. QED  BY <1>5, <2>1
<1>. QED  BY <1>2, <1>4, <1>5, <1>6

LEMMA SoldSteps ==
  ASSUME NEW sheet \in Sheets
  PROVE  /\ Sold(sheet) \in [0 .. Len(sheet) -> Nat]
         /\ Sold(sheet)[0] = 0
         /\ \A n \in 1 .. Len(sheet) :
              Sold(sheet)[n] = IF sheet[n].tipo = "compra" THEN Sold(sheet)[n - 1]
                               ELSE IF Sold(sheet)[n - 1] + sheet[n].qty <= Bought(sheet, n)
                                    THEN Sold(sheet)[n - 1] + sheet[n].qty ELSE Bought(sheet, n)
<1>. DEFINE N == Len(sheet)
            turn == [n \in 1 .. N |-> [x \in Nat |->
                       IF sheet[n].tipo = "compra" THEN x
                       ELSE Min({x + sheet[n].qty, Bought(sheet, n)})]]
            Whole(f) == f = [n \in 0 .. N |->
                               IF n = 0 THEN 0
                               ELSE IF sheet[n].tipo = "compra" THEN f[n - 1]
                               ELSE Min({f[n - 1] + sheet[n].qty, Bought(sheet, n)})]
<1>1. /\ N \in Nat /\ \A n \in 1 .. N : sheet[n].qty \in Nat /\ Bought(sheet, n) \in Nat
  <2>1. \A n \in 1 .. N : n \in 0 .. N
    OBVIOUS
  <2>. QED  BY <2>1, BoughtSteps, SheetTyped
<1>2. \A n \in 1 .. N, x \in Nat :
        /\ Min({x + sheet[n].qty, Bought(sheet, n)}) =
             IF x + sheet[n].qty <= Bought(sheet, n) THEN x + sheet[n].qty ELSE Bought(sheet, n)
        /\ Min({x + sheet[n].qty, Bought(sheet, n)}) \in Nat
  <2>. TAKE n \in 1 .. N, x \in Nat
  <2>1. x + sheet[n].qty \in Nat /\ Bought(sheet, n) \in Nat
    BY <1>1
  <2>. QED  BY <2>1, LessOfTwo
<1>3. turn \in [1 .. N -> [Nat -> Nat]]
  <2>. HIDE DEF N
  <2>. QED  BY <1>2
<1>4. PICK f : Course(f, N, Nat, 0, turn)
  <2>. HIDE DEF turn, N
  <2>. QED  BY <1>1, <1>3, CourseExists
<1>5. /\ f \in [0 .. N -> Nat] /\ f[0] = 0
      /\ \A n \in 1 .. N : f[n] = turn[n][f[n - 1]]
  BY <1>4 DEF Course
<1>6. ASSUME NEW n \in 1 .. N
      PROVE  f[n] = IF sheet[n].tipo = "compra" THEN f[n - 1]
                    ELSE Min({f[n - 1] + sheet[n].qty, Bought(sheet, n)})
  <2>1. f[n - 1] \in Nat
    BY <1>1, <1>5
  <2>. QED  BY <1>5, <2>1
<1>7. Whole(f)
  <2>. DEFINE g == [n \in 0 .. N |->
                      IF n = 0 THEN 0
                      ELSE IF sheet[n].tipo = "compra" THEN f[n - 1]
                      ELSE Min({f[n - 1] + sheet[n].qty, Bought(sheet, n)})]
  <2>1. ASSUME NEW n \in 0 .. N PROVE f[n] = g[n]
    <3>1. CASE n = 0
      BY <1>5, <3>1
    <3>2. CASE n # 0
      <4>1. n \in 1 .. N
        BY <1>1, <3>2
      <4>2. g[n] = IF sheet[n].tipo = "compra" THEN f[n - 1]
                   ELSE Min({f[n - 1] + sheet[n].qty, Bought(sheet, n)})
        BY <3>2
      <4>. HIDE DEF g
      <4>. QED  BY <1>6, <4>1, <4>2
    <3>. QED  BY <3>1, <3>2
  <2>. HIDE DEF turn
  <2>. QED  BY <1>5, <2>1
<1>8. Sold(sheet) = CHOOSE h : Whole(h)
  BY DEF Sold
<1>. DEFINE r == Sold(sheet)
<1>9. Whole(r)
  BY <1>7, <1>8
<1>. HIDE DEF r, turn
<1>10. /\ DOMAIN r = 0 .. N /\ r[0] = 0
       /\ \A n \in 1 .. N : r[n] = IF sheet[n].tipo = "compra" THEN r[n - 1]
                                   ELSE Min({r[n - 1] + sheet[n].qty, Bought(sheet, n)})
  <2>1. DOMAIN r = 0 .. N /\ r[0] = 0
    BY <1>1, <1>9
  <2>2. ASSUME NEW n \in 1 .. N
        PROVE  r[n] = IF sheet[n].tipo = "compra" THEN r[n - 1]
                      ELSE Min({r[n - 1] + sheet[n].qty, Bought(sheet, n)})
    <3>1. n \in 0 .. N /\ n # 0
      BY <1>1
    <3>. QED  BY <1>9, <3>1
  <2>. QED  BY <2>1, <2>2
<1>. DEFINE P == {n \in 0 .. N : r[n] \in Nat}
<1>11. 0 .. N \subseteq P
  <2>1. 0 \in P
    BY <1>1, <1>10
  <2>2. ASSUME NEW n \in 0 .. N - 1, n \in P PROVE n + 1 \in P
    <3>1. n + 1 \in 1 .. N /\ n + 1 - 1 = n
      BY <1>1
    <3>2. r[n] \in Nat
      BY <2>2
    <3>3. r[n + 1] = IF sheet[n + 1].tipo = "compra" THEN r[n]
                     ELSE Min({r[n] + sheet[n + 1].qty, Bought(sheet, n + 1)})
      <4>1. PICK m \in 1 .. N : m = n + 1 /\ m - 1 = n
        BY <3>1
      <4>2. r[m] = IF sheet[m].tipo = "compra" THEN r[m - 1]
                   ELSE Min({r[m - 1] + sheet[m].qty, Bought(sheet, m)})
        BY <1>10
      <4>. QED  BY <4>1, <4>2
    <3>4. Min({r[n] + sheet[n + 1].qty, Bought(sheet, n + 1)}) \in Nat
      BY <1>2, <3>1, <3>2
    <3>. QED  BY <1>1, <3>1, <3>2, <3>3, <3>4
  <2>. HIDE DEF P, N
  <2>. QED  BY <1>1, <2>1, <2>2, UpwardInduction
<1>12. r = [n \in 0 .. N |-> r[n]] /\ \A n \in 0 .. N : r[n] \in Nat
  BY <1>9, <1>11
<1>13. r \in [0 .. N -> Nat]
  BY <1>12
<1>14. ASSUME NEW n \in 1 .. N
       PROVE  r[n] = IF sheet[n].tipo = "compra" THEN r[n - 1]
                     ELSE IF r[n - 1] + sheet[n].qty <= Bought(sheet, n)
                          THEN r[n - 1] + sheet[n].qty ELSE Bought(sheet, n)
  <2>1. r[n - 1] \in Nat
    BY <1>1, <1>13
  <2>. QED  BY <1>2, <1>10, <2>1
<1>. QED  BY <1>10, <1>13, <1>14 DEF r

\* The shares bought and sold after each row.
Lines(sheet, b, s) ==
  /\ b \in [0 .. Len(sheet) -> Nat] /\ s \in [0 .. Len(sheet) -> Nat]
  /\ b[0] = 0 /\ s[0] = 0
  /\ \A n \in 1 .. Len(sheet) :
       IF sheet[n].tipo = "compra" THEN b[n] = b[n - 1] + sheet[n].qty /\ s[n] = s[n - 1]
       ELSE /\ b[n] = b[n - 1]
            /\ s[n] = IF s[n - 1] + sheet[n].qty <= b[n] THEN s[n - 1] + sheet[n].qty ELSE b[n]
  /\ \A i, j \in 0 .. Len(sheet) : i <= j => b[i] <= b[j] /\ s[i] <= s[j]
  /\ \A n \in 0 .. Len(sheet) : s[n] <= b[n]

LEMMA LinesOfSheet ==
  ASSUME NEW sheet \in Sheets
  PROVE  Lines(sheet, [n \in 0 .. Len(sheet) |-> Bought(sheet, n)], Sold(sheet))
<1>. DEFINE N == Len(sheet)
            b == [n \in 0 .. N |-> Bought(sheet, n)]
            s == Sold(sheet)
<1>1. N \in Nat /\ \A n \in 1 .. N : sheet[n].qty \in Nat /\ n \in 0 .. N /\ n - 1 \in 0 .. N
  BY SheetTyped
<1>2. /\ b \in [0 .. N -> Nat] /\ b[0] = 0
      /\ \A n \in 1 .. N : b[n] = b[n - 1] + (IF sheet[n].tipo = "compra" THEN sheet[n].qty ELSE 0)
  BY <1>1, BoughtSteps
<1>3. /\ s \in [0 .. N -> Nat] /\ s[0] = 0
      /\ \A n \in 1 .. N : s[n] = IF sheet[n].tipo = "compra" THEN s[n - 1]
                                  ELSE IF s[n - 1] + sheet[n].qty <= b[n] THEN s[n - 1] + sheet[n].qty ELSE b[n]
  <2>1. \A n \in 1 .. N : b[n] = Bought(sheet, n)
    BY <1>1
  <2>. HIDE DEF b
  <2>. QED  BY <2>1, SoldSteps
<1>. HIDE DEF b, s, N
<1>4. \A n \in 1 .. N :
        IF sheet[n].tipo = "compra" THEN b[n] = b[n - 1] + sheet[n].qty /\ s[n] = s[n - 1]
        ELSE /\ b[n] = b[n - 1]
             /\ s[n] = IF s[n - 1] + sheet[n].qty <= b[n] THEN s[n - 1] + sheet[n].qty ELSE b[n]
  <2>. TAKE n \in 1 .. N
  <2>1. b[n - 1] \in Nat
    BY <1>1, <1>2
  <2>. QED  BY <1>2, <1>3, <2>1
<1>. DEFINE P == {n \in 0 .. N : s[n] <= b[n]}
<1>5. 0 .. N \subseteq P
  <2>1. 0 \in P
    BY <1>1, <1>2, <1>3
  <2>2. ASSUME NEW n \in 0 .. N - 1, n \in P PROVE n + 1 \in P
    <3>1. n + 1 \in 1 .. N /\ n + 1 \in 0 .. N /\ n + 1 - 1 = n
      BY <1>1
    <3>2. /\ s[n] \in Nat /\ b[n] \in Nat /\ s[n + 1] \in Nat /\ b[n + 1] \in Nat
          /\ s[n] <= b[n] /\ sheet[n + 1].qty \in Nat
      BY <1>1, <1>2, <1>3, <2>2, <3>1
    <3>3. IF sheet[n + 1].tipo = "compra" THEN b[n + 1] = b[n] + sheet[n + 1].qty /\ s[n + 1] = s[n]
          ELSE /\ b[n + 1] = b[n]
               /\ s[n + 1] = IF s[n] + sheet[n + 1].qty <= b[n + 1] THEN s[n] + sheet[n + 1].qty ELSE b[n + 1]
      BY <1>4, <3>1
    <3>4. s[n + 1] <= b[n + 1]
      BY <3>2, <3>3
    <3>. QED  BY <3>1, <3>4
  <2>. HIDE DEF P
  <2>. QED  BY <1>1, <2>1, <2>2, UpwardInduction
<1>6. ASSUME NEW n \in 1 .. N PROVE b[n - 1] <= b[n] /\ s[n - 1] <= s[n]
  <2>1. n \in 0 .. N /\ n - 1 \in 0 .. N
    BY <1>1
  <2>2. /\ b[n - 1] \in Nat /\ s[n - 1] \in Nat /\ b[n] \in Nat /\ s[n] \in Nat
        /\ s[n - 1] <= b[n - 1] /\ sheet[n].qty \in Nat
    BY <1>1, <1>2, <1>3, <1>5, <2>1
  <2>. QED  BY <1>4, <2>2
<1>7. \A i, j \in 0 .. N : i <= j => b[i] <= b[j]
  BY <1>1, <1>2, <1>6, RisesThroughout
<1>8. \A i, j \in 0 .. N : i <= j => s[i] <= s[j]
  BY <1>1, <1>3, <1>6, RisesThroughout
<1>9. Lines(sheet, b, s)
  BY <1>2, <1>3, <1>4, <1>5, <1>7, <1>8 DEF Lines, N
<1>. QED  BY <1>9 DEF b, s, N

-----------------------------------------------------------------------------
(* Pieces of the line. *)

\* The rows lie on the line one after the other, each in a place of its own.
Laid(rows, from, to, places) ==
  \E p \in [0 .. Len(rows) -> Nat] :
    /\ p[0] = from /\ p[Len(rows)] = to
    /\ \A k \in 1 .. Len(rows) : <<rows[k], p[k - 1], p[k]>> \in places

LEMMA LaidEmpty ==
  ASSUME NEW x \in Nat, NEW places
  PROVE  Laid(<< >>, x, x, places)
<1>1. PICK p : p = [k \in 0 .. 0 |-> x]
  OBVIOUS
<1>2. p \in [0 .. Len(<< >>) -> Nat] /\ p[0] = x /\ p[Len(<< >>)] = x
  BY <1>1
<1>. QED  BY <1>2 DEF Laid

LEMMA LaidAppend ==
  ASSUME NEW R, NEW rows \in Seq(R), NEW row \in R, NEW from, NEW mid, NEW to \in Nat, NEW places,
         Laid(rows, from, mid, places), <<row, mid, to>> \in places
  PROVE  Laid(Append(rows, row), from, to, places)
<1>. DEFINE N == Len(rows)
            more == Append(rows, row)
<1>1. PICK p \in [0 .. N -> Nat] :
        /\ p[0] = from /\ p[N] = mid
        /\ \A k \in 1 .. N : <<rows[k], p[k - 1], p[k]>> \in places
  BY DEF Laid
<1>2. N \in Nat /\ Len(more) = N + 1 /\ more[N + 1] = row /\ \A k \in 1 .. N : more[k] = rows[k]
  OBVIOUS
<1>. HIDE DEF N, more
<1>3. PICK q : q = [k \in 0 .. N + 1 |-> IF k = N + 1 THEN to ELSE p[k]]
  OBVIOUS
<1>4. q \in [0 .. N + 1 -> Nat] /\ q[0] = from /\ q[N + 1] = to /\ q[N] = mid
  BY <1>1, <1>2, <1>3
<1>5. ASSUME NEW k \in 1 .. N + 1 PROVE <<more[k], q[k - 1], q[k]>> \in places
  <2>1. CASE k = N + 1
    <3>1. k - 1 = N
      BY <1>2, <2>1
    <3>2. more[k] = row /\ q[k] = to /\ q[k - 1] = mid
      BY <1>2, <1>4, <2>1, <3>1
    <3>. QED  BY <3>2
  <2>2. CASE k # N + 1
    <3>1. k \in 1 .. N /\ q[k] = p[k] /\ q[k - 1] = p[k - 1]
      BY <1>2, <1>3, <2>2
    <3>. QED  BY <1>1, <1>2, <3>1
  <2>. QED  BY <2>1, <2>2
<1>6. Laid(more, from, to, places)
  BY <1>2, <1>4, <1>5 DEF Laid
<1>. QED  BY <1>6 DEF more

\* A leg lies within its purchase, a closed trade within its purchase and its sale.
LegPlaces(b, N) ==
  {c \in FileRows \X Nat \X Nat :
     /\ c[1].fecha \in 1 .. N /\ c[3] = c[2] + c[1].qty
     /\ b[c[1].fecha - 1] <= c[2] /\ c[3] <= b[c[1].fecha]}

PairPlaces(b, s, N) ==
  {c \in Pairs \X Nat \X Nat :
     /\ c[1].entry_date \in 1 .. N /\ c[1].exit_date \in 1 .. N /\ c[3] = c[2] + c[1].qty
     /\ b[c[1].entry_date - 1] <= c[2] /\ c[3] <= b[c[1].entry_date]
     /\ s[c[1].exit_date - 1] <= c[2] /\ c[3] <= s[c[1].exit_date]}

LEMMA LegPlace ==
  ASSUME NEW b, NEW N, NEW leg, NEW x, NEW y
  PROVE  <<leg, x, y>> \in LegPlaces(b, N) <=>
           /\ leg \in FileRows /\ x \in Nat /\ y \in Nat
           /\ leg.fecha \in 1 .. N /\ y = x + leg.qty
           /\ b[leg.fecha - 1] <= x /\ y <= b[leg.fecha]
BY DEF LegPlaces

LEMMA PairPlace ==
  ASSUME NEW b, NEW s, NEW N, NEW pair, NEW x, NEW y
  PROVE  <<pair, x, y>> \in PairPlaces(b, s, N) <=>
           /\ pair \in Pairs /\ x \in Nat /\ y \in Nat
           /\ pair.entry_date \in 1 .. N /\ pair.exit_date \in 1 .. N /\ y = x + pair.qty
           /\ b[pair.entry_date - 1] <= x /\ y <= b[pair.entry_date]
           /\ s[pair.exit_date - 1] <= x /\ y <= s[pair.exit_date]
BY DEF PairPlaces

\* The first m rows lie one after the other from x to y, those of ids within the
\* stretch from lo to hi and every other one outside of it.
Stretch(rows, m, p, ids, lo, hi, x, y) ==
  /\ m \in Nat /\ p \in [0 .. m -> Nat] /\ p[0] = x /\ p[m] = y
  /\ ids \subseteq 1 .. m /\ lo \in Nat /\ hi \in Nat
  /\ \A k \in 1 .. m : rows[k].qty \in Nat /\ p[k] = p[k - 1] + rows[k].qty
  /\ \A k \in ids : lo <= p[k - 1] /\ p[k] <= hi
  /\ \A k \in (1 .. m) \ ids : hi <= p[k - 1] \/ p[k] <= lo

\* What the pieces within a stretch add up to is what the stretch shares with the
\* line that all of them lie on.
LEMMA PiecesShare ==
  ASSUME NEW rows, NEW m, NEW p, NEW ids, NEW lo, NEW hi, NEW x, NEW y,
         Stretch(rows, m, p, ids, lo, hi, x, y)
  PROVE  Shares(rows, ids) = Shared(lo, hi, x, y)
<1>0. /\ m \in Nat /\ p \in [0 .. m -> Nat] /\ p[0] = x /\ p[m] = y
      /\ ids \subseteq 1 .. m /\ lo \in Nat /\ hi \in Nat
      /\ \A k \in 1 .. m : rows[k].qty \in Nat /\ p[k] = p[k - 1] + rows[k].qty
      /\ \A k \in ids : lo <= p[k - 1] /\ p[k] <= hi
      /\ \A k \in (1 .. m) \ ids : hi <= p[k - 1] \/ p[k] <= lo
  BY DEF Stretch
<1>. USE <1>0
<1>. DEFINE part(n) == ids \cap 1 .. n
            P == {n \in 0 .. m : Shares(rows, part(n)) = Shared(lo, hi, p[0], p[n])}
<1>1. \A n \in 0 .. m : p[n] \in Nat
  OBVIOUS
<1>2. \A n \in 0 .. m : p[0] <= p[n]
  <2>1. \A k \in 1 .. m : p[k - 1] <= p[k]
    <3>. TAKE k \in 1 .. m
    <3>1. p[k - 1] \in Nat /\ rows[k].qty \in Nat /\ p[k] = p[k - 1] + rows[k].qty
      OBVIOUS
    <3>. QED  BY <3>1
  <2>2. \A i, j \in 0 .. m : i <= j => p[i] <= p[j]
    BY <2>1, RisesThroughout
  <2>. QED  BY <2>2
<1>3. \A n \in 0 .. m : Shared(lo, hi, p[0], p[n]) =
        LET l == IF lo <= p[0] THEN p[0] ELSE lo
            h == IF hi <= p[n] THEN hi ELSE p[n]
        IN  IF l <= h THEN h - l ELSE 0
  <2>. TAKE n \in 0 .. m
  <2>1. lo \in Int /\ hi \in Int /\ p[0] \in Int /\ p[n] \in Int
    BY <1>1
  <2>. QED  BY ONLY <2>1, SharedIs
<1>4. \A n \in 0 .. m : IsFiniteSet(part(n)) /\ \A t \in part(n) : rows[t].qty \in Int
  <2>. TAKE n \in 0 .. m
  <2>1. IsFiniteSet(1 .. n)
    <3>1. 1 \in Int /\ n \in Int
      OBVIOUS
    <3>. QED  BY ONLY <3>1, FS_Interval
  <2>2. part(n) \subseteq 1 .. n /\ part(n) \subseteq 1 .. m
    OBVIOUS
  <2>3. IsFiniteSet(part(n))
    <3>. HIDE DEF part
    <3>. QED  BY <2>1, <2>2, FS_Subset
  <2>. QED  BY <2>2, <2>3
<1>5. 0 \in P
  <2>1. part(0) = {}
    OBVIOUS
  <2>2. Shares(rows, part(0)) = 0
    BY <2>1, SharesEmpty
  <2>3. Shared(lo, hi, p[0], p[0]) = 0
    BY <1>1, <1>3
  <2>. QED  BY <2>2, <2>3
<1>6. ASSUME NEW n \in 0 .. m - 1, n \in P PROVE n + 1 \in P
  <2>1. PICK k \in 1 .. m : k = n + 1 /\ k - 1 = n
    OBVIOUS
  <2>2. /\ p[n] \in Nat /\ p[k] \in Nat /\ p[0] \in Nat /\ p[0] <= p[n]
        /\ rows[k].qty \in Nat /\ p[k] = p[n] + rows[k].qty
    BY <1>1, <1>2, <2>1
  <2>3. Shares(rows, part(n)) = Shared(lo, hi, p[0], p[n])
    BY <1>6
  <2>4. /\ Shared(lo, hi, p[0], p[n]) =
             LET l == IF lo <= p[0] THEN p[0] ELSE lo
                 h == IF hi <= p[n] THEN hi ELSE p[n]
             IN  IF l <= h THEN h - l ELSE 0
        /\ Shared(lo, hi, p[0], p[k]) =
             LET l == IF lo <= p[0] THEN p[0] ELSE lo
                 h == IF hi <= p[k] THEN hi ELSE p[k]
             IN  IF l <= h THEN h - l ELSE 0
    BY <1>3, <2>1
  <2>5. CASE k \in ids
    <3>1. part(k) = part(n) \cup {k} /\ k \notin part(n)
      BY <2>1, <2>5
    <3>2. IsFiniteSet(part(n)) /\ \A t \in part(n) : rows[t].qty \in Int
      <4>. HIDE DEF part
      <4>1. n \in 0 .. m
        OBVIOUS
      <4>. QED  BY <1>4, <4>1
    <3>3. rows[k].qty \in Int
      BY <2>2
    <3>. HIDE DEF part
    <3>4. Shares(rows, part(k)) = Shares(rows, part(n)) + rows[k].qty
      BY ONLY <3>1, <3>2, <3>3, SharesAdd
    <3>5. lo <= p[n] /\ p[k] <= hi
      BY <2>1, <2>5
    <3>6. Shared(lo, hi, p[0], p[k]) = Shared(lo, hi, p[0], p[n]) + rows[k].qty
      <4>1. PICK w, u, v, q \in Nat : w = p[0] /\ u = p[n] /\ v = p[k] /\ q = rows[k].qty
        BY <2>2
      <4>2. w <= u /\ v = u + q /\ lo <= u /\ v <= hi
        BY <2>2, <3>5, <4>1
      <4>3. /\ Shared(lo, hi, p[0], p[n]) = u - (IF lo <= w THEN w ELSE lo)
            /\ Shared(lo, hi, p[0], p[k]) = v - (IF lo <= w THEN w ELSE lo)
        <5>1. /\ Shared(lo, hi, p[0], p[n]) =
                   LET l == IF lo <= w THEN w ELSE lo
                       h == IF hi <= u THEN hi ELSE u
                   IN  IF l <= h THEN h - l ELSE 0
              /\ Shared(lo, hi, p[0], p[k]) =
                   LET l == IF lo <= w THEN w ELSE lo
                       h == IF hi <= v THEN hi ELSE v
                   IN  IF l <= h THEN h - l ELSE 0
          BY <2>4, <4>1, Zenon
        <5>2. /\ (IF hi <= u THEN hi ELSE u) = u /\ (IF hi <= v THEN hi ELSE v) = v
              /\ (IF lo <= w THEN w ELSE lo) <= u /\ u <= v
          <6>1. lo \in Nat /\ hi \in Nat /\ w \in Nat /\ u \in Nat /\ v \in Nat /\ q \in Nat
            BY <4>1
          <6>. QED  BY ONLY <4>2, <6>1
        <5>3. (IF lo <= w THEN w ELSE lo) <= v
          BY <4>1, <4>2, <5>2
        <5>. QED  BY ONLY <5>1, <5>2, <5>3
      <4>4. PICK l \in Nat : l = IF lo <= w THEN w ELSE lo
        BY <4>1
      <4>5. PICK c, d : c = Shared(lo, hi, p[0], p[n]) /\ d = Shared(lo, hi, p[0], p[k])
        OBVIOUS
      <4>6. c = u - l /\ d = v - l
        BY <4>3, <4>4, <4>5
      <4>7. v - l = (u - l) + q
        BY <4>2
      <4>8. d = c + q
        BY ONLY <4>6, <4>7
      <4>. QED  BY <4>1, <4>5, <4>8
    <3>. QED  BY <2>1, <2>3, <3>4, <3>6
  <2>6. CASE k \notin ids
    <3>1. part(k) = part(n)
      <4>1. n \in Nat /\ k = n + 1
        BY <2>1
      <4>2. \A j : j \in part(k) <=> j \in part(n)
        BY ONLY <2>6, <4>1
      <4>. HIDE DEF part
      <4>. QED  BY <4>2
    <3>2. hi <= p[n] \/ p[k] <= lo
      BY <2>1, <2>6
    <3>3. Shared(lo, hi, p[0], p[k]) = Shared(lo, hi, p[0], p[n])
      BY <2>2, <2>4, <3>2
    <3>. HIDE DEF part
    <3>. QED  BY <2>1, <2>3, <3>1, <3>3
  <2>. QED  BY <2>5, <2>6
<1>7. 0 .. m \subseteq P
  <2>. HIDE DEF P
  <2>. QED  BY <1>5, <1>6, UpwardInduction
<1>8. part(m) = ids
  OBVIOUS
<1>9. m \in P
  BY <1>7
<1>. QED  BY <1>0, <1>8, <1>9

-----------------------------------------------------------------------------
(* A sale keeps the rows on the line. *)

\* A sale of q that began at x has sold up to z, of the legs that lie up to v.
Selling(a, z, v, x, q, legPlaces, pairPlaces) ==
  /\ a \in Taken /\ a.left + z = x + q
  /\ x <= z /\ z <= v
  /\ a.left # 0 => z = v /\ a.queue = << >>
  /\ Laid(a.queue, z, v, legPlaces)
  /\ Laid(a.closed, 0, z, pairPlaces)

\* The sale of row n, which began at x, comes to a leg that lies from u to v.
Reached(venta, n, x, u, v, leg, b, s, N) ==
  /\ N \in Nat /\ b \in [0 .. N -> Nat] /\ s \in [0 .. N -> Nat] /\ n \in 1 .. N
  /\ venta \in FileRows /\ venta.fecha = n
  /\ x \in Nat /\ u \in Nat /\ v \in Nat /\ s[n - 1] <= x
  /\ <<leg, u, v>> \in LegPlaces(b, N)
  /\ v <= s[n] \/ x + venta.qty <= s[n]

LEMMA SellingGoesOn ==
  ASSUME NEW N, NEW b, NEW s, NEW n, NEW venta, NEW x, NEW a, NEW z \in Nat, NEW u, NEW v, NEW leg,
         Reached(venta, n, x, u, v, leg, b, s, N),
         Selling(a, z, u, x, venta.qty, LegPlaces(b, N), PairPlaces(b, s, N))
  PROVE  \E y \in Nat : Selling(TakeFrom(a, leg, venta), y, v, x, venta.qty, LegPlaces(b, N), PairPlaces(b, s, N))
<1>. DEFINE LP == LegPlaces(b, N)
            PP == PairPlaces(b, s, N)
            q == venta.qty
            new == TakeFrom(a, leg, venta)
<1>0. /\ x \in Nat /\ u \in Nat /\ v \in Nat /\ s[n - 1] <= x /\ n \in 1 .. N
      /\ venta \in FileRows /\ venta.fecha = n
      /\ v <= s[n] \/ x + q <= s[n]
      /\ <<leg, u, v>> \in LP
  BY DEF Reached
<1>1. /\ leg \in FileRows /\ leg.fecha \in 1 .. N /\ v = u + leg.qty
      /\ b[leg.fecha - 1] <= u /\ v <= b[leg.fecha]
      /\ b[leg.fecha - 1] \in Nat /\ b[leg.fecha] \in Nat /\ leg.qty \in Nat \ {0}
  <2>1. /\ leg \in FileRows /\ leg.fecha \in 1 .. N /\ v = u + leg.qty
        /\ b[leg.fecha - 1] <= u /\ v <= b[leg.fecha]
    BY <1>0, LegPlace
  <2>2. b \in [0 .. N -> Nat] /\ leg.fecha \in 0 .. N /\ leg.fecha - 1 \in 0 .. N
    <3>1. b \in [0 .. N -> Nat] /\ N \in Nat
      BY DEF Reached
    <3>. QED  BY <2>1, <3>1
  <2>3. leg.qty \in Nat \ {0}
    BY <2>1 DEF FileRows
  <2>. QED  BY <2>1, <2>2, <2>3
<1>2. /\ a \in Taken /\ a.left + z = x + q /\ x <= z /\ z <= u
      /\ a.left # 0 => z = u /\ a.queue = << >>
      /\ Laid(a.queue, z, u, LP) /\ Laid(a.closed, 0, z, PP)
  BY DEF Selling
<1>3. /\ a.left \in Nat /\ a.queue \in Seq(FileRows) /\ a.closed \in Seq(Pairs)
      /\ q \in Nat \ {0} /\ s[n] \in Nat /\ s[n - 1] \in Nat
  <2>1. n \in 0 .. N /\ n - 1 \in 0 .. N /\ s \in [0 .. N -> Nat] /\ venta \in FileRows
    BY DEF Reached
  <2>. QED  BY <1>2, <2>1 DEF Taken, FileRows
<1>. HIDE DEF LP, PP, q, new
<1>3a. PICK left, size, top \in Nat : left = a.left /\ size = leg.qty /\ top = s[n]
  BY <1>1, <1>3
<1>3b. /\ q \in Nat /\ x \in Nat /\ u \in Nat /\ v \in Nat /\ z \in Nat /\ left \in Nat /\ size \in Nat \ {0}
       /\ v = u + size /\ left + z = x + q /\ x <= z /\ z <= u
       /\ left # 0 => z = u
       /\ top \in Nat /\ (v <= top \/ x + q <= top)
  BY <1>0, <1>1, <1>2, <1>3, <1>3a
<1>4. ASSUME NEW chunk \in Nat \ {0}, NEW pair, pair = ParsedTrade(leg, venta, chunk),
             z = u, chunk <= leg.qty, chunk <= a.left
      PROVE  Laid(Append(a.closed, pair), 0, z + chunk, PP)
  <2>1. pair \in Pairs /\ pair.qty = chunk /\ pair.entry_date = leg.fecha /\ pair.exit_date = n
    BY <1>0, <1>1, <1>4, PairIs DEF Pairs
  <2>2. z + chunk \in Nat /\ z + chunk <= v /\ z + chunk <= x + q
    <3>1. chunk <= size /\ chunk <= left
      BY <1>3a, <1>4
    <3>. QED  BY <1>3b, <1>4, <3>1
  <2>3. z + chunk <= s[n] /\ s[n - 1] <= z
    <3>1. z + chunk <= top
      BY <1>3b, <2>2
    <3>2. s[n - 1] <= z
      BY <1>0, <1>2, <1>3
    <3>. QED  BY <1>3a, <3>1, <3>2
  <2>4. b[leg.fecha - 1] <= z /\ z + chunk <= b[leg.fecha]
    BY <1>0, <1>1, <1>4, <2>2
  <2>5. <<pair, z, z + chunk>> \in PP
    <3>1. pair.entry_date \in 1 .. N /\ pair.exit_date \in 1 .. N /\ z + chunk = z + pair.qty
      BY <1>0, <1>1, <2>1
    <3>. QED  BY <2>1, <2>2, <2>3, <2>4, <3>1, PairPlace DEF PP
  <2>. QED  BY <1>2, <1>3, <2>1, <2>2, <2>5, LaidAppend
<1>5. ASSUME a.left = 0
      PROVE  \E y \in Nat : Selling(new, y, v, x, q, LP, PP)
  <2>1. new \in Taken /\ new.left = 0 /\ new.closed = a.closed /\ new.queue = Append(a.queue, leg)
    BY <1>0, <1>1, <1>2, <1>5, TakeFromIs DEF new
  <2>3. Laid(Append(a.queue, leg), z, v, LP)
    BY <1>0, <1>1, <1>2, <1>3, LaidAppend
  <2>4. z <= v
    BY <1>0, <1>1, <1>2
  <2>5. Selling(new, z, v, x, q, LP, PP)
    <3>. QED  BY <1>2, <1>5, <2>1, <2>3, <2>4 DEF Selling
  <2>. QED  BY <2>5
<1>6. ASSUME a.left # 0 /\ a.left < leg.qty
      PROVE  \E y \in Nat : Selling(new, y, v, x, q, LP, PP)
  <2>1. PICK rest : rest = [leg EXCEPT !.qty = @ - a.left]
    OBVIOUS
  <2>2. /\ new \in Taken /\ new.left = 0 /\ new.queue = Append(a.queue, rest)
        /\ new.closed = Append(a.closed, ParsedTrade(leg, venta, a.left))
        /\ rest \in FileRows /\ rest.fecha = leg.fecha /\ rest.qty = leg.qty - a.left
    BY <1>0, <1>1, <1>2, <1>6, <2>1, TakeFromIs DEF new
  <2>3. PICK y \in Nat : y = z + a.left
    BY <1>3
  <2>4. y <= v /\ v = y + rest.qty /\ b[rest.fecha - 1] <= y /\ v <= b[rest.fecha]
        /\ x <= y /\ 0 + y = x + q
    <3>1. left < size /\ rest.qty = size - left /\ left # 0 /\ y = z + left
      BY <1>3a, <1>6, <2>2, <2>3
    <3>2. y <= v /\ v = y + (size - left) /\ x <= y /\ 0 + y = x + q /\ u <= y
      BY <1>3b, <3>1
    <3>3. b[leg.fecha - 1] <= y /\ v <= b[leg.fecha]
      BY <1>1, <1>3b, <3>2
    <3>. QED  BY <2>2, <3>1, <3>2, <3>3
  <2>5. <<rest, y, v>> \in LP
    <3>1. rest.fecha \in 1 .. N
      BY <1>1, <2>2
    <3>. QED  BY <1>0, <2>2, <2>4, <3>1, LegPlace DEF LP
  <2>6. Laid(new.queue, y, v, LP)
    <3>1. Laid(<< >>, y, y, LP)
      BY LaidEmpty
    <3>2. a.queue = << >>
      BY <1>2, <1>6
    <3>3. new.queue = Append(<< >>, rest)
      BY <2>2, <3>2
    <3>4. << >> \in Seq(FileRows)
      OBVIOUS
    <3>5. Laid(Append(<< >>, rest), y, v, LP)
      BY <1>0, <2>2, <2>5, <3>1, <3>4, LaidAppend
    <3>. QED  BY <3>3, <3>5
  <2>7. Laid(new.closed, 0, y, PP)
    <3>1. a.left \in Nat \ {0} /\ z = u /\ a.left <= leg.qty /\ a.left <= a.left
      BY <1>0, <1>1, <1>2, <1>3, <1>6
    <3>2. Laid(Append(a.closed, ParsedTrade(leg, venta, a.left)), 0, z + a.left, PP)
      BY <1>4, <3>1
    <3>. QED  BY <2>2, <2>3, <3>2
  <2>8. Selling(new, y, v, x, q, LP, PP)
    <3>. QED  BY <2>2, <2>4, <2>6, <2>7 DEF Selling
  <2>. QED  BY <2>8
<1>7. ASSUME a.left # 0 /\ a.left >= leg.qty
      PROVE  \E y \in Nat : Selling(new, y, v, x, q, LP, PP)
  <2>1. /\ new \in Taken /\ new.left = a.left - leg.qty /\ new.queue = a.queue
        /\ new.closed = Append(a.closed, ParsedTrade(leg, venta, leg.qty))
    BY <1>0, <1>1, <1>2, <1>7, TakeFromIs DEF new
  <2>2. z + leg.qty = v /\ z = u
    BY <1>0, <1>1, <1>2, <1>7
  <2>3. Laid(new.queue, v, v, LP) /\ new.queue = << >>
    <3>1. new.queue = << >>
      BY <1>2, <1>7, <2>1
    <3>. QED  BY <1>0, <3>1, LaidEmpty
  <2>4. Laid(new.closed, 0, v, PP)
    <3>1. leg.qty \in Nat \ {0} /\ z = u /\ leg.qty <= leg.qty /\ leg.qty <= a.left
      BY <1>1, <1>3, <1>7, <2>2
    <3>2. Laid(Append(a.closed, ParsedTrade(leg, venta, leg.qty)), 0, z + leg.qty, PP)
      BY <1>4, <3>1
    <3>. QED  BY <2>1, <2>2, <3>2
  <2>5. new.left + v = x + q /\ x <= v /\ v <= v
    <3>1. new.left = left - size /\ left # 0 /\ size <= left
      BY <1>3a, <1>7, <2>1
    <3>. QED  BY <1>3b, <3>1
  <2>6. Selling(new, v, v, x, q, LP, PP)
    <3>. QED  BY <2>1, <2>3, <2>4, <2>5 DEF Selling
  <2>. QED  BY <1>0, <2>6
<1>8. a.left = 0 \/ a.left < leg.qty \/ a.left >= leg.qty
  BY <1>1, <1>3
<1>9. \E y \in Nat : Selling(new, y, v, x, q, LP, PP)
  BY <1>5, <1>6, <1>7, <1>8
<1>. QED  BY <1>9 DEF new, q, LP, PP

\* What the rows up to n leave: the queue from what is sold to what is bought, the
\* closed trades up to what is sold.
Level(acc, n, b, s, N) ==
  /\ acc \in Parsed
  /\ Laid(acc.queue, s[n], b[n], LegPlaces(b, N))
  /\ Laid(acc.closed, 0, s[n], PairPlaces(b, s, N))

\* Row n of the sheet, as the file is read.
IsRow(row, sheet, n) ==
  row \in FileRows /\ row.fecha = n /\ row.tipo = sheet[n].tipo /\ row.qty = sheet[n].qty

LEMMA SaleKeepsLevel ==
  ASSUME NEW sheet \in Sheets, NEW b, NEW s, Lines(sheet, b, s), NEW n \in 1 .. Len(sheet),
         sheet[n].tipo # "compra", NEW row, IsRow(row, sheet, n),
         NEW acc, Level(acc, n - 1, b, s, Len(sheet))
  PROVE  Level(Sell(acc, row), n, b, s, Len(sheet))
<1>. DEFINE N == Len(sheet)
            LP == LegPlaces(b, N)
            PP == PairPlaces(b, s, N)
            legs == acc.queue
            M == Len(legs)
<1>1. /\ N \in Nat /\ n \in 1 .. N /\ n \in 0 .. N /\ n - 1 \in 0 .. N
      /\ b \in [0 .. N -> Nat] /\ s \in [0 .. N -> Nat]
  <2>1. N \in Nat /\ b \in [0 .. N -> Nat] /\ s \in [0 .. N -> Nat]
    BY SheetTyped DEF Lines
  <2>. QED  BY <2>1
<1>2. PICK x, q, end, top \in Nat : x = s[n - 1] /\ q = row.qty /\ end = b[n] /\ top = s[n]
  BY <1>1 DEF IsRow, FileRows
<1>3. b[n - 1] = end /\ top = (IF x + q <= end THEN x + q ELSE end) /\ q # 0
  BY <1>2 DEF Lines, IsRow, FileRows
<1>4. /\ acc \in Parsed /\ legs \in Seq(FileRows) /\ M \in Nat
      /\ Laid(legs, x, end, LP) /\ Laid(acc.closed, 0, x, PP)
  BY <1>2, <1>3 DEF Level, Parsed
<1>5. row \in FileRows /\ row.fecha = n
  BY DEF IsRow
<1>6. PICK f \in [0 .. M -> Taken] :
        /\ f[0] = Sale(row, acc.closed)
        /\ \A k \in 1 .. M : f[k] = TakeFrom(f[k - 1], legs[k], row)
        /\ Sell(acc, row) = [queue |-> f[M].queue, closed |-> f[M].closed]
  BY <1>4, <1>5, SellCourse
<1>. HIDE DEF N, LP, PP, legs, M
<1>6a. M \in Nat
  BY <1>4
<1>7. PICK p \in [0 .. M -> Nat] :
        /\ p[0] = x /\ p[M] = end
        /\ \A k \in 1 .. M : <<legs[k], p[k - 1], p[k]>> \in LP
  BY <1>4 DEF Laid, M
<1>8. ASSUME NEW k \in 1 .. M PROVE p[k] <= end
  <2>1. \A i \in 1 .. M : p[i - 1] <= p[i]
    <3>. TAKE i \in 1 .. M
    <3>1. <<legs[i], p[i - 1], p[i]>> \in LP
      BY <1>7
    <3>2. legs[i] \in FileRows /\ p[i - 1] \in Nat /\ p[i] = p[i - 1] + legs[i].qty
      BY <3>1, LegPlace DEF LP
    <3>3. legs[i].qty \in Nat
      BY <3>2 DEF FileRows
    <3>. QED  BY <3>2, <3>3
  <2>2. \A i, j \in 0 .. M : i <= j => p[i] <= p[j]
    BY <1>4, <2>1, RisesThroughout
  <2>3. k \in 0 .. M /\ M \in 0 .. M /\ k <= M
    BY <1>4
  <2>. QED  BY <1>7, <2>2, <2>3
<1>. DEFINE P == {k \in 0 .. M : \E z \in Nat : Selling(f[k], z, p[k], x, q, LP, PP)}
<1>9. 0 \in P
  <2>1. f[0] \in Taken /\ f[0].left = q /\ f[0].queue = << >> /\ f[0].closed = acc.closed
    BY <1>2, <1>4, <1>6 DEF Sale
  <2>2. Laid(<< >>, x, x, LP)
    BY LaidEmpty
  <2>3. Selling(f[0], x, x, x, q, LP, PP)
    BY <1>4, <2>1, <2>2 DEF Selling
  <2>. QED  BY <1>4, <1>7, <2>3
<1>10. ASSUME NEW k \in 0 .. M - 1, k \in P PROVE k + 1 \in P
  <2>1. PICK m \in 1 .. M : m = k + 1 /\ m - 1 = k
    <3>1. k + 1 \in 1 .. M /\ k + 1 - 1 = k
      BY <1>6a
    <3>. QED  BY <3>1
  <2>2. PICK z \in Nat : Selling(f[k], z, p[k], x, q, LP, PP)
    BY <1>10
  <2>3. Reached(row, n, x, p[k], p[m], legs[m], b, s, N)
    <3>1. p[k] \in Nat /\ p[m] \in Nat /\ p[m] <= end /\ <<legs[m], p[k], p[m]>> \in LP
      <4>1. k \in 0 .. M /\ m \in 0 .. M
        BY <1>4, <2>1
      <4>. QED  BY <1>7, <1>8, <2>1, <4>1
    <3>2. p[m] <= top \/ x + q <= top
      BY <1>3, <3>1
    <3>3. x <= x
      OBVIOUS
    <3>. QED  BY <1>1, <1>2, <1>5, <3>1, <3>2, <3>3 DEF Reached, LP
  <2>4. \E y \in Nat : Selling(TakeFrom(f[k], legs[m], row), y, p[m], x, q, LP, PP)
    BY <1>2, <2>2, <2>3, SellingGoesOn DEF LP, PP
  <2>5. f[m] = TakeFrom(f[k], legs[m], row) /\ m \in 0 .. M
    <3>1. f[m] = TakeFrom(f[m - 1], legs[m], row)
      BY <1>6
    <3>. QED  BY <1>6a, <2>1, <3>1
  <2>6. \E y \in Nat : Selling(f[m], y, p[m], x, q, LP, PP)
    BY <2>4, <2>5
  <2>. QED  BY <2>1, <2>5, <2>6
<1>11. M \in P
  <2>1. 0 .. M \subseteq P
    <3>. HIDE DEF P
    <3>. QED  BY <1>4, <1>9, <1>10, UpwardInduction
  <2>. QED  BY <1>4, <2>1
<1>12. PICK z \in Nat : Selling(f[M], z, end, x, q, LP, PP)
  BY <1>7, <1>11
<1>13. z = top
  <2>1. PICK left \in Nat : left = f[M].left
    BY <1>12 DEF Selling, Taken
  <2>2. left + z = x + q /\ z <= end /\ (left # 0 => z = end)
    BY <1>12, <2>1 DEF Selling
  <2>. QED  BY <1>3, <2>2
<1>14. Laid(f[M].queue, top, end, LP) /\ Laid(f[M].closed, 0, top, PP) /\ f[M] \in Taken
  BY <1>12, <1>13 DEF Selling
<1>15. Sell(acc, row).queue = f[M].queue /\ Sell(acc, row).closed = f[M].closed
  BY <1>6
<1>16. Sell(acc, row) \in Parsed
  BY <1>6, <1>14 DEF Parsed, Taken
<1>. QED  BY <1>2, <1>14, <1>15, <1>16 DEF Level, LP, PP, N

LEMMA PurchaseKeepsLevel ==
  ASSUME NEW sheet \in Sheets, NEW b, NEW s, Lines(sheet, b, s), NEW n \in 1 .. Len(sheet),
         sheet[n].tipo = "compra", NEW row, IsRow(row, sheet, n),
         NEW acc, Level(acc, n - 1, b, s, Len(sheet))
  PROVE  Level([queue |-> Append(acc.queue, row), closed |-> acc.closed], n, b, s, Len(sheet))
<1>. DEFINE N == Len(sheet)
            LP == LegPlaces(b, N)
<1>1. /\ N \in Nat /\ n \in 1 .. N /\ n \in 0 .. N /\ n - 1 \in 0 .. N
      /\ b \in [0 .. N -> Nat] /\ s \in [0 .. N -> Nat]
  <2>1. N \in Nat /\ b \in [0 .. N -> Nat] /\ s \in [0 .. N -> Nat]
    BY SheetTyped DEF Lines
  <2>. QED  BY <2>1
<1>2. b[n] = b[n - 1] + row.qty /\ s[n] = s[n - 1] /\ row \in FileRows /\ row.fecha = n
  BY DEF Lines, IsRow
<1>3. /\ acc.queue \in Seq(FileRows) /\ acc.closed \in Seq(Pairs)
      /\ Laid(acc.queue, s[n - 1], b[n - 1], LP) /\ Laid(acc.closed, 0, s[n - 1], PairPlaces(b, s, N))
  BY DEF Level, Parsed
<1>. HIDE DEF N
<1>4. <<row, b[n - 1], b[n]>> \in LP
  <2>1. b[n - 1] \in Nat /\ b[n] \in Nat /\ b[row.fecha - 1] <= b[n - 1] /\ b[n] <= b[row.fecha]
    BY <1>1, <1>2
  <2>. QED  BY <1>1, <1>2, <2>1, LegPlace
<1>. HIDE DEF LP
<1>5. Laid(Append(acc.queue, row), s[n], b[n], LP)
  <2>1. b[n] \in Nat
    BY <1>1
  <2>2. Laid(Append(acc.queue, row), s[n - 1], b[n], LP)
    BY <1>2, <1>3, <1>4, <2>1, LaidAppend
  <2>. QED  BY <1>2, <2>2
<1>6. [queue |-> Append(acc.queue, row), closed |-> acc.closed] \in Parsed
  <2>1. Append(acc.queue, row) \in Seq(FileRows)
    BY <1>2, <1>3
  <2>. QED  BY <1>3, <2>1 DEF Parsed
<1>. QED  BY <1>2, <1>3, <1>5, <1>6 DEF Level, LP, N

\* At the end of the sheet the pieces lie on the whole line.
LEMMA ParseLevel ==
  ASSUME NEW sheet \in Sheets, NEW b, NEW s, Lines(sheet, b, s)
  PROVE  Level(Parse(OnDays(sheet)), Len(sheet), b, s, Len(sheet))
<1>. DEFINE N == Len(sheet)
            rows == OnDays(sheet)
<1>1. /\ N \in Nat /\ DOMAIN sheet = 1 .. N
      /\ \A n \in 1 .. N : sheet[n].qty \in Nat \ {0} /\ sheet[n].tipo \in {"compra", "venta"}
  BY SheetTyped
<1>2. \A n \in 1 .. N : IsRow(rows[n], sheet, n)
  <2>. TAKE n \in 1 .. N
  <2>1. rows[n] = [tipo |-> sheet[n].tipo, fecha |-> n, id |-> n, qty |-> sheet[n].qty, price |-> 1,
                   stop |-> None, pnl |-> None, r |-> None]
    BY <1>1 DEF OnDays
  <2>2. n \in Nat
    BY <1>1
  <2>3. rows[n] \in FileRows
    <3>. HIDE DEF rows
    <3>. QED  BY <1>1, <2>1, <2>2 DEF FileRows
  <2>. HIDE DEF rows
  <2>. QED  BY <2>1, <2>3 DEF IsRow
<1>3. rows \in Seq(FileRows) /\ Len(rows) = N
  <2>1. rows = [n \in 1 .. N |-> rows[n]]
    BY <1>1 DEF OnDays
  <2>2. \A n \in 1 .. N : rows[n] \in FileRows
    BY <1>2 DEF IsRow
  <2>. HIDE DEF rows
  <2>3. rows \in [1 .. N -> FileRows]
    BY <2>1, <2>2
  <2>. HIDE DEF N
  <2>. QED  BY <1>1, <2>3
<1>. HIDE DEF N, rows
<1>4. PICK f \in [0 .. N -> Parsed] :
        /\ f[0] = Nothing /\ f[N] = Parse(rows)
        /\ \A n \in 1 .. N : f[n] = ReadRow(f[n - 1], rows[n])
  BY <1>3, ParseCourse
<1>. DEFINE P == {n \in 0 .. N : Level(f[n], n, b, s, N)}
<1>5. 0 \in P
  <2>1. s[0] = 0 /\ b[0] = 0
    BY DEF Lines
  <2>2. Laid(<< >>, 0, 0, LegPlaces(b, N)) /\ Laid(<< >>, 0, 0, PairPlaces(b, s, N))
    BY LaidEmpty
  <2>3. f[0] \in Parsed /\ f[0].queue = << >> /\ f[0].closed = << >>
    BY <1>1, <1>4 DEF Nothing
  <2>4. Level(f[0], 0, b, s, N)
    BY <2>1, <2>2, <2>3 DEF Level
  <2>. QED  BY <1>1, <2>4
<1>6. ASSUME NEW k \in 0 .. N - 1, k \in P PROVE k + 1 \in P
  <2>1. PICK n \in 1 .. N : n = k + 1 /\ n - 1 = k
    BY <1>1
  <2>2. Level(f[n - 1], n - 1, b, s, N) /\ f[n - 1] \in Parsed
    BY <1>6, <2>1 DEF Level
  <2>3. f[n] = ReadRow(f[n - 1], rows[n]) /\ IsRow(rows[n], sheet, n)
    BY <1>2, <1>4
  <2>4. rows[n] \in FileRows /\ rows[n].tipo = sheet[n].tipo
    BY <2>3 DEF IsRow
  <2>5. Level(f[n], n, b, s, N)
    <3>1. CASE sheet[n].tipo = "compra"
      <4>1. f[n] = [queue |-> Append(f[n - 1].queue, rows[n]), closed |-> f[n - 1].closed]
        BY <2>2, <2>3, <2>4, <3>1, ReadRowIs
      <4>. QED  BY <2>2, <2>3, <3>1, <4>1, PurchaseKeepsLevel DEF N
    <3>2. CASE sheet[n].tipo # "compra"
      <4>1. f[n] = Sell(f[n - 1], rows[n])
        BY <2>2, <2>3, <2>4, <3>2, ReadRowIs
      <4>. QED  BY <2>2, <2>3, <3>2, <4>1, SaleKeepsLevel DEF N
    <3>. QED  BY <3>1, <3>2
  <2>. QED  BY <1>1, <2>1, <2>5
<1>7. N \in P
  <2>1. 0 .. N \subseteq P
    <3>. HIDE DEF P
    <3>. QED  BY <1>1, <1>5, <1>6, UpwardInduction
  <2>. QED  BY <1>1, <2>1
<1>8. Level(Parse(rows), N, b, s, N)
  BY <1>4, <1>7
<1>. QED  BY <1>8 DEF N, rows

-----------------------------------------------------------------------------
(* What the pieces add up to. *)

LEMMA QueueShares ==
  ASSUME NEW sheet \in Sheets, NEW b, NEW s, Lines(sheet, b, s),
         NEW acc, Level(acc, Len(sheet), b, s, Len(sheet)), NEW i \in 1 .. Len(sheet)
  PROVE  Shares(acc.queue, {k \in DOMAIN acc.queue : acc.queue[k].fecha = i})
           = Shared(b[i - 1], b[i], s[Len(sheet)], b[Len(sheet)])
<1>. DEFINE N == Len(sheet)
            rows == acc.queue
            m == Len(rows)
            ids == {k \in 1 .. m : rows[k].fecha = i}
            LP == LegPlaces(b, N)
<1>1. /\ N \in Nat /\ b \in [0 .. N -> Nat]
      /\ \A x, y \in 0 .. N : x <= y => b[x] <= b[y]
  BY SheetTyped DEF Lines
<1>2. rows \in Seq(FileRows) /\ m \in Nat /\ DOMAIN rows = 1 .. m
  BY DEF Level, Parsed
<1>3. PICK p \in [0 .. m -> Nat] :
        /\ p[0] = s[N] /\ p[m] = b[N]
        /\ \A k \in 1 .. m : <<rows[k], p[k - 1], p[k]>> \in LP
  BY DEF Level, Laid
<1>4. i \in 0 .. N /\ i - 1 \in 0 .. N /\ i \in Nat
  BY <1>1
<1>5. PICK lo, hi \in Nat : lo = b[i - 1] /\ hi = b[i]
  BY <1>1, <1>4
<1>. HIDE DEF N, rows, m, LP
<1>6. ASSUME NEW k \in 1 .. m
      PROVE  /\ rows[k].qty \in Nat /\ rows[k].fecha \in 1 .. N
             /\ p[k - 1] \in Nat /\ p[k] \in Nat /\ p[k] = p[k - 1] + rows[k].qty
             /\ b[rows[k].fecha - 1] <= p[k - 1] /\ p[k] <= b[rows[k].fecha]
  <2>1. <<rows[k], p[k - 1], p[k]>> \in LP
    BY <1>3
  <2>2. rows[k] \in FileRows
    BY <2>1, LegPlace DEF LP
  <2>. QED  BY <2>1, <2>2, LegPlace DEF LP, FileRows
<1>7. \A k \in ids : lo <= p[k - 1] /\ p[k] <= hi
  BY <1>5, <1>6
<1>8. ASSUME NEW k \in (1 .. m) \ ids PROVE hi <= p[k - 1] \/ p[k] <= lo
  <2>1. PICK a : a = rows[k].fecha
    OBVIOUS
  <2>2. a \in 1 .. N /\ a # i /\ a \in 0 .. N /\ a - 1 \in 0 .. N
    BY <1>1, <1>6, <2>1
  <2>3. PICK from, to \in Nat : from = b[a - 1] /\ to = b[a]
    BY <1>1, <2>2
  <2>4. from <= p[k - 1] /\ p[k] <= to /\ p[k - 1] \in Nat /\ p[k] \in Nat
    BY <1>6, <2>1, <2>3
  <2>5. to <= lo \/ hi <= from
    <3>1. a <= i - 1 \/ i <= a - 1
      BY <1>1, <1>4, <2>2
    <3>. QED  BY <1>1, <1>4, <1>5, <2>2, <2>3, <3>1
  <2>. QED  BY <2>3, <2>4, <2>5
<1>9. \A k \in 1 .. m : rows[k].qty \in Nat /\ p[k] = p[k - 1] + rows[k].qty
  BY <1>6
<1>10. ids \in SUBSET (1 .. m)
  OBVIOUS
<1>. HIDE DEF ids
<1>11. Shares(rows, ids) = Shared(lo, hi, s[N], b[N])
  <2>1. Stretch(rows, m, p, ids, lo, hi, s[N], b[N])
    BY <1>2, <1>3, <1>5, <1>7, <1>8, <1>9, <1>10 DEF Stretch
  <2>. QED  BY <2>1, PiecesShare
<1>12. ids = {k \in DOMAIN rows : rows[k].fecha = i}
  BY <1>2 DEF ids
<1>. QED  BY <1>5, <1>11, <1>12 DEF rows, N

ClosedOf(acc, i, j) ==
  {k \in DOMAIN acc.closed : acc.closed[k].entry_date = i /\ acc.closed[k].exit_date = j}

LEMMA ClosedShares ==
  ASSUME NEW sheet \in Sheets, NEW b, NEW s, Lines(sheet, b, s),
         NEW acc, Level(acc, Len(sheet), b, s, Len(sheet)),
         NEW i \in 1 .. Len(sheet), NEW j \in 1 .. Len(sheet)
  PROVE  Shares(acc.closed, ClosedOf(acc, i, j)) = Shared(b[i - 1], b[i], s[j - 1], s[j])
<1>. DEFINE N == Len(sheet)
            rows == acc.closed
            m == Len(rows)
            ids == {k \in 1 .. m : rows[k].entry_date = i /\ rows[k].exit_date = j}
            PP == PairPlaces(b, s, N)
<1>1. /\ N \in Nat /\ b \in [0 .. N -> Nat] /\ s \in [0 .. N -> Nat]
      /\ \A x, y \in 0 .. N : x <= y => b[x] <= b[y] /\ s[x] <= s[y]
  BY SheetTyped DEF Lines
<1>2. rows \in Seq(Pairs) /\ m \in Nat /\ DOMAIN rows = 1 .. m
  BY DEF Level, Parsed
<1>3. PICK p \in [0 .. m -> Nat] :
        /\ p[0] = 0 /\ p[m] = s[N]
        /\ \A k \in 1 .. m : <<rows[k], p[k - 1], p[k]>> \in PP
  BY DEF Level, Laid
<1>4. i \in 0 .. N /\ i - 1 \in 0 .. N /\ j \in 0 .. N /\ j - 1 \in 0 .. N /\ N \in 0 .. N /\ j <= N
  BY <1>1
<1>5. PICK bl, bh, sl, sh, all \in Nat :
        bl = b[i - 1] /\ bh = b[i] /\ sl = s[j - 1] /\ sh = s[j] /\ all = s[N] /\ sh <= all
  BY <1>1, <1>4
<1>6. PICK lo, hi \in Nat : lo = (IF bl <= sl THEN sl ELSE bl) /\ hi = (IF bh <= sh THEN bh ELSE sh)
  BY <1>5
<1>. HIDE DEF N, rows, m, PP
<1>7. ASSUME NEW k \in 1 .. m
      PROVE  /\ rows[k].qty \in Nat /\ rows[k].entry_date \in 1 .. N /\ rows[k].exit_date \in 1 .. N
             /\ p[k - 1] \in Nat /\ p[k] \in Nat /\ p[k] = p[k - 1] + rows[k].qty
             /\ b[rows[k].entry_date - 1] <= p[k - 1] /\ p[k] <= b[rows[k].entry_date]
             /\ s[rows[k].exit_date - 1] <= p[k - 1] /\ p[k] <= s[rows[k].exit_date]
  <2>1. <<rows[k], p[k - 1], p[k]>> \in PP
    BY <1>3
  <2>2. rows[k] \in Pairs
    BY <2>1, PairPlace DEF PP
  <2>3. rows[k].qty \in Nat
    <3>1. PICK leg \in FileRows, venta \in FileRows, chunk \in Nat \ {0} :
            rows[k] = ParsedTrade(leg, venta, chunk)
      BY <2>2 DEF Pairs
    <3>2. ParsedTrade(leg, venta, chunk).qty = chunk
      BY PairIs
    <3>. QED  BY <3>1, <3>2
  <2>4. PICK pair, u, v : pair = rows[k] /\ u = p[k - 1] /\ v = p[k]
    OBVIOUS
  <2>5. /\ u \in Nat /\ v \in Nat /\ pair.entry_date \in 1 .. N /\ pair.exit_date \in 1 .. N
        /\ v = u + pair.qty
        /\ b[pair.entry_date - 1] <= u /\ v <= b[pair.entry_date]
        /\ s[pair.exit_date - 1] <= u /\ v <= s[pair.exit_date]
    <3>1. <<pair, u, v>> \in PairPlaces(b, s, N)
      BY <2>1, <2>4 DEF PP
    <3>. QED  BY ONLY <3>1, PairPlace
  <2>. QED  BY <2>3, <2>4, <2>5
<1>8. \A k \in ids : lo <= p[k - 1] /\ p[k] <= hi
  <2>. TAKE k \in ids
  <2>1. /\ p[k - 1] \in Nat /\ p[k] \in Nat
        /\ bl <= p[k - 1] /\ p[k] <= bh /\ sl <= p[k - 1] /\ p[k] <= sh
    BY <1>5, <1>7
  <2>. QED  BY <1>6, <2>1
<1>9. ASSUME NEW k \in (1 .. m) \ ids PROVE hi <= p[k - 1] \/ p[k] <= lo
  <2>1. PICK e, x : e = rows[k].entry_date /\ x = rows[k].exit_date
    OBVIOUS
  <2>2. /\ e \in 1 .. N /\ e \in 0 .. N /\ e - 1 \in 0 .. N
        /\ x \in 1 .. N /\ x \in 0 .. N /\ x - 1 \in 0 .. N /\ (e # i \/ x # j)
    <3>1. e \in 1 .. N /\ x \in 1 .. N
      BY <1>7, <2>1
    <3>2. e # i \/ x # j
      BY <2>1
    <3>. QED  BY <1>1, <3>1, <3>2
  <2>3. PICK be, bt, se, st \in Nat : be = b[e - 1] /\ bt = b[e] /\ se = s[x - 1] /\ st = s[x]
    BY <1>1, <2>2
  <2>4. /\ p[k - 1] \in Nat /\ p[k] \in Nat
        /\ be <= p[k - 1] /\ p[k] <= bt /\ se <= p[k - 1] /\ p[k] <= st
    BY <1>7, <2>1, <2>3
  <2>5. CASE e # i
    <3>1. e <= i - 1 \/ i <= e - 1
      <4>1. e \in Int /\ i \in Int
        BY <2>2
      <4>. QED  BY <2>5, <4>1
    <3>2. bt <= bl \/ bh <= be
      BY <1>1, <1>4, <1>5, <2>2, <2>3, <3>1
    <3>. QED  BY <1>6, <2>4, <3>2
  <2>6. CASE x # j
    <3>1. x <= j - 1 \/ j <= x - 1
      <4>1. x \in Int /\ j \in Int
        BY <2>2
      <4>. QED  BY <2>6, <4>1
    <3>2. st <= sl \/ sh <= se
      BY <1>1, <1>4, <1>5, <2>2, <2>3, <3>1
    <3>. QED  BY <1>6, <2>4, <3>2
  <2>. QED  BY <2>2, <2>5, <2>6
<1>10. \A k \in 1 .. m : rows[k].qty \in Nat /\ p[k] = p[k - 1] + rows[k].qty
  BY <1>7
<1>11. ids \in SUBSET (1 .. m)
  OBVIOUS
<1>. HIDE DEF ids
<1>12. Shares(rows, ids) = Shared(lo, hi, 0, all)
  <2>1. Stretch(rows, m, p, ids, lo, hi, 0, all)
    BY <1>2, <1>3, <1>5, <1>6, <1>8, <1>9, <1>10, <1>11 DEF Stretch
  <2>. QED  BY <2>1, PiecesShare
<1>13. Shared(lo, hi, 0, all) = Shared(bl, bh, sl, sh)
  <2>1. /\ lo \in Int /\ hi \in Int /\ 0 \in Int /\ all \in Int
        /\ bl \in Int /\ bh \in Int /\ sl \in Int /\ sh \in Int
    OBVIOUS
  <2>2. Shared(lo, hi, 0, all) =
          LET l == IF lo <= 0 THEN 0 ELSE lo
              h == IF hi <= all THEN hi ELSE all
          IN  IF l <= h THEN h - l ELSE 0
    BY ONLY <2>1, SharedIs
  <2>3. Shared(bl, bh, sl, sh) =
          LET l == IF bl <= sl THEN sl ELSE bl
              h == IF bh <= sh THEN bh ELSE sh
          IN  IF l <= h THEN h - l ELSE 0
    BY ONLY <2>1, SharedIs
  <2>4. hi <= all /\ (IF lo <= 0 THEN 0 ELSE lo) = lo
    BY <1>5, <1>6
  <2>. QED  BY <1>6, <2>2, <2>3, <2>4
<1>14. ids = ClosedOf(acc, i, j)
  BY <1>2 DEF ids, rows, ClosedOf
<1>. QED  BY <1>5, <1>12, <1>13, <1>14 DEF rows

-----------------------------------------------------------------------------
(* Whatever was bought and sold, one row a day, the import closes of every *)
(* purchase exactly the shares that the sales took of it in the order of   *)
(* both, and keeps the rest (_import_csv_uncommitted).  The invariant of   *)
(* the runs says so of a sample of sheets.                                 *)
THEOREM ImportIsFirstInFirstOut ==
  FirstInFirstOut(Sheets) /\ (Spec => []FifoMatches)
<1>1. ASSUME NEW sheet \in Sheets
      PROVE  LET end == Parse(OnDays(sheet))
                 closed(i, j) == {k \in DOMAIN end.closed :
                                    end.closed[k].entry_date = i /\ end.closed[k].exit_date = j}
                 left(i) == {k \in DOMAIN end.queue : end.queue[k].fecha = i}
                 sold == Sold(sheet)
             IN  \A i \in DOMAIN sheet : sheet[i].tipo = "compra" =>
                   /\ \A j \in DOMAIN sheet : sheet[j].tipo = "venta" =>
                        Shares(end.closed, closed(i, j))
                          = Shared(Bought(sheet, i - 1), Bought(sheet, i), sold[j - 1], sold[j])
                   /\ Shares(end.queue, left(i))
                        = Shared(Bought(sheet, i - 1), Bought(sheet, i),
                                 sold[Len(sheet)], Bought(sheet, Len(sheet)))
  <2>. DEFINE N == Len(sheet)
              b == [n \in 0 .. N |-> Bought(sheet, n)]
              s == Sold(sheet)
              end == Parse(OnDays(sheet))
  <2>1. Lines(sheet, b, s)
    BY LinesOfSheet
  <2>2. N \in Nat /\ DOMAIN sheet = 1 .. N
    BY SheetTyped
  <2>3. \A n \in 0 .. N : b[n] = Bought(sheet, n)
    OBVIOUS
  <2>. HIDE DEF b, s, end
  <2>4. Level(end, N, b, s, N)
    BY <2>1, ParseLevel DEF end
  <2>. HIDE DEF N
  <2>5. ASSUME NEW i \in 1 .. N
        PROVE  Shares(end.queue, {k \in DOMAIN end.queue : end.queue[k].fecha = i})
                 = Shared(Bought(sheet, i - 1), Bought(sheet, i), s[N], Bought(sheet, N))
    <3>1. b[i - 1] = Bought(sheet, i - 1) /\ b[i] = Bought(sheet, i) /\ b[N] = Bought(sheet, N)
      <4>1. i - 1 \in 0 .. N /\ i \in 0 .. N /\ N \in 0 .. N
        BY <2>2
      <4>. QED  BY <2>3, <4>1
    <3>2. Shares(end.queue, {k \in DOMAIN end.queue : end.queue[k].fecha = i})
            = Shared(b[i - 1], b[i], s[N], b[N])
      BY <2>1, <2>4, QueueShares DEF N
    <3>. QED  BY <3>1, <3>2
  <2>6. ASSUME NEW i \in 1 .. N, NEW j \in 1 .. N
        PROVE  Shares(end.closed, {k \in DOMAIN end.closed :
                                     end.closed[k].entry_date = i /\ end.closed[k].exit_date = j})
                 = Shared(Bought(sheet, i - 1), Bought(sheet, i), s[j - 1], s[j])
    <3>1. b[i - 1] = Bought(sheet, i - 1) /\ b[i] = Bought(sheet, i)
      <4>1. i - 1 \in 0 .. N /\ i \in 0 .. N
        BY <2>2
      <4>. QED  BY <2>3, <4>1
    <3>2. Shares(end.closed, ClosedOf(end, i, j)) = Shared(b[i - 1], b[i], s[j - 1], s[j])
      BY <2>1, <2>4, ClosedShares DEF N
    <3>. QED  BY <3>1, <3>2 DEF ClosedOf
  <2>. QED  BY <2>2, <2>5, <2>6 DEF N, s, end
<1>2. FirstInFirstOut(Sheets)
  BY <1>1 DEF FirstInFirstOut
<1>3. SampleSheets \subseteq Sheets
  <2>1. ASSUME NEW n \in 1 .. 5, NEW sheet \in [1 .. n -> [tipo : {"compra", "venta"}, qty : 1 .. 3]]
        PROVE  sheet \in Sheets
    <3>. DEFINE Row == [tipo : {"compra", "venta"}, qty : Nat \ {0}]
    <3>1. [tipo : {"compra", "venta"}, qty : 1 .. 3] \subseteq Row
      OBVIOUS
    <3>. HIDE DEF Row
    <3>2. sheet \in [1 .. n -> Row] /\ n \in Nat
      BY <3>1
    <3>3. sheet \in Seq(Row)
      BY <3>2
    <3>. QED  BY <3>3 DEF Sheets, Row
  <2>. QED  BY <2>1 DEF SampleSheets
<1>4. FifoMatches
  <2>1. FirstInFirstOut(SampleSheets)
    BY <1>2, <1>3, Zenon DEF FirstInFirstOut
  <2>. QED  BY <2>1 DEF FifoMatches
<1>. QED  BY <1>2, <1>4, PTL

-----------------------------------------------------------------------------
(* Books whose decisions follow one another. *)

Leader(book, d) == DecisionRep(book, Legs(book, d))

\* The rows of a book are typed as those of the table.
Ledger(book) ==
  /\ IsFiniteSet(DOMAIN book) /\ DOMAIN book \subseteq Nat
  /\ \A t \in DOMAIN book :
       /\ book[t].entry_date \in Nat /\ book[t].entry_price \in Nat /\ book[t].qty \in Nat \ {0}
       /\ book[t].stop_price \in Nat \cup {None} /\ book[t].initial_stop_price \in Nat \cup {None}
       /\ book[t].exit_date \in Nat \cup {None} /\ book[t].exit_price \in Nat \cup {None}
       /\ book[t].parent_trade_id \in Nat \cup {None}
       /\ book[t].pnl_dollars \in Int \cup {None} /\ book[t].r_multiple \in (Int \X Int) \cup {None}

\* What BackupRestores asks of the journal, said of a book.
Orderly(book) ==
  /\ Ledger(book) /\ InOrder(book)
  /\ \A x, y \in DOMAIN book : DecisionOf(book, x) = DecisionOf(book, y) <=> Held(book, x, y)
  /\ \A t \in DOMAIN book : ~Open(book[t]) =>
       /\ book[t].exit_price # None
       /\ ~EndedBefore(book[t], book[Leader(book, DecisionOf(book, t))].entry_date)
       /\ DeriveR(book[t]) = None => ~AtRisk(book[Leader(book, DecisionOf(book, t))])

LEMMA OrderlyBook ==
  ASSUME TypeOK, Ordered, RatedAlike
  PROVE  Orderly(Book)
<1>1. DOMAIN Book = Rows /\ \A t \in Rows : Book[t] = trade[t]
  BY DEF Book
<1>2. Rows \subseteq Nat /\ IsFiniteSet(Rows)
  <2>1. MaxTrades \in Nat
    BY JournalAssumption
  <2>2. IsFiniteSet(Ids)
    BY <2>1, FS_Interval DEF Ids
  <2>3. Rows \subseteq Ids /\ Ids \subseteq Nat
    BY <2>1 DEF Rows, Ids
  <2>. QED  BY <2>2, <2>3, FS_Subset
<1>3. Ledger(Book)
  <2>1. ASSUME NEW t \in Rows
        PROVE  /\ trade[t].entry_date \in Nat /\ trade[t].entry_price \in Nat /\ trade[t].qty \in Nat \ {0}
               /\ trade[t].stop_price \in Nat \cup {None} /\ trade[t].initial_stop_price \in Nat \cup {None}
               /\ trade[t].exit_date \in Nat \cup {None} /\ trade[t].exit_price \in Nat \cup {None}
               /\ trade[t].parent_trade_id \in Nat \cup {None}
               /\ trade[t].pnl_dollars \in Int \cup {None} /\ trade[t].r_multiple \in (Int \X Int) \cup {None}
    <3>1. trade[t] \in Trade
      BY <2>1 DEF TypeOK, TradesTyped, Rows
    <3>2. Dates \subseteq Nat /\ EntryPrices \cup Stops \cup ExitPrices \subseteq Nat /\ Ids \subseteq Nat
      BY JournalAssumption DEF Ids
    <3>. QED  BY <3>1, <3>2 DEF Trade
  <2>. QED  BY <1>1, <1>2, <2>1 DEF Ledger
<1>4. InOrder(Book)
  BY <1>1 DEF Ordered, DatesInOrder, InOrder
<1>5. \A t \in Rows : DecisionOf(Book, t) = Decision(t)
  BY <1>1 DEF DecisionOf, Decision, Parent
<1>6. ASSUME NEW x \in Rows, NEW y \in Rows
      PROVE  DecisionOf(Book, x) = DecisionOf(Book, y) <=> Held(Book, x, y)
  <2>1. \A a, c \in Rows : Overlaps(Book, a, c) <=> Overlap(a, c)
    BY <1>1 DEF Overlaps, Overlap
  <2>2. Held(Book, x, y) <=> HeldThrough(x, y)
    BY <1>1, <2>1 DEF Held, HeldThrough
  <2>3. Decision(x) = Decision(y) <=> HeldThrough(x, y)
    BY DEF Ordered, DecisionsAreEpisodes
  <2>. QED  BY <1>5, <2>2, <2>3
<1>7. ASSUME NEW t \in Rows, ~Open(trade[t])
      PROVE  /\ trade[t].exit_price # None
             /\ ~EndedBefore(trade[t], Book[Leader(Book, DecisionOf(Book, t))].entry_date)
             /\ DeriveR(trade[t]) = None => ~AtRisk(Book[Leader(Book, DecisionOf(Book, t))])
  <2>. DEFINE l == DecisionRep(Book, Legs(Book, Decision(t)))
  <2>1. l = Leader(Book, DecisionOf(Book, t))
    BY <1>5 DEF Leader
  <2>2. l \in Rows
    <3>1. t \in Legs(Book, Decision(t)) /\ Legs(Book, Decision(t)) \subseteq Rows
      BY <1>1, <1>5 DEF Legs
    <3>. DEFINE legs == Legs(Book, Decision(t))
                tops == {x \in legs : Book[x].parent_trade_id = None}
    <3>2. l = Min(IF tops # {} THEN tops ELSE legs)
      BY DEF DecisionRep
    <3>3. tops \subseteq legs /\ legs \subseteq Nat /\ legs # {}
      BY <1>2, <3>1
    <3>. HIDE DEF tops, legs, l
    <3>4. Min(legs) \in legs /\ (tops # {} => Min(tops) \in tops)
      BY <3>3, MinExists
    <3>5. l \in legs
      BY <3>2, <3>3, <3>4
    <3>. QED  BY <3>1, <3>5 DEF legs
  <2>3. Book[l] = trade[l]
    BY <1>1, <2>2
  <2>. HIDE DEF l
  <2>4. /\ trade[t].exit_price # None /\ ~EndedBefore(trade[t], trade[l].entry_date)
        /\ DeriveR(trade[t]) = None => ~AtRisk(trade[l])
    BY <1>7 DEF Ordered, RatedAlike, l
  <2>. QED  BY <2>1, <2>3, <2>4
<1>. QED  BY <1>1, <1>3, <1>4, <1>6, <1>7 DEF Orderly

\* The leader of a decision is a leg of it.
LEMMA LeaderIs ==
  ASSUME NEW book, Ledger(book), NEW d \in Decisions(book)
  PROVE  /\ Legs(book, d) \subseteq DOMAIN book /\ IsFiniteSet(Legs(book, d))
         /\ Leader(book, d) \in Legs(book, d) /\ Leader(book, d) \in DOMAIN book
         /\ DecisionOf(book, Leader(book, d)) = d
<1>. DEFINE legs == Legs(book, d)
            tops == {x \in legs : book[x].parent_trade_id = None}
            l == Leader(book, d)
<1>1. legs \subseteq DOMAIN book /\ DOMAIN book \subseteq Nat /\ IsFiniteSet(legs)
  <2>1. legs \subseteq DOMAIN book
    BY DEF Legs
  <2>. QED  BY <2>1, FS_Subset DEF Ledger
<1>2. legs # {}
  BY DEF Decisions, Legs
<1>3. l = Min(IF tops # {} THEN tops ELSE legs)
  BY DEF Leader, DecisionRep
<1>4. tops \subseteq legs /\ legs \subseteq Nat
  BY <1>1
<1>. HIDE DEF tops, legs, l
<1>5. Min(legs) \in legs /\ (tops # {} => Min(tops) \in tops)
  BY <1>2, <1>4, MinExists
<1>6. l \in legs
  BY <1>3, <1>4, <1>5
<1>7. DecisionOf(book, l) = d
  BY <1>6 DEF legs, Legs
<1>. QED  BY <1>1, <1>6, <1>7 DEF legs, l

\* Where the episode of a decision starts, and which decision comes first.
Start(book, d) == EpisodeStart(book, Leader(book, d))
Before(book, d, e) == Precedes(book, Start(book, d), Start(book, e))

LEMMA LedgerDated ==
  ASSUME NEW book, Ledger(book)
  PROVE  Dated(book)
BY DEF Ledger, Dated

LEMMA LegsStart ==
  ASSUME NEW book, Orderly(book), NEW t \in DOMAIN book
  PROVE  /\ DecisionOf(book, t) \in Decisions(book)
         /\ EpisodeStart(book, t) = Start(book, DecisionOf(book, t))
<1>. DEFINE d == DecisionOf(book, t)
            l == Leader(book, d)
<1>1. d \in Decisions(book)
  BY DEF Decisions
<1>2. l \in DOMAIN book /\ DecisionOf(book, l) = d
  BY <1>1, LeaderIs DEF Orderly
<1>. HIDE DEF d, l
<1>3. Dated(book) /\ InOrder(book) /\ Held(book, t, l)
  BY <1>2, LedgerDated DEF Orderly, d
<1>4. Representative(book, t) = Representative(book, l)
  BY <1>2, <1>3, EpisodesAreHeld
<1>5. EpisodeStart(book, t) = EpisodeStart(book, l)
  BY <1>2, <1>3, <1>4, RepresentativeStands
<1>. QED  BY <1>1, <1>5 DEF d, l, Start

\* Of two decisions one has ended before any leg of the other begins.
LEMMA DecisionsInTurn ==
  ASSUME NEW book, Orderly(book), NEW d \in Decisions(book), NEW e \in Decisions(book)
  PROVE  /\ d = e \/ Before(book, d, e) \/ Before(book, e, d)
         /\ ~(Before(book, d, e) /\ Before(book, e, d)) /\ ~Before(book, d, d)
         /\ Before(book, d, e) =>
              \A x \in Legs(book, d), y \in Legs(book, e) : EndedBefore(book[x], book[y].entry_date)
<1>. DEFINE s == Start(book, d)
            z == Start(book, e)
            l == Leader(book, d)
            k == Leader(book, e)
<1>1. Dated(book) /\ InOrder(book)
  BY LedgerDated DEF Orderly
<1>2. /\ l \in DOMAIN book /\ DecisionOf(book, l) = d
      /\ k \in DOMAIN book /\ DecisionOf(book, k) = e
      /\ s = EpisodeStart(book, l) /\ z = EpisodeStart(book, k)
  BY LeaderIs DEF Orderly, Start
<1>. HIDE DEF s, z, l, k
<1>3. IsStart(book, s, l) /\ IsStart(book, z, k)
  BY <1>1, <1>2, StartExists
<1>4. s \in DOMAIN book /\ z \in DOMAIN book
  BY <1>3 DEF IsStart
<1>5. s = z => d = e
  <2>. SUFFICES ASSUME s = z PROVE d = e
    OBVIOUS
  <2>1. Representative(book, l) = Representative(book, k)
    BY <1>1, <1>2, RepresentativeStands
  <2>2. Held(book, l, k)
    BY <1>1, <1>2, <2>1, EpisodesAreHeld
  <2>. QED  BY <1>2, <2>2 DEF Orderly
<1>6. s = z \/ Precedes(book, s, z) \/ Precedes(book, z, s)
  BY <1>1, <1>4, PrecedesOrders DEF Upto
<1>7. ~(Precedes(book, s, z) /\ Precedes(book, z, s)) /\ ~Precedes(book, s, s)
  BY <1>1, <1>4, PrecedesOrders
<1>8. ASSUME Precedes(book, s, z), NEW x \in Legs(book, d), NEW y \in Legs(book, e)
      PROVE  EndedBefore(book[x], book[y].entry_date)
  <2>1. /\ x \in DOMAIN book /\ DecisionOf(book, x) = d
        /\ y \in DOMAIN book /\ DecisionOf(book, y) = e
    BY <1>8 DEF Legs
  <2>2. EpisodeStart(book, x) = s /\ EpisodeStart(book, y) = z
    BY <2>1, LegsStart DEF s, z
  <2>3. IsStart(book, s, x) /\ IsStart(book, z, y)
    BY <1>1, <2>1, <2>2, StartExists
  <2>4. StartsEpisode(book, z) /\ Upto(book, z, y) /\ Precedes(book, x, z)
    BY <1>4, <1>8, <2>3 DEF IsStart
  <2>5. EndedBefore(book[x], book[z].entry_date)
    BY <2>1, <2>4 DEF StartsEpisode
  <2>6. /\ book[z].entry_date \in Nat /\ book[y].entry_date \in Nat
        /\ book[z].entry_date <= book[y].entry_date
    BY <1>1, <1>4, <2>1, <2>4, PrecedesOrders DEF Dated, Upto
  <2>. QED  BY <1>1, <2>1, <2>5, <2>6, EndedLater
<1>. QED  BY <1>5, <1>6, <1>7, <1>8 DEF Before, s, z

-----------------------------------------------------------------------------
(* The rows of a backup, and their order. *)

LEMMA SharesPositive ==
  ASSUME NEW rows, NEW ids, IsFiniteSet(ids), ids # {}, \A t \in ids : rows[t].qty \in Nat \ {0}
  PROVE  Shares(rows, ids) \in Nat \ {0}
<1>. DEFINE P == {T \in SUBSET ids : Shares(rows, T) \in Nat /\ (T # {} => Shares(rows, T) # 0)}
<1>1. {} \in P
  BY SharesEmpty
<1>2. ASSUME NEW T \in SUBSET ids, NEW x \in ids \ T, T \in P PROVE T \cup {x} \in P
  <2>1. IsFiniteSet(T) /\ (\A t \in T : rows[t].qty \in Int) /\ x \notin T /\ rows[x].qty \in Int
    BY FS_Subset
  <2>2. Shares(rows, T \cup {x}) = Shares(rows, T) + rows[x].qty
    BY <2>1, SharesAdd
  <2>3. Shares(rows, T) \in Nat /\ rows[x].qty \in Nat \ {0}
    BY <1>2
  <2>4. T \cup {x} \in SUBSET ids
    OBVIOUS
  <2>. QED  BY <2>2, <2>3, <2>4
<1>. HIDE DEF P
<1>3. ids \in P
  BY <1>1, <1>2, SetInduction
<1>. QED  BY <1>3 DEF P

Owner(book, row) == DecisionOf(book, row.id)
IsCompra(book, row) ==
  /\ row.tipo = "compra" /\ row.id = Leader(book, Owner(book, row))
  /\ row = Compra(book, Owner(book, row))
IsVenta(book, row) ==
  /\ row.tipo = "venta" /\ ~Open(book[row.id]) /\ row = Venta(book, row.id)

LEMMA CompraIs ==
  ASSUME NEW book, Orderly(book), NEW d \in Decisions(book)
  PROVE  LET row == Compra(book, d)
         IN  /\ row \in FileRows /\ row \in SheetRows(book)
             /\ IsCompra(book, row) /\ Owner(book, row) = d /\ row.id \in DOMAIN book
             /\ row.fecha = book[Leader(book, d)].entry_date
             /\ row.qty = TotalQty(book, Legs(book, d))
<1>. DEFINE row == Compra(book, d)
            l == Leader(book, d)
<1>1. l \in DOMAIN book /\ DecisionOf(book, l) = d /\ l \in Legs(book, d)
      /\ IsFiniteSet(Legs(book, d)) /\ Legs(book, d) \subseteq DOMAIN book
  BY LeaderIs DEF Orderly
<1>2. /\ row.tipo = "compra" /\ row.fecha = book[l].entry_date /\ row.id = l
      /\ row.qty = TotalQty(book, Legs(book, d)) /\ row.price = book[l].entry_price
      /\ row.stop = StopForR(book[l]) /\ row.pnl = None /\ row.r = None
  BY DEF Compra, Leader
<1>3. TotalQty(book, Legs(book, d)) \in Nat \ {0}
  <2>1. Legs(book, d) # {} /\ \A t \in Legs(book, d) : book[t].qty \in Nat \ {0}
    BY <1>1 DEF Orderly, Ledger
  <2>. QED  BY <1>1, <2>1, SharesPositive DEF TotalQty
<1>4. book[l].entry_date \in Nat /\ book[l].entry_price \in Nat /\ l \in Nat /\ StopForR(book[l]) \in Nat \cup {None}
  BY <1>1 DEF Orderly, Ledger, StopForR
<1>5. row \in FileRows
  <2>1. row = [tipo |-> "compra", fecha |-> book[l].entry_date, id |-> l,
               qty |-> TotalQty(book, Legs(book, d)), price |-> book[l].entry_price,
               stop |-> StopForR(book[l]), pnl |-> None, r |-> None]
    BY DEF Compra, Leader
  <2>. HIDE DEF row, l
  <2>. QED  BY <1>3, <1>4, <2>1 DEF FileRows
<1>. HIDE DEF l
<1>6. Owner(book, row) = d
  BY <1>1, <1>2 DEF Owner
<1>7. IsCompra(book, row)
  BY <1>2, <1>6 DEF IsCompra, l
<1>8. row \in SheetRows(book)
  BY DEF SheetRows
<1>. QED  BY <1>1, <1>2, <1>5, <1>6, <1>7, <1>8 DEF l

LEMMA VentaIs ==
  ASSUME NEW book, Orderly(book), NEW t \in DOMAIN book, ~Open(book[t])
  PROVE  LET row == Venta(book, t)
         IN  /\ row \in FileRows /\ row \in SheetRows(book)
             /\ IsVenta(book, row) /\ Owner(book, row) = DecisionOf(book, t) /\ row.id = t
             /\ row.fecha = book[t].exit_date /\ row.fecha \in Nat
             /\ row.qty = book[t].qty
             /\ row.fecha >= book[Leader(book, DecisionOf(book, t))].entry_date
<1>. DEFINE row == Venta(book, t)
            l == Leader(book, DecisionOf(book, t))
<1>1. l \in DOMAIN book
  BY LeaderIs DEF Orderly, Decisions
<1>2. book[t].exit_price # None /\ ~EndedBefore(book[t], book[l].entry_date)
  BY DEF Orderly
<1>3. book[t].exit_date \in Nat /\ book[t].exit_price \in Nat /\ book[t].qty \in Nat \ {0} /\ t \in Nat
      /\ book[t].pnl_dollars \in Int \cup {None} /\ book[l].entry_date \in Nat
  BY <1>1, <1>2 DEF Orderly, Ledger, Open
<1>4. book[t].exit_date >= book[l].entry_date
  BY <1>2, <1>3 DEF EndedBefore
<1>5. DeriveR(book[t]) \in (Int \X Int) \cup {None}
  <2>1. CASE book[t].r_multiple # None
    BY <2>1 DEF DeriveR, Orderly, Ledger
  <2>2. CASE book[t].r_multiple = None /\ AtRisk(book[t])
    <3>1. StopForR(book[t]) \in Nat /\ book[t].entry_price \in Nat
      BY <2>2 DEF AtRisk, StopForR, Orderly, Ledger
    <3>2. RMultiple(book[t].exit_price, book[t].entry_price, StopForR(book[t])) \in Int \X Int
      BY <1>3, <3>1 DEF RMultiple
    <3>. QED  BY <1>2, <2>2, <3>2 DEF DeriveR
  <2>. QED  BY <2>1, <2>2 DEF DeriveR
<1>6. row = [tipo |-> "venta", fecha |-> book[t].exit_date, id |-> t,
             qty |-> book[t].qty, price |-> book[t].exit_price,
             stop |-> None, pnl |-> book[t].pnl_dollars, r |-> DeriveR(book[t])]
  BY DEF Venta
<1>7. row.tipo = "venta" /\ row.id = t /\ row.fecha = book[t].exit_date /\ row.qty = book[t].qty
  BY <1>6
<1>8. row \in SheetRows(book)
  BY DEF SheetRows
<1>. HIDE DEF row, l
<1>9. row \in FileRows
  BY <1>3, <1>5, <1>6 DEF FileRows
<1>10. IsVenta(book, row)
  BY <1>7 DEF IsVenta, row
<1>. QED  BY <1>3, <1>4, <1>7, <1>8, <1>9, <1>10 DEF Owner, row, l

LEMMA RowIs ==
  ASSUME NEW book, Orderly(book), NEW row \in SheetRows(book)
  PROVE  /\ row \in FileRows /\ row.id \in DOMAIN book /\ Owner(book, row) \in Decisions(book)
         /\ IsCompra(book, row) \/ IsVenta(book, row)
         /\ row.id \in Legs(book, Owner(book, row))
<1>1. CASE row \in {Compra(book, d) : d \in Decisions(book)}
  <2>1. PICK d \in Decisions(book) : row = Compra(book, d)
    BY <1>1
  <2>. QED  BY <2>1, CompraIs DEF Legs, Owner
<1>2. CASE row \in {Venta(book, t) : t \in {x \in DOMAIN book : ~Open(book[x])}}
  <2>1. PICK t \in DOMAIN book : ~Open(book[t]) /\ row = Venta(book, t)
    BY <1>2
  <2>2. DecisionOf(book, t) \in Decisions(book)
    BY DEF Decisions
  <2>. QED  BY <2>1, <2>2, VentaIs DEF Legs, Owner
<1>. QED  BY <1>1, <1>2 DEF SheetRows

\* The rows of one decision all come before those of a later one, and its
\* purchase before its sales.
LEMMA AheadByDecision ==
  ASSUME NEW book, Orderly(book), NEW x \in SheetRows(book), NEW y \in SheetRows(book)
  PROVE  /\ Before(book, Owner(book, x), Owner(book, y)) => Ahead(x, y)
         /\ Owner(book, x) = Owner(book, y) /\ IsCompra(book, x) /\ IsVenta(book, y) => Ahead(x, y)
<1>. DEFINE d == Owner(book, x)
            e == Owner(book, y)
<1>1. /\ d \in Decisions(book) /\ e \in Decisions(book)
      /\ x.fecha \in Nat /\ y.fecha \in Nat
      /\ IsCompra(book, x) \/ IsVenta(book, x)
      /\ IsCompra(book, y) \/ IsVenta(book, y)
      /\ x.id \in Legs(book, d) /\ x.id \in DOMAIN book /\ y.id \in DOMAIN book
  BY RowIs DEF FileRows
<1>2. /\ Leader(book, d) \in Legs(book, d) /\ Leader(book, e) \in Legs(book, e)
      /\ Leader(book, d) \in DOMAIN book /\ Leader(book, e) \in DOMAIN book
  BY <1>1, LeaderIs DEF Orderly
<1>3. /\ IsCompra(book, x) => x.fecha = book[Leader(book, d)].entry_date
      /\ IsCompra(book, y) => y.fecha = book[Leader(book, e)].entry_date
  BY <1>1, CompraIs DEF IsCompra
<1>4. IsVenta(book, x) => x.fecha = book[x.id].exit_date
  BY <1>1, VentaIs DEF IsVenta
<1>5. y.fecha >= book[Leader(book, e)].entry_date /\ book[Leader(book, e)].entry_date \in Nat
  <2>1. book[Leader(book, e)].entry_date \in Nat
    BY <1>2 DEF Orderly, Ledger
  <2>2. CASE IsCompra(book, y)
    BY <1>3, <2>1, <2>2
  <2>3. CASE IsVenta(book, y)
    BY <1>1, <2>1, <2>3, VentaIs DEF IsVenta, Owner
  <2>. QED  BY <1>1, <2>1, <2>2, <2>3
<1>. HIDE DEF d, e
<1>6. ASSUME Before(book, d, e) PROVE Ahead(x, y)
  <2>1. /\ EndedBefore(book[x.id], book[Leader(book, e)].entry_date)
        /\ EndedBefore(book[Leader(book, d)], book[Leader(book, e)].entry_date)
    BY <1>1, <1>2, <1>6, DecisionsInTurn
  <2>2. x.fecha < book[Leader(book, e)].entry_date
    <3>1. CASE IsVenta(book, x)
      BY <1>4, <2>1, <3>1 DEF EndedBefore
    <3>2. CASE IsCompra(book, x)
      <4>1. PICK b \in Nat, c \in Nat, f \in Nat :
              /\ b = book[Leader(book, d)].entry_date /\ c = book[Leader(book, d)].exit_date
              /\ f = book[Leader(book, e)].entry_date /\ c < f
        BY <1>2, <1>5, <2>1 DEF Orderly, Ledger, EndedBefore, Open
      <4>2. ~(c < b)
        <5>1. ~EndedBefore(book[Leader(book, d)], book[Leader(book, d)].entry_date)
          BY <1>2 DEF Orderly, InOrder
        <5>. QED  BY <4>1, <5>1, <2>1 DEF EndedBefore
      <4>. QED  BY <1>3, <3>2, <4>1, <4>2
    <3>. QED  BY <1>1, <3>1, <3>2
  <2>3. x.fecha < y.fecha
    BY <1>1, <1>5, <2>2
  <2>. QED  BY <2>3 DEF Ahead
<1>7. ASSUME d = e, IsCompra(book, x), IsVenta(book, y) PROVE Ahead(x, y)
  <2>1. x.fecha <= y.fecha
    BY <1>3, <1>5, <1>7
  <2>2. x.tipo = "compra" /\ y.tipo = "venta"
    BY <1>7 DEF IsCompra, IsVenta
  <2>. QED  BY <1>1, <2>1, <2>2 DEF Ahead
<1>. QED  BY <1>6, <1>7 DEF d, e

\* The order of the rows is strict and total.
LEMMA AheadOrders ==
  ASSUME NEW book, Orderly(book),
         NEW x \in SheetRows(book), NEW y \in SheetRows(book), NEW z \in SheetRows(book)
  PROVE  /\ ~Ahead(x, x)
         /\ Ahead(x, y) /\ Ahead(y, z) => Ahead(x, z)
         /\ x = y \/ Ahead(x, y) \/ Ahead(y, x)
         /\ ~(Ahead(x, y) /\ Ahead(y, x))
<1>1. /\ x.fecha \in Nat /\ x.id \in Nat /\ x.tipo \in {"compra", "venta"}
      /\ y.fecha \in Nat /\ y.id \in Nat /\ y.tipo \in {"compra", "venta"}
      /\ z.fecha \in Nat /\ z.id \in Nat /\ z.tipo \in {"compra", "venta"}
  BY RowIs DEF FileRows
<1>2. x.tipo = y.tipo /\ x.id = y.id => x = y
  <2>1. (IsCompra(book, x) \/ IsVenta(book, x)) /\ (IsCompra(book, y) \/ IsVenta(book, y))
    BY RowIs
  <2>. QED  BY <2>1 DEF IsCompra, IsVenta, Owner
<1>. QED  BY <1>1, <1>2 DEF Ahead

-----------------------------------------------------------------------------
(* The sheet lists every row once, in that order. *)

LEMMA SheetRowsFinite ==
  ASSUME NEW book, Orderly(book)
  PROVE  IsFiniteSet(SheetRows(book))
<1>. DEFINE D == DOMAIN book
            S == {x \in D : ~Open(book[x])}
            f == [t \in D |-> Compra(book, DecisionOf(book, t))]
            g == [t \in S |-> Venta(book, t)]
            F == {Compra(book, d) : d \in Decisions(book)}
            G == {Venta(book, t) : t \in S}
<1>1. IsFiniteSet(D) /\ IsFiniteSet(S)
  BY FS_Subset DEF Orderly, Ledger
<1>2. f \in Surjection(D, F)
  <2>1. \A t \in D : f[t] \in F
    BY DEF Decisions
  <2>2. ASSUME NEW y \in F PROVE \E t \in D : f[t] = y
    BY DEF Decisions
  <2>3. f \in [D -> F]
    BY <2>1
  <2>. HIDE DEF f, F, D
  <2>. QED  BY <2>2, <2>3 DEF Surjection
<1>3. g \in Surjection(S, G)
  <2>1. g \in [S -> G] /\ \A y \in G : \E t \in S : g[t] = y
    OBVIOUS
  <2>. HIDE DEF g, G, S
  <2>. QED  BY <2>1 DEF Surjection
<1>. HIDE DEF f, g, F, G, D, S
<1>4. IsFiniteSet(F) /\ IsFiniteSet(G)
  BY <1>1, <1>2, <1>3, FS_Surjection
<1>5. SheetRows(book) = F \cup G
  BY DEF SheetRows, F, G, S, D
<1>. QED  BY <1>4, <1>5, FS_Union

LEMMA SheetInOrder ==
  ASSUME NEW book, Orderly(book)
  PROVE  LET sheet == ExportCsv(book)
         IN  /\ sheet \in Seq(FileRows)
             /\ \A k \in 1 .. Len(sheet) : sheet[k] \in SheetRows(book)
             /\ \A row \in SheetRows(book) : \E k \in 1 .. Len(sheet) : sheet[k] = row
             /\ \A j, k \in 1 .. Len(sheet) : Ahead(sheet[j], sheet[k]) <=> j < k
<1>. DEFINE R == SheetRows(book)
            N == Cardinality(R)
            ahead(row) == {x \in R : Ahead(x, row)}
            rank == [row \in R |-> Cardinality(ahead(row))]
            sheet == ExportCsv(book)
<1>1. IsFiniteSet(R) /\ N \in Nat
  BY SheetRowsFinite, FS_CardinalityType
<1>2. \A x, y, z \in R : /\ ~Ahead(x, x)
                         /\ Ahead(x, y) /\ Ahead(y, z) => Ahead(x, z)
                         /\ x = y \/ Ahead(x, y) \/ Ahead(y, x)
                         /\ ~(Ahead(x, y) /\ Ahead(y, x))
  BY AheadOrders
<1>3. \A row \in R : row \in FileRows
  BY RowIs
<1>4. sheet = [k \in 1 .. N |-> CHOOSE row \in R : Cardinality(ahead(row)) = k - 1]
  BY DEF ExportCsv
<1>. HIDE DEF R, N, sheet
<1>5. \A row \in R : rank[row] \in 0 .. N - 1 /\ IsFiniteSet(ahead(row))
  <2>. TAKE row \in R
  <2>. DEFINE rest == R \ {row}
  <2>1. IsFiniteSet(rest) /\ Cardinality(rest) = N - 1
    BY <1>1, FS_RemoveElement DEF N
  <2>2. ahead(row) \subseteq rest
    BY <1>2
  <2>. HIDE DEF rest
  <2>3. IsFiniteSet(ahead(row)) /\ Cardinality(ahead(row)) <= N - 1 /\ Cardinality(ahead(row)) \in Nat
    BY <2>1, <2>2, FS_Subset, FS_CardinalityType
  <2>4. rank[row] = Cardinality(ahead(row))
    OBVIOUS
  <2>. QED  BY <1>1, <2>3, <2>4
<1>6. ASSUME NEW x \in R, NEW y \in R, Ahead(x, y) PROVE rank[x] < rank[y]
  <2>1. ahead(x) \subseteq ahead(y) /\ x \in ahead(y) /\ x \notin ahead(x)
    BY <1>2, <1>6
  <2>2. rank[x] = Cardinality(ahead(x)) /\ rank[y] = Cardinality(ahead(y)) /\ IsFiniteSet(ahead(y))
    BY <1>5
  <2>3. rank[x] \in Nat /\ rank[y] \in Nat
    BY <1>1, <1>5
  <2>. HIDE DEF ahead, rank
  <2>4. PICK S, T : S = ahead(x) /\ T = ahead(y)
    OBVIOUS
  <2>5. IsFiniteSet(T) /\ S \in SUBSET T /\ S # T
    BY <2>1, <2>2, <2>4
  <2>6. Cardinality(S) < Cardinality(T)
    <3>1. IsFiniteSet(S) /\ Cardinality(S) <= Cardinality(T) /\ (Cardinality(S) = Cardinality(T) => S = T)
      BY ONLY <2>5, FS_Subset
    <3>2. Cardinality(S) \in Nat /\ Cardinality(T) \in Nat
      BY <2>5, <3>1, FS_CardinalityType
    <3>. QED  BY <2>5, <3>1, <3>2
  <2>. QED  BY <2>2, <2>4, <2>6
<1>7. rank \in Injection(R, 0 .. N - 1)
  <2>1. rank \in [R -> 0 .. N - 1]
    BY <1>5
  <2>2. \A x, y \in R : rank[x] = rank[y] => x = y
    <3>. HIDE DEF rank
    <3>. TAKE x, y \in R
    <3>1. rank[x] \in Int /\ rank[y] \in Int
      BY <1>1, <2>1
    <3>. QED  BY <1>2, <1>6, <3>1
  <2>. HIDE DEF rank
  <2>. QED  BY <2>1, <2>2 DEF Injection, IsInjective
<1>8. rank \in Surjection(R, 0 .. N - 1)
  <2>1. 0 \in Int /\ N - 1 \in Int
    BY <1>1
  <2>2. IsFiniteSet(0 .. N - 1) /\ Cardinality(0 .. N - 1) = N
    <3>1. PICK m \in Int : m = N - 1
      BY <1>1
    <3>2. IsFiniteSet(0 .. m) /\ Cardinality(0 .. m) = IF 0 > m THEN 0 ELSE m - 0 + 1
      BY FS_Interval
    <3>. QED  BY <1>1, <3>1, <3>2
  <2>. DEFINE T == 0 .. N - 1
  <2>. HIDE DEF rank, T
  <2>3. IsFiniteSet(T) /\ Cardinality(T) = Cardinality(R) /\ rank \in Injection(R, T)
    BY <1>7, <2>2 DEF T, N
  <2>4. rank \in Surjection(R, T)
    BY <2>3, FS_Injection
  <2>. QED  BY <2>4 DEF T
<1>9. \A k \in 1 .. N : sheet[k] \in R /\ rank[sheet[k]] = k - 1
  <2>. TAKE k \in 1 .. N
  <2>1. sheet[k] = CHOOSE row \in R : Cardinality(ahead(row)) = k - 1
    BY <1>4
  <2>2. \E row \in R : Cardinality(ahead(row)) = k - 1
    <3>1. k - 1 \in 0 .. N - 1
      BY <1>1
    <3>2. \E row \in R : rank[row] = k - 1
      BY <1>8, <3>1 DEF Surjection
    <3>. QED  BY <3>2
  <2>3. sheet[k] \in R /\ Cardinality(ahead(sheet[k])) = k - 1
    BY <2>1, <2>2
  <2>. QED  BY <2>3
<1>10. DOMAIN sheet = 1 .. N
  BY <1>4
<1>11. sheet \in Seq(FileRows) /\ Len(sheet) = N
  <2>1. sheet \in [1 .. N -> FileRows]
    <3>. DEFINE at(k) == CHOOSE row \in R : Cardinality(ahead(row)) = k - 1
    <3>1. sheet = [k \in 1 .. N |-> at(k)]
      BY <1>4
    <3>. HIDE DEF at
    <3>2. sheet = [k \in 1 .. N |-> sheet[k]]
      BY <3>1
    <3>. QED  BY <1>3, <1>9, <3>2
  <2>. QED  BY <1>1, <2>1, <1>10
<1>12. ASSUME NEW row \in R PROVE \E k \in 1 .. N : sheet[k] = row
  <2>1. rank[row] \in 0 .. N - 1
    BY <1>5
  <2>2. PICK k \in 1 .. N : k - 1 = rank[row]
    <3>1. rank[row] + 1 \in 1 .. N /\ (rank[row] + 1) - 1 = rank[row]
      BY <1>1, <2>1
    <3>. QED  BY <3>1
  <2>3. sheet[k] \in R /\ rank[sheet[k]] = rank[row]
    BY <1>9, <2>2
  <2>4. sheet[k] = row
    <3>. HIDE DEF rank
    <3>. QED  BY <1>7, <2>3 DEF Injection, IsInjective
  <2>. QED  BY <2>4
<1>13. ASSUME NEW j \in 1 .. N, NEW k \in 1 .. N
       PROVE  Ahead(sheet[j], sheet[k]) <=> j < k
  <2>1. PICK x \in R, y \in R : x = sheet[j] /\ y = sheet[k] /\ rank[x] = j - 1 /\ rank[y] = k - 1
    BY <1>9
  <2>2. j \in Int /\ k \in Int
    OBVIOUS
  <2>. HIDE DEF rank
  <2>3. Ahead(x, y) => j < k
    BY <1>6, <2>1, <2>2
  <2>4. Ahead(y, x) => k < j
    BY <1>6, <2>1, <2>2
  <2>5. x = y => j = k
    BY <2>1, <2>2
  <2>6. j < k => Ahead(x, y)
    BY <1>2, <2>2, <2>4, <2>5
  <2>. QED  BY <2>1, <2>3, <2>6
<1>. QED  BY <1>9, <1>11, <1>12, <1>13 DEF sheet, R

-----------------------------------------------------------------------------
(* The import of the sheet, row by row. *)

\* A sale within the one leg that is queued.
LEMMA SellOne ==
  ASSUME NEW acc \in Parsed, NEW leg \in FileRows, NEW venta \in FileRows,
         acc.queue = <<leg>>, venta.qty <= leg.qty
  PROVE  Sell(acc, venta) =
           [queue |-> IF venta.qty = leg.qty THEN << >> ELSE <<[leg EXCEPT !.qty = @ - venta.qty]>>,
            closed |-> Append(acc.closed, ParsedTrade(leg, venta, venta.qty))]
<1>1. Len(acc.queue) = 1 /\ acc.queue[1] = leg
  OBVIOUS
<1>2. PICK f \in [0 .. 1 -> Taken] :
        /\ f[0] = Sale(venta, acc.closed)
        /\ \A k \in 1 .. 1 : f[k] = TakeFrom(f[k - 1], acc.queue[k], venta)
        /\ Sell(acc, venta) = [queue |-> f[1].queue, closed |-> f[1].closed]
  <2>. HIDE DEF Taken
  <2>. QED  BY <1>1, SellCourse
<1>3. f[1] = TakeFrom(Sale(venta, acc.closed), leg, venta) /\ Sale(venta, acc.closed) \in Taken
  <2>1. 1 \in 1 .. 1 /\ 1 - 1 = 0 /\ 0 \in 0 .. 1
    OBVIOUS
  <2>. QED  BY <1>1, <1>2, <2>1
<1>4. PICK a \in Taken : a = Sale(venta, acc.closed)
  BY <1>3
<1>5. a.left = venta.qty /\ a.queue = << >> /\ a.closed = acc.closed
  BY <1>4 DEF Sale
<1>6. venta.qty \in Nat \ {0} /\ leg.qty \in Nat \ {0}
  BY DEF FileRows
<1>7. PICK new : new = TakeFrom(a, leg, venta)
  OBVIOUS
<1>8. CASE venta.qty = leg.qty
  <2>1. a.left # 0 /\ a.left >= leg.qty
    BY <1>5, <1>6, <1>8
  <2>2. new.queue = a.queue /\ new.closed = Append(a.closed, ParsedTrade(leg, venta, leg.qty))
    BY <1>7, <2>1, TakeFromIs
  <2>. QED  BY <1>2, <1>3, <1>4, <1>5, <1>7, <1>8, <2>2
<1>9. CASE venta.qty # leg.qty
  <2>1. a.left # 0 /\ a.left < leg.qty
    BY <1>5, <1>6, <1>9
  <2>2. /\ new.queue = Append(a.queue, [leg EXCEPT !.qty = @ - a.left])
        /\ new.closed = Append(a.closed, ParsedTrade(leg, venta, a.left))
    BY <1>7, <2>1, TakeFromIs
  <2>3. new.queue = <<[leg EXCEPT !.qty = @ - venta.qty]>>
    BY <1>5, <2>2
  <2>. QED  BY <1>2, <1>3, <1>4, <1>5, <1>7, <1>9, <2>2, <2>3
<1>. QED  BY <1>8, <1>9

\* A sheet that lists the rows of a book in their order.
Lists(book, sheet) ==
  /\ sheet \in Seq(FileRows)
  /\ \A k \in 1 .. Len(sheet) : sheet[k] \in SheetRows(book)
  /\ \A row \in SheetRows(book) : \E k \in 1 .. Len(sheet) : sheet[k] = row
  /\ \A j, k \in 1 .. Len(sheet) : Ahead(sheet[j], sheet[k]) <=> j < k

SoldLegs(book) == {t \in DOMAIN book : ~Open(book[t])}
SoldUpTo(sheet, n) == {sheet[k].id : k \in {j \in 1 .. n : sheet[j].tipo = "venta"}}

LEMMA SoldUpToIs ==
  ASSUME NEW book, Orderly(book), NEW sheet, Lists(book, sheet), NEW n \in 0 .. Len(sheet)
  PROVE  /\ SoldUpTo(sheet, n) \subseteq SoldLegs(book)
         /\ \A t \in SoldLegs(book) :
              t \in SoldUpTo(sheet, n) <=> \E k \in 1 .. n : sheet[k] = Venta(book, t)
         /\ n = Len(sheet) => SoldUpTo(sheet, n) = SoldLegs(book)
<1>1. \A k \in 1 .. n : k \in 1 .. Len(sheet) /\ sheet[k] \in SheetRows(book)
  BY DEF Lists
<1>2. ASSUME NEW k \in 1 .. n, sheet[k].tipo = "venta"
      PROVE  /\ sheet[k].id \in SoldLegs(book) /\ sheet[k] = Venta(book, sheet[k].id)
  <2>1. IsCompra(book, sheet[k]) \/ IsVenta(book, sheet[k])
    BY <1>1, RowIs
  <2>2. sheet[k].id \in DOMAIN book
    BY <1>1, RowIs
  <2>. QED  BY <1>2, <2>1, <2>2 DEF IsCompra, IsVenta, SoldLegs
<1>3. ASSUME NEW t \in SoldLegs(book)
      PROVE  Venta(book, t).tipo = "venta" /\ Venta(book, t).id = t /\ Venta(book, t) \in SheetRows(book)
  BY <1>3, VentaIs DEF SoldLegs, IsVenta
<1>4. SoldUpTo(sheet, n) \subseteq SoldLegs(book)
  BY <1>2 DEF SoldUpTo
<1>5. \A t \in SoldLegs(book) :
        t \in SoldUpTo(sheet, n) <=> \E k \in 1 .. n : sheet[k] = Venta(book, t)
  <2>. TAKE t \in SoldLegs(book)
  <2>1. ASSUME t \in SoldUpTo(sheet, n) PROVE \E k \in 1 .. n : sheet[k] = Venta(book, t)
    <3>1. PICK k \in 1 .. n : sheet[k].tipo = "venta" /\ t = sheet[k].id
      BY <2>1 DEF SoldUpTo
    <3>. QED  BY <1>2, <3>1
  <2>2. ASSUME NEW k \in 1 .. n, sheet[k] = Venta(book, t) PROVE t \in SoldUpTo(sheet, n)
    <3>1. sheet[k].tipo = "venta" /\ sheet[k].id = t
      BY <1>3, <2>2
    <3>. QED  BY <3>1 DEF SoldUpTo
  <2>. QED  BY <2>1, <2>2
<1>6. ASSUME n = Len(sheet), NEW t \in SoldLegs(book) PROVE t \in SoldUpTo(sheet, n)
  <2>1. \E k \in 1 .. n : sheet[k] = Venta(book, t)
    BY <1>3, <1>6 DEF Lists
  <2>. QED  BY <1>5, <2>1
<1>. QED  BY <1>4, <1>5, <1>6

\* Where the rows of two decisions lie.
LEMMA Positions ==
  ASSUME NEW book, Orderly(book), NEW sheet, Lists(book, sheet),
         NEW j \in 1 .. Len(sheet), NEW k \in 1 .. Len(sheet)
  PROVE  /\ Owner(book, sheet[j]) \in Decisions(book) /\ sheet[j] \in FileRows
         /\ IsCompra(book, sheet[j]) \/ IsVenta(book, sheet[j])
         /\ Before(book, Owner(book, sheet[j]), Owner(book, sheet[k])) => j < k
         /\ Owner(book, sheet[j]) = Owner(book, sheet[k]) /\ IsCompra(book, sheet[j])
              /\ IsVenta(book, sheet[k]) => j < k
         /\ sheet[j] = sheet[k] => j = k
<1>1. sheet[j] \in SheetRows(book) /\ sheet[k] \in SheetRows(book)
  BY DEF Lists
<1>2. (Ahead(sheet[j], sheet[k]) <=> j < k) /\ (Ahead(sheet[k], sheet[j]) <=> k < j)
  BY DEF Lists
<1>3. ~Ahead(sheet[j], sheet[j])
  BY <1>1, AheadOrders
<1>4. sheet[j] = sheet[k] => j = k
  BY <1>2, <1>3
<1>5. /\ Before(book, Owner(book, sheet[j]), Owner(book, sheet[k])) => j < k
      /\ Owner(book, sheet[j]) = Owner(book, sheet[k]) /\ IsCompra(book, sheet[j])
           /\ IsVenta(book, sheet[k]) => j < k
  BY <1>1, <1>2, AheadByDecision
<1>. QED  BY <1>1, <1>4, <1>5, RowIs

\* The trade made of a sale, and what is still queued of a decision.
Closing(book, t) == ParsedTrade(Compra(book, DecisionOf(book, t)), Venta(book, t), book[t].qty)

Queued(book, d, sold) ==
  IF Legs(book, d) \subseteq sold THEN << >>
  ELSE <<[Compra(book, d) EXCEPT !.qty = TotalQty(book, Legs(book, d) \ sold)]>>

\* Every sale has made one trade.
Enumerates(w, book, trades, sold) ==
  /\ w \in [1 .. Len(trades) -> sold]
  /\ \A i, j \in 1 .. Len(trades) : w[i] = w[j] => i = j
  /\ \A t \in sold : \E i \in 1 .. Len(trades) : w[i] = t
  /\ \A i \in 1 .. Len(trades) : trades[i] = Closing(book, w[i])

Restored(acc, book, sheet, n) ==
  /\ acc \in Parsed
  /\ n = 0 => acc.queue = << >>
  /\ n # 0 => acc.queue = Queued(book, Owner(book, sheet[n]), SoldUpTo(sheet, n))
  /\ \E w : Enumerates(w, book, acc.closed, SoldUpTo(sheet, n))

\* When a later decision is bought, the earlier ones are all sold.
LEMMA SoldBefore ==
  ASSUME NEW book, Orderly(book), NEW sheet, Lists(book, sheet), NEW n \in 0 .. Len(sheet),
         NEW d \in Decisions(book), NEW e \in Decisions(book), Before(book, d, e),
         n = Len(sheet) \/ Owner(book, sheet[n + 1]) = e
  PROVE  Legs(book, d) \subseteq SoldUpTo(sheet, n)
<1>. SUFFICES ASSUME NEW t \in Legs(book, d) PROVE t \in SoldUpTo(sheet, n)
  OBVIOUS
<1>1. Leader(book, e) \in Legs(book, e)
  BY LeaderIs DEF Orderly
<1>2. t \in DOMAIN book /\ DecisionOf(book, t) = d /\ ~Open(book[t])
  <2>1. EndedBefore(book[t], book[Leader(book, e)].entry_date)
    BY <1>1, DecisionsInTurn
  <2>. QED  BY <2>1 DEF EndedBefore, Legs
<1>3. t \in SoldLegs(book)
  BY <1>2 DEF SoldLegs
<1>4. Venta(book, t) \in SheetRows(book) /\ Owner(book, Venta(book, t)) = d
  BY <1>2, VentaIs
<1>5. PICK k \in 1 .. Len(sheet) : sheet[k] = Venta(book, t)
  BY <1>4 DEF Lists
<1>6. k \in 1 .. n
  <2>1. Len(sheet) \in Nat
    BY DEF Lists
  <2>2. CASE n = Len(sheet)
    BY <2>2
  <2>3. CASE n # Len(sheet)
    <3>1. n + 1 \in 1 .. Len(sheet) /\ Owner(book, sheet[n + 1]) = e
      BY <2>1, <2>3
    <3>2. k < n + 1
      BY <1>4, <1>5, <3>1, Positions
    <3>. QED  BY <2>1, <3>2
  <2>. QED  BY <2>2, <2>3
<1>. QED  BY <1>3, <1>5, <1>6, SoldUpToIs

\* A purchase finds nothing queued.
LEMMA CompraTurn ==
  ASSUME NEW book, Orderly(book), NEW sheet, Lists(book, sheet), NEW n \in 0 .. Len(sheet) - 1,
         NEW acc, Restored(acc, book, sheet, n), IsCompra(book, sheet[n + 1])
  PROVE  Restored(ReadRow(acc, sheet[n + 1]), book, sheet, n + 1)
<1>. DEFINE row == sheet[n + 1]
            e == Owner(book, row)
            new == ReadRow(acc, row)
            V == SoldUpTo(sheet, n)
            W == SoldUpTo(sheet, n + 1)
<1>1. /\ n + 1 \in 1 .. Len(sheet) /\ n \in Nat /\ Len(sheet) \in Nat
      /\ n \in 0 .. Len(sheet) /\ n + 1 \in 0 .. Len(sheet)
  <2>1. Len(sheet) \in Nat
    BY DEF Lists
  <2>. QED  BY <2>1
<1>2. row \in FileRows /\ e \in Decisions(book) /\ row.tipo = "compra" /\ row = Compra(book, e)
  BY <1>1, Positions DEF IsCompra
<1>3. acc \in Parsed
  BY DEF Restored
<1>4. new \in Parsed /\ new = [queue |-> Append(acc.queue, row), closed |-> acc.closed]
  BY <1>2, <1>3, ReadRowIs
<1>5. W = V
  <2>1. 1 .. (n + 1) = (1 .. n) \cup {n + 1}
    BY <1>1
  <2>2. {j \in 1 .. (n + 1) : sheet[j].tipo = "venta"} = {j \in 1 .. n : sheet[j].tipo = "venta"}
    BY <1>2, <2>1
  <2>. QED  BY <2>2 DEF SoldUpTo
<1>6. acc.queue = << >>
  <2>. SUFFICES ASSUME n # 0 PROVE acc.queue = << >>
    BY DEF Restored
  <2>1. n \in 1 .. Len(sheet) /\ n < n + 1
    BY <1>1
  <2>. DEFINE d == Owner(book, sheet[n])
  <2>2. d \in Decisions(book) /\ sheet[n] \in FileRows /\ (IsCompra(book, sheet[n]) \/ IsVenta(book, sheet[n]))
    BY <2>1, Positions
  <2>3. d # e
    <3>. SUFFICES ASSUME d = e PROVE FALSE
      OBVIOUS
    <3>1. CASE IsCompra(book, sheet[n])
      <4>1. sheet[n] = row
        BY <1>2, <3>1 DEF IsCompra
      <4>2. n = n + 1
        BY <1>1, <2>1, <4>1, Positions
      <4>. QED  BY <1>1, <4>2
    <3>2. CASE IsVenta(book, sheet[n])
      <4>1. n + 1 < n
        BY <1>1, <2>1, <3>2, Positions
      <4>. QED  BY <1>1, <4>1
    <3>. QED  BY <2>2, <3>1, <3>2
  <2>4. ~Before(book, e, d)
    <3>. SUFFICES ASSUME Before(book, e, d) PROVE FALSE
      OBVIOUS
    <3>1. n + 1 < n
      BY <1>1, <2>1, Positions
    <3>. QED  BY <1>1, <3>1
  <2>5. Before(book, d, e)
    BY <1>2, <2>2, <2>3, <2>4, DecisionsInTurn
  <2>6. Legs(book, d) \subseteq V
    <3>. HIDE DEF d, V, row
    <3>. QED  BY <1>1, <1>2, <2>2, <2>5, SoldBefore DEF row, V, e
  <2>. QED  BY <2>6 DEF Restored, Queued
<1>7. Legs(book, e) \cap W = {}
  <2>. SUFFICES ASSUME NEW t \in Legs(book, e), t \in V PROVE FALSE
    BY <1>5
  <2>1. t \in SoldLegs(book)
    BY <1>1, SoldUpToIs
  <2>2. PICK k \in 1 .. n : sheet[k] = Venta(book, t)
    BY <1>1, <2>1, SoldUpToIs
  <2>3. t \in DOMAIN book /\ ~Open(book[t]) /\ DecisionOf(book, t) = e
    BY <2>1 DEF SoldLegs, Legs
  <2>4. IsVenta(book, sheet[k]) /\ Owner(book, sheet[k]) = e
    BY <2>2, <2>3, VentaIs
  <2>5. k \in 1 .. Len(sheet)
    BY <1>1
  <2>6. n + 1 < k
    BY <1>1, <2>4, <2>5, Positions
  <2>. QED  BY <1>1, <2>6
<1>8. new.queue = Queued(book, e, W)
  <2>1. Legs(book, e) # {} /\ Legs(book, e) \ W = Legs(book, e)
    <3>1. Leader(book, e) \in Legs(book, e)
      BY <1>2, LeaderIs DEF Orderly
    <3>. HIDE DEF W, e
    <3>. QED  BY <1>7, <3>1
  <2>2. ~(Legs(book, e) \subseteq W)
    BY <1>7, <2>1
  <2>3. row.qty = TotalQty(book, Legs(book, e)) /\ row = [row EXCEPT !.qty = row.qty]
    BY <1>2, CompraIs DEF FileRows
  <2>4. new.queue = <<row>>
    BY <1>4, <1>6
  <2>. QED  BY <1>2, <2>1, <2>2, <2>3, <2>4 DEF Queued
<1>9. \E w : Enumerates(w, book, new.closed, W)
  BY <1>4, <1>5 DEF Restored
<1>10. n + 1 # 0
  BY <1>1
<1>. QED  BY <1>4, <1>8, <1>9, <1>10 DEF Restored

\* A sale finds its own decision queued, with this leg of it.
LEMMA VentaTurn ==
  ASSUME NEW book, Orderly(book), NEW sheet, Lists(book, sheet), NEW n \in 0 .. Len(sheet) - 1,
         NEW acc, Restored(acc, book, sheet, n), IsVenta(book, sheet[n + 1])
  PROVE  Restored(ReadRow(acc, sheet[n + 1]), book, sheet, n + 1)
<1>. DEFINE row == sheet[n + 1]
            d == Owner(book, row)
            t == row.id
            new == ReadRow(acc, row)
            V == SoldUpTo(sheet, n)
            W == SoldUpTo(sheet, n + 1)
            legs == Legs(book, d)
            closing == ParsedTrade(Compra(book, d), row, book[t].qty)
<1>1. /\ n + 1 \in 1 .. Len(sheet) /\ n \in Nat /\ Len(sheet) \in Nat
      /\ n \in 0 .. Len(sheet) /\ n + 1 \in 0 .. Len(sheet)
  <2>1. Len(sheet) \in Nat
    BY DEF Lists
  <2>. QED  BY <2>1
<1>2. /\ row \in FileRows /\ d \in Decisions(book) /\ row.tipo = "venta" /\ row = Venta(book, t)
      /\ t \in DOMAIN book /\ ~Open(book[t]) /\ DecisionOf(book, t) = d /\ t \in legs
  <2>1. row \in FileRows /\ d \in Decisions(book)
    BY <1>1, Positions
  <2>2. row.tipo = "venta" /\ row = Venta(book, t) /\ ~Open(book[t])
    BY DEF IsVenta
  <2>3. row \in SheetRows(book)
    BY <1>1 DEF Lists
  <2>4. t \in DOMAIN book /\ t \in legs
    BY <2>3, RowIs
  <2>. QED  BY <2>1, <2>2, <2>4 DEF Owner
<1>3. acc \in Parsed
  BY DEF Restored
<1>4. new \in Parsed /\ new = Sell(acc, row)
  BY <1>2, <1>3, ReadRowIs
<1>5. PICK k \in 1 .. Len(sheet) : sheet[k] = Compra(book, d)
  <2>1. Compra(book, d) \in SheetRows(book)
    BY <1>2, CompraIs
  <2>. QED  BY <2>1 DEF Lists
<1>6. IsCompra(book, sheet[k]) /\ Owner(book, sheet[k]) = d /\ k < n + 1
  <2>1. IsCompra(book, sheet[k]) /\ Owner(book, sheet[k]) = d
    BY <1>2, <1>5, CompraIs
  <2>. QED  BY <1>1, <2>1, Positions
<1>7. n \in 1 .. Len(sheet) /\ n # 0
  BY <1>1, <1>6
<1>8. Owner(book, sheet[n]) = d
  <2>. DEFINE c == Owner(book, sheet[n])
  <2>1. c \in Decisions(book)
    BY <1>7, Positions
  <2>2. ~Before(book, d, c)
    <3>. SUFFICES ASSUME Before(book, d, c) PROVE FALSE
      OBVIOUS
    <3>1. n + 1 < n
      BY <1>1, <1>7, Positions
    <3>. QED  BY <1>1, <3>1
  <2>3. ~Before(book, c, d)
    <3>. SUFFICES ASSUME Before(book, c, d) PROVE FALSE
      OBVIOUS
    <3>1. n < k
      BY <1>6, <1>7, Positions
    <3>. QED  BY <1>1, <1>6, <3>1
  <2>. QED  BY <1>2, <2>1, <2>2, <2>3, DecisionsInTurn
<1>9. t \notin V
  <2>. SUFFICES ASSUME t \in V PROVE FALSE
    OBVIOUS
  <2>1. t \in SoldLegs(book)
    BY <1>2 DEF SoldLegs
  <2>2. PICK j \in 1 .. n : sheet[j] = row
    BY <1>1, <1>2, <2>1, SoldUpToIs
  <2>3. j \in 1 .. Len(sheet)
    BY <1>1
  <2>4. j = n + 1
    BY <1>1, <2>2, <2>3, Positions
  <2>. QED  BY <1>1, <2>4
<1>10. W = V \cup {t}
  <2>1. 1 .. (n + 1) = (1 .. n) \cup {n + 1}
    BY <1>1
  <2>2. {j \in 1 .. (n + 1) : sheet[j].tipo = "venta"} = {j \in 1 .. n : sheet[j].tipo = "venta"} \cup {n + 1}
    BY <1>2, <2>1
  <2>. QED  BY <2>2 DEF SoldUpTo
<1>. DEFINE leg == [Compra(book, d) EXCEPT !.qty = TotalQty(book, legs \ V)]
            left == (legs \ V) \ {t}
<1>11. /\ IsFiniteSet(left) /\ left = legs \ W
       /\ \A x \in left : book[x].qty \in Nat \ {0}
       /\ legs \ V = left \cup {t} /\ t \notin left
  <2>1. IsFiniteSet(legs) /\ legs \subseteq DOMAIN book
    BY <1>2, LeaderIs DEF Orderly
  <2>2. IsFiniteSet(left)
    BY <2>1, FS_Subset
  <2>3. \A x \in DOMAIN book : book[x].qty \in Nat \ {0}
    BY DEF Orderly, Ledger
  <2>. QED  BY <1>2, <1>9, <1>10, <2>1, <2>2, <2>3
<1>12. book[t].qty \in Nat \ {0} /\ row.qty = book[t].qty
  BY <1>2, VentaIs DEF Orderly, Ledger
<1>. HIDE DEF row, d, t, V, W, legs, left
<1>13. PICK rest \in Nat : /\ rest = TotalQty(book, left) /\ TotalQty(book, legs \ V) = rest + row.qty
                           /\ (rest = 0 <=> left = {})
  <2>1. Shares(book, left \cup {t}) = Shares(book, left) + book[t].qty
    <3>1. \A x \in left : book[x].qty \in Int
      BY <1>11
    <3>2. book[t].qty \in Int /\ t \notin left /\ IsFiniteSet(left)
      BY <1>11, <1>12
    <3>. QED  BY ONLY <3>1, <3>2, SharesAdd
  <2>2. left # {} => Shares(book, left) \in Nat \ {0}
    BY <1>11, SharesPositive
  <2>3. left = {} => Shares(book, left) = 0
    BY SharesEmpty
  <2>4. Shares(book, left) \in Nat /\ (Shares(book, left) = 0 <=> left = {})
    BY <2>2, <2>3
  <2>. QED  BY <1>11, <1>12, <2>1, <2>4 DEF TotalQty
<1>14. leg \in FileRows /\ leg.qty = rest + row.qty
  <2>1. Compra(book, d) \in FileRows
    BY <1>2, CompraIs DEF d, row
  <2>2. rest + row.qty \in Nat \ {0}
    BY <1>12, <1>13
  <2>3. leg = [Compra(book, d) EXCEPT !.qty = rest + row.qty]
    BY <1>13
  <2>. QED  BY <2>1, <2>2, <2>3 DEF FileRows
<1>15. acc.queue = <<leg>>
  <2>1. acc.queue = Queued(book, d, V)
    BY <1>7, <1>8 DEF Restored, V, d, row
  <2>2. ~(legs \subseteq V)
    BY <1>11
  <2>. QED  BY <2>1, <2>2 DEF Queued, legs
<1>16. ParsedTrade(leg, row, row.qty) = closing
  <2>. DEFINE whole == Compra(book, d)
  <2>1. leg.fecha = whole.fecha /\ leg.price = whole.price /\ leg.stop = whole.stop
    BY DEF Compra
  <2>. HIDE DEF leg, whole
  <2>2. OpenTrade(leg) = [OpenTrade(whole) EXCEPT !.qty = leg.qty]
    BY <2>1 DEF OpenTrade
  <2>3. ParsedTrade(leg, row, row.qty) = ParsedTrade(whole, row, row.qty)
    BY <2>2 DEF ParsedTrade, OpenTrade
  <2>. QED  BY <1>12, <2>3 DEF whole
<1>17. new = [queue |-> IF row.qty = leg.qty THEN << >> ELSE <<[leg EXCEPT !.qty = @ - row.qty]>>,
              closed |-> Append(acc.closed, closing)]
  <2>1. row \in FileRows /\ row.qty <= leg.qty
    BY <1>2, <1>12, <1>13, <1>14
  <2>. HIDE DEF leg, new, closing
  <2>. QED  BY <1>3, <1>4, <1>14, <1>15, <1>16, <2>1, SellOne
<1>18. new.queue = Queued(book, d, W)
  <2>1. legs \subseteq W <=> rest = 0
    BY <1>11, <1>13
  <2>2. CASE rest = 0
    <3>1. row.qty = leg.qty
      BY <1>12, <1>14, <2>2
    <3>. HIDE DEF leg, new
    <3>. QED  BY <1>17, <2>1, <2>2, <3>1 DEF Queued, legs
  <2>3. CASE rest # 0
    <3>1. row.qty # leg.qty /\ leg.qty - row.qty = rest
      BY <1>12, <1>14, <2>3
    <3>2. [leg EXCEPT !.qty = @ - row.qty] = [Compra(book, d) EXCEPT !.qty = rest]
      <4>1. [leg EXCEPT !.qty = @ - row.qty] = [leg EXCEPT !.qty = rest]
        <5>. HIDE DEF leg
        <5>. QED  BY <3>1
      <4>. QED  BY <4>1
    <3>3. new.queue = <<[Compra(book, d) EXCEPT !.qty = rest]>>
      <4>. HIDE DEF leg, new
      <4>. QED  BY <1>17, <3>1, <3>2
    <3>. QED  BY <1>11, <1>13, <2>1, <2>3, <3>3 DEF Queued, legs
  <2>. QED  BY <2>2, <2>3
<1>19. \E w : Enumerates(w, book, new.closed, W)
  <2>1. PICK w : Enumerates(w, book, acc.closed, V)
    BY DEF Restored, V
  <2>. DEFINE old == acc.closed
              m == Len(old)
              x == [i \in 1 .. m + 1 |-> IF i = m + 1 THEN t ELSE w[i]]
  <2>2. new.closed = Append(old, closing) /\ old \in Seq(Pairs)
    BY <1>3, <1>17 DEF Parsed
  <2>3. m \in Nat
    BY <2>2
  <2>4. Len(new.closed) = m + 1 /\ new.closed[m + 1] = closing /\ \A i \in 1 .. m : new.closed[i] = old[i]
    <3>. HIDE DEF closing, new, Pairs, old
    <3>. QED  BY <2>2
  <2>5. closing = Closing(book, t)
    BY <1>2 DEF Closing, d, t, row
  <2>6. /\ w \in [1 .. m -> V] /\ \A i, j \in 1 .. m : w[i] = w[j] => i = j
        /\ \A y \in V : \E i \in 1 .. m : w[i] = y
        /\ \A i \in 1 .. m : old[i] = Closing(book, w[i])
    BY <2>1 DEF Enumerates
  <2>. HIDE DEF closing, new, old, m
  <2>7. x[m + 1] = t /\ \A i \in 1 .. m : x[i] = w[i] /\ x[i] \in V
    BY <2>3, <2>6
  <2>8. x \in [1 .. m + 1 -> W]
    BY <1>10, <2>3, <2>7
  <2>. HIDE DEF x
  <2>9. 1 .. m + 1 = (1 .. m) \cup {m + 1}
    BY <2>3
  <2>10. \A i, j \in 1 .. m + 1 : x[i] = x[j] => i = j
    BY <1>9, <2>6, <2>7, <2>9
  <2>11. \A y \in W : \E i \in 1 .. m + 1 : x[i] = y
    BY <1>10, <2>6, <2>7, <2>9
  <2>12. \A i \in 1 .. m + 1 : new.closed[i] = Closing(book, x[i])
    BY <2>4, <2>5, <2>6, <2>7, <2>9
  <2>13. Enumerates(x, book, new.closed, W)
    BY <2>4, <2>8, <2>10, <2>11, <2>12 DEF Enumerates
  <2>. QED  BY <2>13
<1>20. n + 1 # 0
  BY <1>1
<1>. QED  BY <1>4, <1>18, <1>19, <1>20 DEF Restored, W, d, row

LEMMA SheetRestored ==
  ASSUME NEW book, Orderly(book), NEW sheet, Lists(book, sheet)
  PROVE  Restored(Parse(sheet), book, sheet, Len(sheet))
<1>. DEFINE N == Len(sheet)
<1>1. sheet \in Seq(FileRows) /\ N \in Nat
  BY DEF Lists
<1>2. PICK f \in [0 .. N -> Parsed] :
        /\ f[0] = Nothing /\ f[N] = Parse(sheet)
        /\ \A n \in 1 .. N : f[n] = ReadRow(f[n - 1], sheet[n])
  BY <1>1, ParseCourse
<1>. DEFINE P == {n \in 0 .. N : Restored(f[n], book, sheet, n)}
<1>3. 0 \in P
  <2>1. f[0] \in Parsed /\ f[0].queue = << >> /\ f[0].closed = << >>
    BY <1>1, <1>2 DEF Nothing
  <2>2. SoldUpTo(sheet, 0) = {}
    BY DEF SoldUpTo
  <2>3. \E w : w \in [1 .. 0 -> {}]
    <3>1. [i \in 1 .. 0 |-> i] \in [1 .. 0 -> {}]
      OBVIOUS
    <3>. QED  BY <3>1
  <2>4. \E w : Enumerates(w, book, << >>, {})
    BY <2>3 DEF Enumerates
  <2>5. Restored(f[0], book, sheet, 0)
    BY <2>1, <2>2, <2>4 DEF Restored
  <2>. QED  BY <1>1, <2>5
<1>4. ASSUME NEW n \in 0 .. N - 1, n \in P PROVE n + 1 \in P
  <2>1. n + 1 \in 1 .. N /\ n + 1 \in 0 .. N /\ (n + 1) - 1 = n
    BY <1>1
  <2>2. f[n + 1] = ReadRow(f[n], sheet[n + 1]) /\ Restored(f[n], book, sheet, n)
    BY <1>2, <1>4, <2>1
  <2>3. IsCompra(book, sheet[n + 1]) \/ IsVenta(book, sheet[n + 1])
    BY <2>1, Positions
  <2>4. Restored(f[n + 1], book, sheet, n + 1)
    BY <2>2, <2>3, CompraTurn, VentaTurn
  <2>. QED  BY <2>1, <2>4
<1>. HIDE DEF P
<1>5. 0 .. N \subseteq P
  BY <1>1, <1>3, <1>4, UpwardInduction
<1>. QED  BY <1>1, <1>2, <1>5 DEF P

-----------------------------------------------------------------------------
(* The imported rows. *)

LEMMA SharedOut ==
  ASSUME NEW p \in Int, NEW q \in Nat \ {0}
  PROVE  (p * q) \div q = p
<1>1. PICK n \in Int : n = (p * q) \div q
  OBVIOUS
<1>2. q * n <= p * q /\ p * q < q * n + q
  BY <1>1
<1>3. q * (p - n) >= 0 /\ q * (p - n) < q
  BY <1>2
<1>4. PICK x \in Int : x = p - n
  OBVIOUS
<1>5. q * x >= 0 /\ q * x < q
  BY <1>3, <1>4
<1>6. x >= 0
  BY <1>5
<1>7. x < 1
  BY <1>5
<1>. QED  BY <1>1, <1>4, <1>6, <1>7

\* The columns of an imported row.
Fields ==
  {"entry_date", "entry_price", "qty", "stop_price", "initial_stop_price", "exit_date",
   "exit_price", "parent_trade_id", "pnl_dollars", "r_multiple"}

LEMMA OpenTradeIs ==
  ASSUME NEW leg
  PROVE  LET row == OpenTrade(leg)
         IN  /\ row.entry_date = leg.fecha /\ row.entry_price = leg.price /\ row.qty = leg.qty
             /\ row.stop_price = leg.stop /\ row.initial_stop_price = None
             /\ row.exit_date = None /\ row.exit_price = None /\ row.parent_trade_id = None
             /\ row.pnl_dollars = None /\ row.r_multiple = None
             /\ DOMAIN row = Fields
BY DEF OpenTrade, Fields

LEMMA ParsedTradeIs ==
  ASSUME NEW leg, NEW venta, NEW chunk
  PROVE  LET row == ParsedTrade(leg, venta, chunk)
         IN  /\ row.entry_date = leg.fecha /\ row.entry_price = leg.price /\ row.qty = chunk
             /\ row.stop_price = leg.stop /\ row.initial_stop_price = None
             /\ row.exit_date = venta.fecha /\ row.exit_price = venta.price /\ row.parent_trade_id = None
             /\ row.pnl_dollars = (IF venta.pnl = None THEN None ELSE (venta.pnl * chunk) \div venta.qty)
             /\ row.r_multiple = venta.r
             /\ DOMAIN row = Fields
<1>. DEFINE p == IF venta.pnl = None THEN None ELSE (venta.pnl * chunk) \div venta.qty
<1>1. ParsedTrade(leg, venta, chunk) =
        [OpenTrade(leg) EXCEPT !.qty = chunk, !.exit_date = venta.fecha, !.exit_price = venta.price,
                               !.pnl_dollars = p, !.r_multiple = venta.r]
  BY DEF ParsedTrade
<1>. HIDE DEF p
<1>2. LET row == ParsedTrade(leg, venta, chunk)
      IN  /\ row.entry_date = leg.fecha /\ row.entry_price = leg.price /\ row.qty = chunk
          /\ row.stop_price = leg.stop /\ row.initial_stop_price = None
          /\ row.exit_date = venta.fecha /\ row.exit_price = venta.price /\ row.parent_trade_id = None
          /\ row.pnl_dollars = p /\ row.r_multiple = venta.r
          /\ DOMAIN row = Fields
  BY <1>1 DEF OpenTrade, Fields
<1>. QED  BY <1>2 DEF p

\* What an imported row has of the decision it comes from, and of its sale.
Bears(row, lead) ==
  /\ row.entry_date = lead.entry_date /\ row.entry_price = lead.entry_price
  /\ row.stop_price = StopForR(lead) /\ row.initial_stop_price = None

Repeats(row, leg) ==
  /\ row.exit_date = leg.exit_date /\ row.exit_price = leg.exit_price /\ row.qty = leg.qty
  /\ row.pnl_dollars = leg.pnl_dollars /\ row.r_multiple = DeriveR(leg)

LEMMA ClosingRepeats ==
  ASSUME NEW book, Orderly(book), NEW t \in SoldLegs(book)
  PROVE  Bears(Closing(book, t), book[Leader(book, DecisionOf(book, t))]) /\ Repeats(Closing(book, t), book[t])
<1>. DEFINE d == DecisionOf(book, t)
            leg == Compra(book, d)
            venta == Venta(book, t)
            row == ParsedTrade(leg, venta, book[t].qty)
<1>1. t \in DOMAIN book
  BY DEF SoldLegs
<1>2. book[t].qty \in Nat \ {0} /\ book[t].pnl_dollars \in Int \cup {None}
  BY <1>1 DEF Orderly, Ledger
<1>3. /\ leg.fecha = book[Leader(book, d)].entry_date /\ leg.price = book[Leader(book, d)].entry_price
      /\ leg.stop = StopForR(book[Leader(book, d)])
  BY DEF Compra, Leader
<1>4. /\ venta.fecha = book[t].exit_date /\ venta.price = book[t].exit_price
      /\ venta.pnl = book[t].pnl_dollars /\ venta.r = DeriveR(book[t]) /\ venta.qty = book[t].qty
  BY DEF Venta
<1>. HIDE DEF leg, venta, d
<1>5. /\ row.entry_date = leg.fecha /\ row.entry_price = leg.price /\ row.qty = book[t].qty
      /\ row.stop_price = leg.stop /\ row.initial_stop_price = None
      /\ row.exit_date = venta.fecha /\ row.exit_price = venta.price
      /\ row.pnl_dollars = (IF venta.pnl = None THEN None ELSE (venta.pnl * book[t].qty) \div venta.qty)
      /\ row.r_multiple = venta.r
  BY ParsedTradeIs
<1>6. row.pnl_dollars = book[t].pnl_dollars
  <2>1. CASE venta.pnl = None
    BY <1>4, <1>5, <2>1
  <2>2. CASE venta.pnl # None
    <3>1. book[t].pnl_dollars \in Int
      BY <1>2, <1>4, <2>2
    <3>2. (book[t].pnl_dollars * book[t].qty) \div book[t].qty = book[t].pnl_dollars
      BY <1>2, <3>1, SharedOut
    <3>. QED  BY <1>4, <1>5, <2>2, <3>2
  <2>. QED  BY <2>1, <2>2
<1>7. Closing(book, t) = row
  BY DEF Closing, leg, venta, d
<1>. HIDE DEF row
<1>. QED  BY <1>3, <1>4, <1>5, <1>6, <1>7 DEF Bears, Repeats, d

ImportRows(end) == [i \in DOMAIN end.queue |-> OpenTrade(end.queue[i])] \o end.closed

\* Each row comes from a leg of the book: a closed one from the leg it was sold
\* as, the open one from the leg its decision stands for.
Imported(book, rows, w) ==
  /\ \E m \in Nat : DOMAIN rows = 1 .. m
  /\ w \in [DOMAIN rows -> DOMAIN book]
  /\ \A i \in DOMAIN rows :
       /\ DOMAIN rows[i] = Fields /\ rows[i].parent_trade_id = None
       /\ Bears(rows[i], book[Leader(book, DecisionOf(book, w[i]))])
       /\ Open(rows[i]) => LET d == DecisionOf(book, w[i])
                           IN  /\ rows[i].qty = TotalQty(book, Legs(book, d) \ SoldLegs(book))
                               /\ ~(Legs(book, d) \subseteq SoldLegs(book))
       /\ ~Open(rows[i]) => w[i] \in SoldLegs(book) /\ Repeats(rows[i], book[w[i]])
  /\ \A i, j \in DOMAIN rows : Open(rows[i]) /\ Open(rows[j]) => i = j
  /\ \A i, j \in DOMAIN rows : ~Open(rows[i]) /\ ~Open(rows[j]) /\ w[i] = w[j] => i = j
  /\ \A t \in SoldLegs(book) : \E i \in DOMAIN rows : ~Open(rows[i]) /\ w[i] = t
  /\ \A d \in Decisions(book) : ~(Legs(book, d) \subseteq SoldLegs(book)) =>
       \E i \in DOMAIN rows : Open(rows[i]) /\ DecisionOf(book, w[i]) = d

\* The decision that is still queued is that of the last row; the others are sold.
LEMMA LastQueued ==
  ASSUME NEW book, Orderly(book), NEW sheet, Lists(book, sheet),
         NEW d \in Decisions(book), ~(Legs(book, d) \subseteq SoldLegs(book))
  PROVE  Len(sheet) # 0 /\ Owner(book, sheet[Len(sheet)]) = d
<1>. DEFINE N == Len(sheet)
            last == Owner(book, sheet[N])
<1>1. N \in Nat
  BY DEF Lists
<1>2. PICK k \in 1 .. N : sheet[k] = Compra(book, d)
  <2>1. Compra(book, d) \in SheetRows(book)
    BY CompraIs
  <2>. QED  BY <2>1 DEF Lists
<1>3. N \in 1 .. N /\ N \in 0 .. N /\ Owner(book, sheet[k]) = d
  BY <1>1, <1>2, CompraIs
<1>4. last \in Decisions(book)
  BY <1>3, Positions
<1>5. ~Before(book, last, d)
  <2>. SUFFICES ASSUME Before(book, last, d) PROVE FALSE
    OBVIOUS
  <2>1. N < k
    BY <1>2, <1>3, Positions
  <2>. QED  BY <1>1, <2>1
<1>6. ~Before(book, d, last)
  <2>. SUFFICES ASSUME Before(book, d, last) PROVE FALSE
    OBVIOUS
  <2>1. Legs(book, d) \subseteq SoldUpTo(sheet, N)
    BY <1>3, <1>4, SoldBefore
  <2>. QED  BY <1>3, <2>1, SoldUpToIs
<1>7. last = d
  BY <1>4, <1>5, <1>6, DecisionsInTurn
<1>. QED  BY <1>1, <1>3, <1>7

LEMMA QueuedRows ==
  ASSUME NEW end \in Parsed, NEW leg, end.queue = <<leg>>
  PROVE  LET rows == ImportRows(end)
         IN  /\ DOMAIN rows = 1 .. Len(end.closed) + 1
             /\ rows[1] = OpenTrade(leg)
             /\ \A i \in 1 .. Len(end.closed) : rows[i + 1] = end.closed[i]
<1>1. [i \in DOMAIN end.queue |-> OpenTrade(end.queue[i])] = <<OpenTrade(leg)>>
  <2>1. DOMAIN end.queue = 1 .. 1 /\ end.queue[1] = leg
    OBVIOUS
  <2>2. 1 .. 1 = {1}
    OBVIOUS
  <2>3. [i \in DOMAIN end.queue |-> OpenTrade(end.queue[i])] = [i \in 1 .. 1 |-> OpenTrade(leg)]
    BY <2>1, <2>2
  <2>. QED  BY <2>3
<1>2. ImportRows(end) = <<OpenTrade(leg)>> \o end.closed
  BY <1>1 DEF ImportRows
<1>3. PICK row, closed : row = OpenTrade(leg) /\ closed = end.closed
  OBVIOUS
<1>4. closed \in Seq(Pairs)
  BY <1>3 DEF Parsed
<1>5. PICK A : row \in A /\ Pairs \subseteq A
  <2>1. row \in Pairs \cup {row} /\ Pairs \subseteq Pairs \cup {row}
    OBVIOUS
  <2>. QED  BY <2>1
<1>6. closed \in Seq(A) /\ <<row>> \in Seq(A) /\ Len(<<row>>) = 1 /\ Len(closed) \in Nat
  <2>1. closed \in [1 .. Len(closed) -> A] /\ Len(closed) \in Nat
    BY <1>4, <1>5
  <2>. QED  BY <1>5, <2>1
<1>. HIDE DEF Pairs
<1>7. PICK s : s = <<row>>
  OBVIOUS
<1>8. s \in Seq(A) /\ Len(s) = 1 /\ s[1] = row
  BY <1>6, <1>7
<1>9. /\ s \o closed \in Seq(A) /\ Len(s \o closed) = Len(s) + Len(closed)
      /\ \A i \in 1 .. Len(s) + Len(closed) :
           (s \o closed)[i] = IF i <= Len(s) THEN s[i] ELSE closed[i - Len(s)]
  <2>1. s \in Seq(A) /\ closed \in Seq(A)
    BY <1>6, <1>8
  <2>. QED  BY ONLY <2>1, ConcatProperties
<1>10. PICK m, all : m \in Nat /\ m = Len(closed) /\ all = s \o closed
  BY <1>6
<1>11. DOMAIN all = 1 .. m + 1
  BY <1>8, <1>9, <1>10
<1>12. all[1] = row /\ \A i \in 1 .. m : all[i + 1] = closed[i]
  <2>1. \A i \in 1 .. 1 + m : all[i] = IF i <= 1 THEN s[i] ELSE closed[i - 1]
    BY <1>8, <1>9, <1>10
  <2>2. 1 \in 1 .. 1 + m /\ \A i \in 1 .. m : i + 1 \in 1 .. 1 + m /\ ~(i + 1 <= 1) /\ (i + 1) - 1 = i
    BY <1>10
  <2>. QED  BY <1>8, <2>1, <2>2
<1>. QED  BY <1>2, <1>3, <1>7, <1>10, <1>11, <1>12

LEMMA ClosedRows ==
  ASSUME NEW end \in Parsed, end.queue = << >>
  PROVE  ImportRows(end) = end.closed /\ end.closed \in Seq(Pairs)
<1>1. [i \in DOMAIN end.queue |-> OpenTrade(end.queue[i])] = << >>
  OBVIOUS
<1>2. end.closed \in Seq(Pairs)
  BY DEF Parsed
<1>3. << >> \o end.closed = end.closed
  <2>. HIDE DEF Pairs
  <2>. QED  BY <1>2
<1>. QED  BY <1>1, <1>2, <1>3 DEF ImportRows

LEMMA ImportIs ==
  ASSUME NEW book, Orderly(book), NEW sheet, Lists(book, sheet)
  PROVE  \E w : Imported(book, ImportRows(Parse(sheet)), w)
<1>. DEFINE N == Len(sheet)
            end == Parse(sheet)
            closed == end.closed
            m == Len(closed)
            rows == ImportRows(end)
            S == SoldLegs(book)
            last == Owner(book, sheet[N])
<1>1. N \in Nat /\ N \in 0 .. N
  <2>1. N \in Nat
    BY DEF Lists
  <2>. QED  BY <2>1
<1>2. S = SoldUpTo(sheet, N)
  BY <1>1, SoldUpToIs
<1>3. /\ end \in Parsed
      /\ N = 0 => end.queue = << >>
      /\ N # 0 => end.queue = Queued(book, last, S)
      /\ \E w : Enumerates(w, book, closed, S)
  <2>1. Restored(end, book, sheet, N)
    BY SheetRestored
  <2>. QED  BY <1>2, <2>1 DEF Restored
<1>4. PICK v : Enumerates(v, book, closed, S)
  BY <1>3
<1>5. closed \in Seq(Pairs) /\ m \in Nat /\ DOMAIN closed = 1 .. m
  BY <1>3 DEF Parsed
<1>. HIDE DEF N, end, S, closed, rows, last, m
<1>6. /\ v \in [1 .. m -> S]
      /\ \A i, j \in 1 .. m : v[i] = v[j] => i = j
      /\ \A t \in S : \E i \in 1 .. m : v[i] = t
      /\ \A i \in 1 .. m : closed[i] = Closing(book, v[i])
  BY <1>4 DEF Enumerates, m
<1>7. S \subseteq DOMAIN book /\ \A t \in S : DecisionOf(book, t) \in Decisions(book) /\ book[t].exit_date # None
  BY DEF S, SoldLegs, Decisions, Open
<1>8. ASSUME NEW i \in 1 .. m
      PROVE  /\ DOMAIN closed[i] = Fields /\ closed[i].parent_trade_id = None /\ ~Open(closed[i])
             /\ Bears(closed[i], book[Leader(book, DecisionOf(book, v[i]))])
             /\ v[i] \in S /\ Repeats(closed[i], book[v[i]])
  <2>1. v[i] \in S /\ closed[i] = Closing(book, v[i])
    BY <1>6
  <2>2. Bears(closed[i], book[Leader(book, DecisionOf(book, v[i]))]) /\ Repeats(closed[i], book[v[i]])
    BY <2>1, ClosingRepeats DEF S
  <2>3. ~Open(closed[i])
    BY <1>7, <2>1, <2>2 DEF Repeats, Open
  <2>4. closed[i].parent_trade_id = None /\ DOMAIN closed[i] = Fields
    BY <2>1, ParsedTradeIs DEF Closing
  <2>. QED  BY <2>1, <2>2, <2>3, <2>4
<1>9. \A d \in Decisions(book) : ~(Legs(book, d) \subseteq S) => N # 0 /\ d = last
  BY LastQueued DEF S, N, last
<1>10. CASE end.queue = << >>
  <2>1. rows = closed
    BY <1>3, <1>10, ClosedRows DEF rows, closed
  <2>2. \A d \in Decisions(book) : Legs(book, d) \subseteq S
    <3>. SUFFICES ASSUME NEW d \in Decisions(book), ~(Legs(book, d) \subseteq S) PROVE FALSE
      OBVIOUS
    <3>1. N # 0 /\ d = last
      BY <1>9
    <3>2. end.queue # << >>
      BY <1>3, <3>1 DEF Queued
    <3>. QED  BY <1>10, <3>2
  <2>3. v \in [DOMAIN rows -> DOMAIN book]
    BY <1>5, <1>6, <1>7, <2>1
  <2>4. Imported(book, rows, v)
    <3>1. /\ \A i, j \in DOMAIN rows : v[i] = v[j] => i = j
          /\ \A t \in S : \E i \in DOMAIN rows : v[i] = t
          /\ \A i \in DOMAIN rows : /\ DOMAIN rows[i] = Fields /\ rows[i].parent_trade_id = None /\ ~Open(rows[i])
                                    /\ Bears(rows[i], book[Leader(book, DecisionOf(book, v[i]))])
                                    /\ v[i] \in S /\ Repeats(rows[i], book[v[i]])
      BY <1>5, <1>6, <1>8, <2>1
    <3>2. \E x \in Nat : DOMAIN rows = 1 .. x
      BY <1>5, <2>1
    <3>. QED  BY <2>2, <2>3, <3>1, <3>2 DEF Imported, S
  <2>. QED  BY <2>4 DEF rows, end
<1>11. CASE end.queue # << >>
  <2>. DEFINE leg == [Compra(book, last) EXCEPT !.qty = TotalQty(book, Legs(book, last) \ S)]
  <2>1. N # 0 /\ end.queue = <<leg>> /\ ~(Legs(book, last) \subseteq S)
    BY <1>3, <1>11 DEF Queued
  <2>2. last \in Decisions(book)
    <3>1. N \in 1 .. N
      BY <1>1, <2>1
    <3>. QED  BY <3>1, Positions DEF N, last
  <2>3. /\ leg.fecha = book[Leader(book, last)].entry_date /\ leg.price = book[Leader(book, last)].entry_price
        /\ leg.stop = StopForR(book[Leader(book, last)]) /\ leg.qty = TotalQty(book, Legs(book, last) \ S)
    BY DEF Compra, Leader
  <2>. HIDE DEF leg
  <2>4. /\ DOMAIN rows = 1 .. m + 1 /\ rows[1] = OpenTrade(leg)
        /\ \A i \in 1 .. m : rows[i + 1] = closed[i]
    BY <1>3, <2>1, QueuedRows DEF rows, m, closed
  <2>5. /\ DOMAIN rows[1] = Fields /\ rows[1].parent_trade_id = None /\ Open(rows[1])
        /\ Bears(rows[1], book[Leader(book, last)])
        /\ rows[1].qty = TotalQty(book, Legs(book, last) \ S)
    BY <2>3, <2>4, OpenTradeIs DEF Bears, Open
  <2>6. Leader(book, last) \in DOMAIN book /\ DecisionOf(book, Leader(book, last)) = last
    BY <2>2, LeaderIs DEF Orderly
  <2>. DEFINE w == [i \in 1 .. m + 1 |-> IF i = 1 THEN Leader(book, last) ELSE v[i - 1]]
  <2>7. ASSUME NEW i \in 1 .. m + 1, i # 1 PROVE i - 1 \in 1 .. m /\ (i - 1) + 1 = i
    BY <1>5, <2>7
  <2>8. w[1] = Leader(book, last) /\ \A i \in 1 .. m + 1 : i # 1 => w[i] = v[i - 1] /\ rows[i] = closed[i - 1]
    BY <1>5, <2>4, <2>7
  <2>9. w \in [DOMAIN rows -> DOMAIN book]
    BY <1>6, <1>7, <2>4, <2>6, <2>7
  <2>. HIDE DEF w
  <2>10. ASSUME NEW i \in DOMAIN rows
         PROVE  /\ DOMAIN rows[i] = Fields /\ rows[i].parent_trade_id = None
                /\ Bears(rows[i], book[Leader(book, DecisionOf(book, w[i]))])
                /\ Open(rows[i]) => /\ i = 1
                                    /\ rows[i].qty = TotalQty(book, Legs(book, DecisionOf(book, w[i])) \ S)
                                    /\ ~(Legs(book, DecisionOf(book, w[i])) \subseteq S)
                /\ ~Open(rows[i]) => i # 1 /\ w[i] \in S /\ Repeats(rows[i], book[w[i]])
    <3>1. CASE i = 1
      BY <2>1, <2>5, <2>6, <2>8, <3>1
    <3>2. CASE i # 1
      BY <1>8, <2>4, <2>7, <2>8, <3>2
    <3>. QED  BY <3>1, <3>2
  <2>11. \A i, j \in DOMAIN rows : Open(rows[i]) /\ Open(rows[j]) => i = j
    BY <2>10
  <2>12. ASSUME NEW i \in DOMAIN rows, NEW j \in DOMAIN rows, ~Open(rows[i]), ~Open(rows[j]), w[i] = w[j]
         PROVE  i = j
    <3>1. i # 1 /\ j # 1 /\ i \in 1 .. m + 1 /\ j \in 1 .. m + 1
      BY <2>4, <2>10, <2>12
    <3>2. i - 1 \in 1 .. m /\ j - 1 \in 1 .. m /\ v[i - 1] = v[j - 1]
      BY <2>7, <2>8, <2>12, <3>1
    <3>3. i - 1 = j - 1
      BY <1>6, <3>2
    <3>. QED  BY <3>1, <3>3
  <2>13. ASSUME NEW t \in S PROVE \E i \in DOMAIN rows : ~Open(rows[i]) /\ w[i] = t
    <3>1. PICK k \in 1 .. m : v[k] = t
      BY <1>6
    <3>2. k + 1 \in 1 .. m + 1 /\ k + 1 # 1 /\ (k + 1) - 1 = k
      BY <1>5
    <3>3. w[k + 1] = t /\ rows[k + 1] = closed[k]
      BY <2>8, <3>1, <3>2
    <3>. QED  BY <1>8, <2>4, <3>2, <3>3
  <2>14. ASSUME NEW d \in Decisions(book), ~(Legs(book, d) \subseteq S)
         PROVE  \E i \in DOMAIN rows : Open(rows[i]) /\ DecisionOf(book, w[i]) = d
    <3>1. d = last
      BY <1>9, <2>14
    <3>2. 1 \in DOMAIN rows
      BY <1>5, <2>4
    <3>. QED  BY <2>5, <2>6, <2>8, <3>1, <3>2
  <2>15. \E x \in Nat : DOMAIN rows = 1 .. x
    BY <1>5, <2>4
  <2>16. Imported(book, rows, w)
    BY <2>9, <2>10, <2>11, <2>12, <2>13, <2>14, <2>15 DEF Imported, S
  <2>. QED  BY <2>16 DEF rows, end
<1>. QED  BY <1>10, <1>11

\* Rows of one decision overlap, rows of two do not.
LEMMA RowsTogether ==
  ASSUME NEW book, Orderly(book), NEW rows, NEW w, Imported(book, rows, w)
  PROVE  /\ Dated(rows)
         /\ \A i, j \in DOMAIN rows :
              Representative(rows, i) = Representative(rows, j)
                <=> DecisionOf(book, w[i]) = DecisionOf(book, w[j])
<1>. DEFINE D == DOMAIN rows
            o(i) == DecisionOf(book, w[i])
            lead(i) == Leader(book, o(i))
<1>1. ASSUME NEW i \in D
      PROVE  /\ w[i] \in DOMAIN book /\ o(i) \in Decisions(book) /\ w[i] \in Legs(book, o(i))
             /\ lead(i) \in Legs(book, o(i)) /\ lead(i) \in DOMAIN book
             /\ rows[i].entry_date = book[lead(i)].entry_date /\ rows[i].entry_date \in Nat
  <2>1. w[i] \in DOMAIN book
    BY DEF Imported
  <2>2. o(i) \in Decisions(book) /\ w[i] \in Legs(book, o(i))
    BY <2>1 DEF Decisions, Legs
  <2>3. lead(i) \in Legs(book, o(i)) /\ lead(i) \in DOMAIN book
    BY <2>2, LeaderIs DEF Orderly
  <2>4. rows[i].entry_date = book[lead(i)].entry_date
    BY DEF Imported, Bears
  <2>. QED  BY <2>1, <2>2, <2>3, <2>4 DEF Orderly, Ledger
<1>2. ASSUME NEW i \in D, ~Open(rows[i])
      PROVE  /\ w[i] \in SoldLegs(book) /\ rows[i].exit_date = book[w[i]].exit_date
             /\ rows[i].exit_date \in Nat /\ rows[i].exit_date >= rows[i].entry_date
  <2>1. w[i] \in SoldLegs(book) /\ rows[i].exit_date = book[w[i]].exit_date
    BY <1>2 DEF Imported, Repeats
  <2>2. w[i] \in DOMAIN book /\ ~Open(book[w[i]])
    BY <2>1 DEF SoldLegs
  <2>3. /\ Venta(book, w[i]).fecha = book[w[i]].exit_date /\ Venta(book, w[i]).fecha \in Nat
        /\ Venta(book, w[i]).fecha >= book[lead(i)].entry_date
    BY <2>2, VentaIs
  <2>. QED  BY <1>1, <2>1, <2>3
<1>3. Dated(rows)
  <2>1. PICK m \in Nat : D = 1 .. m
    BY DEF Imported
  <2>2. IsFiniteSet(D) /\ D \subseteq Nat
    BY <2>1, FS_Interval
  <2>3. \A i \in D : rows[i].entry_date \in Nat /\ rows[i].exit_date \in Nat \cup {None}
    BY <1>1, <1>2 DEF Open
  <2>. QED  BY <2>2, <2>3 DEF Dated
<1>4. InOrder(rows)
  <2>. SUFFICES ASSUME NEW i \in D, EndedBefore(rows[i], rows[i].entry_date) PROVE FALSE
    BY DEF InOrder
  <2>1. ~Open(rows[i]) /\ rows[i].exit_date < rows[i].entry_date
    BY DEF EndedBefore
  <2>. QED  BY <1>1, <1>2, <2>1
<1>5. ASSUME NEW i \in D, NEW j \in D, o(i) = o(j)
      PROVE  Representative(rows, i) = Representative(rows, j)
  <2>1. rows[i].entry_date = rows[j].entry_date
    BY <1>1, <1>5
  <2>2. ~EndedBefore(rows[i], rows[i].entry_date) /\ ~EndedBefore(rows[j], rows[j].entry_date)
    BY <1>4 DEF InOrder
  <2>3. Overlaps(rows, i, j)
    BY <2>1, <2>2 DEF Overlaps
  <2>4. EpisodeStart(rows, i) = EpisodeStart(rows, j)
    BY <1>3, <2>3, OverlapJoins
  <2>. QED  BY <1>3, <2>4, RepresentativeStands
<1>6. ASSUME NEW i \in D, NEW j \in D, Before(book, o(i), o(j))
      PROVE  EndedBefore(rows[i], rows[j].entry_date)
  <2>1. \A x \in Legs(book, o(i)) : EndedBefore(book[x], book[lead(j)].entry_date)
    BY <1>1, <1>6, DecisionsInTurn
  <2>2. CASE Open(rows[i])
    <3>1. PICK x \in Legs(book, o(i)) : x \notin SoldLegs(book)
      BY <2>2 DEF Imported
    <3>2. x \in DOMAIN book /\ Open(book[x])
      BY <3>1 DEF Legs, SoldLegs
    <3>. QED  BY <2>1, <3>1, <3>2 DEF EndedBefore
  <2>3. CASE ~Open(rows[i])
    <3>1. EndedBefore(book[w[i]], book[lead(j)].entry_date)
      BY <1>1, <2>1
    <3>. QED  BY <1>1, <1>2, <2>3, <3>1 DEF EndedBefore
  <2>. QED  BY <2>2, <2>3
<1>7. ASSUME NEW i \in D, NEW j \in D, o(i) # o(j) PROVE ~Overlaps(rows, i, j)
  <2>1. Before(book, o(i), o(j)) \/ Before(book, o(j), o(i))
    BY <1>1, <1>7, DecisionsInTurn
  <2>2. EndedBefore(rows[i], rows[j].entry_date) \/ EndedBefore(rows[j], rows[i].entry_date)
    BY <1>6, <2>1
  <2>. QED  BY <2>2 DEF Overlaps
<1>8. ASSUME NEW i \in D, NEW j \in D, Representative(rows, i) = Representative(rows, j)
      PROVE  o(i) = o(j)
  <2>. DEFINE X == {k \in D : o(k) = o(i)}
  <2>1. Held(rows, i, j)
    BY <1>3, <1>4, <1>8, EpisodesAreHeld
  <2>2. X \in SUBSET D /\ i \in X
    OBVIOUS
  <2>3. \A x \in X, y \in D : Overlaps(rows, x, y) => y \in X
    BY <1>7
  <2>. HIDE DEF X
  <2>4. j \in X
    BY <2>1, <2>2, <2>3 DEF Held
  <2>. QED  BY <2>4 DEF X
<1>. QED  BY <1>3, <1>5, <1>8

\* The imported book: its rows, and its decisions.
Copied(book, copy, w) ==
  /\ IsFiniteSet(DOMAIN copy)
  /\ w \in [DOMAIN copy -> DOMAIN book]
  /\ \A i \in DOMAIN copy :
       /\ Bears(copy[i], book[Leader(book, DecisionOf(book, w[i]))])
       /\ copy[i].qty \in Nat \ {0}
       /\ Open(copy[i]) => LET d == DecisionOf(book, w[i])
                           IN  /\ copy[i].qty = TotalQty(book, Legs(book, d) \ SoldLegs(book))
                               /\ ~(Legs(book, d) \subseteq SoldLegs(book))
       /\ ~Open(copy[i]) => w[i] \in SoldLegs(book) /\ Repeats(copy[i], book[w[i]])
  /\ \A i, j \in DOMAIN copy : Open(copy[i]) /\ Open(copy[j]) => i = j
  /\ \A i, j \in DOMAIN copy : ~Open(copy[i]) /\ ~Open(copy[j]) /\ w[i] = w[j] => i = j
  /\ \A t \in SoldLegs(book) : \E i \in DOMAIN copy : ~Open(copy[i]) /\ w[i] = t
  /\ \A d \in Decisions(book) : ~(Legs(book, d) \subseteq SoldLegs(book)) =>
       \E i \in DOMAIN copy : Open(copy[i]) /\ DecisionOf(book, w[i]) = d
  /\ \A i, j \in DOMAIN copy :
       DecisionOf(copy, i) = DecisionOf(copy, j) <=> DecisionOf(book, w[i]) = DecisionOf(book, w[j])

LEMMA LinkedRow ==
  ASSUME NEW row, DOMAIN row = Fields, NEW p
  PROVE  LET new == [row EXCEPT !.parent_trade_id = p]
         IN  /\ new.parent_trade_id = p
             /\ new.entry_date = row.entry_date /\ new.entry_price = row.entry_price /\ new.qty = row.qty
             /\ new.stop_price = row.stop_price /\ new.initial_stop_price = row.initial_stop_price
             /\ new.exit_date = row.exit_date /\ new.exit_price = row.exit_price
             /\ new.pnl_dollars = row.pnl_dollars /\ new.r_multiple = row.r_multiple
BY DEF Fields

LEMMA ImportCopies ==
  ASSUME NEW book, Orderly(book), NEW sheet, Lists(book, sheet)
  PROVE  \E w : Copied(book, ImportCsv(sheet), w)
<1>. DEFINE rows == ImportRows(Parse(sheet))
            links == AssignDecisionLinks(rows)
            copy == ImportCsv(sheet)
            D == DOMAIN rows
<1>1. PICK w : Imported(book, rows, w)
  BY ImportIs
<1>2. copy = [t \in D |-> [rows[t] EXCEPT !.parent_trade_id = links[t]]]
  BY DEF ImportCsv, ImportRows
<1>. HIDE DEF rows, copy
<1>3. DOMAIN copy = D /\ \A i \in D : copy[i] = [rows[i] EXCEPT !.parent_trade_id = links[i]]
  <2>. DEFINE new(t) == [rows[t] EXCEPT !.parent_trade_id = links[t]]
  <2>1. copy = [t \in D |-> new(t)]
    BY <1>2
  <2>. HIDE DEF new
  <2>2. DOMAIN copy = D /\ \A i \in D : copy[i] = new(i)
    BY <2>1
  <2>. QED  BY <2>2 DEF new
<1>4. ASSUME NEW i \in D
      PROVE  /\ copy[i].parent_trade_id = links[i]
             /\ copy[i].entry_date = rows[i].entry_date /\ copy[i].entry_price = rows[i].entry_price
             /\ copy[i].qty = rows[i].qty
             /\ copy[i].stop_price = rows[i].stop_price
             /\ copy[i].initial_stop_price = rows[i].initial_stop_price
             /\ copy[i].exit_date = rows[i].exit_date /\ copy[i].exit_price = rows[i].exit_price
             /\ copy[i].pnl_dollars = rows[i].pnl_dollars /\ copy[i].r_multiple = rows[i].r_multiple
  <2>1. DOMAIN rows[i] = Fields
    BY <1>1 DEF Imported
  <2>2. PICK row, p : row = rows[i] /\ p = links[i]
    OBVIOUS
  <2>3. copy[i] = [row EXCEPT !.parent_trade_id = p] /\ DOMAIN row = Fields
    BY <1>3, <2>1, <2>2
  <2>. HIDE DEF links
  <2>4. LET new == [row EXCEPT !.parent_trade_id = p]
        IN  /\ new.parent_trade_id = p
            /\ new.entry_date = row.entry_date /\ new.entry_price = row.entry_price /\ new.qty = row.qty
            /\ new.stop_price = row.stop_price /\ new.initial_stop_price = row.initial_stop_price
            /\ new.exit_date = row.exit_date /\ new.exit_price = row.exit_price
            /\ new.pnl_dollars = row.pnl_dollars /\ new.r_multiple = row.r_multiple
    BY ONLY <2>3, LinkedRow
  <2>. QED  BY <2>2, <2>3, <2>4
<1>5. /\ Dated(rows)
      /\ \A i, j \in D : Representative(rows, i) = Representative(rows, j)
                           <=> DecisionOf(book, w[i]) = DecisionOf(book, w[j])
  BY <1>1, RowsTogether
<1>6. \A i \in D : DecisionOf(copy, i) = Representative(rows, i)
  <2>. TAKE i \in D
  <2>1. (IF links[i] = None THEN i ELSE links[i]) = Representative(rows, i)
    BY <1>5, LinkOf
  <2>2. copy[i].parent_trade_id = links[i]
    BY <1>4
  <2>. HIDE DEF links
  <2>. QED  BY <2>1, <2>2 DEF DecisionOf
<1>. HIDE DEF links
<1>7. \A i \in D : Open(copy[i]) <=> Open(rows[i])
  BY <1>4 DEF Open
<1>8. IsFiniteSet(D) /\ w \in [D -> DOMAIN book]
  BY <1>1, <1>5 DEF Imported, Dated
<1>9. ASSUME NEW i \in D
      PROVE  /\ Bears(copy[i], book[Leader(book, DecisionOf(book, w[i]))])
             /\ Open(copy[i]) => LET d == DecisionOf(book, w[i])
                                 IN  /\ copy[i].qty = TotalQty(book, Legs(book, d) \ SoldLegs(book))
                                     /\ ~(Legs(book, d) \subseteq SoldLegs(book))
             /\ ~Open(copy[i]) => w[i] \in SoldLegs(book) /\ Repeats(copy[i], book[w[i]])
  <2>1. Bears(copy[i], book[Leader(book, DecisionOf(book, w[i]))])
    BY <1>1, <1>4 DEF Imported, Bears
  <2>2. Open(copy[i]) => LET d == DecisionOf(book, w[i])
                         IN  /\ copy[i].qty = TotalQty(book, Legs(book, d) \ SoldLegs(book))
                             /\ ~(Legs(book, d) \subseteq SoldLegs(book))
    BY <1>1, <1>4, <1>7 DEF Imported
  <2>3. ~Open(copy[i]) => w[i] \in SoldLegs(book) /\ Repeats(copy[i], book[w[i]])
    <3>. SUFFICES ASSUME ~Open(copy[i]) PROVE w[i] \in SoldLegs(book) /\ Repeats(copy[i], book[w[i]])
      OBVIOUS
    <3>1. w[i] \in SoldLegs(book) /\ Repeats(rows[i], book[w[i]])
      BY <1>1, <1>7 DEF Imported
    <3>. QED  BY <1>4, <3>1 DEF Repeats
  <2>. QED  BY <2>1, <2>2, <2>3
<1>10. ASSUME NEW i \in D PROVE copy[i].qty \in Nat \ {0}
  <2>1. CASE Open(copy[i])
    <3>. DEFINE d == DecisionOf(book, w[i])
                left == Legs(book, d) \ SoldLegs(book)
    <3>1. d \in Decisions(book)
      BY <1>8 DEF Decisions
    <3>2. IsFiniteSet(Legs(book, d)) /\ Legs(book, d) \subseteq DOMAIN book
      BY <3>1, LeaderIs DEF Orderly
    <3>3. IsFiniteSet(left) /\ left # {} /\ \A t \in left : book[t].qty \in Nat \ {0}
      <4>1. IsFiniteSet(left)
        BY <3>2, FS_Subset
      <4>2. left # {}
        BY <1>9, <2>1
      <4>. QED  BY <3>2, <4>1, <4>2 DEF Orderly, Ledger
    <3>. HIDE DEF left
    <3>4. Shares(book, left) \in Nat \ {0}
      BY <3>3, SharesPositive
    <3>. QED  BY <1>9, <2>1, <3>4 DEF TotalQty, left
  <2>2. CASE ~Open(copy[i])
    <3>1. copy[i].qty = book[w[i]].qty /\ w[i] \in DOMAIN book
      BY <1>8, <1>9, <2>2 DEF Repeats
    <3>. QED  BY <3>1 DEF Orderly, Ledger
  <2>. QED  BY <2>1, <2>2
<1>11. /\ \A i, j \in D : Open(copy[i]) /\ Open(copy[j]) => i = j
       /\ \A i, j \in D : ~Open(copy[i]) /\ ~Open(copy[j]) /\ w[i] = w[j] => i = j
       /\ \A t \in SoldLegs(book) : \E i \in D : ~Open(copy[i]) /\ w[i] = t
       /\ \A d \in Decisions(book) : ~(Legs(book, d) \subseteq SoldLegs(book)) =>
            \E i \in D : Open(copy[i]) /\ DecisionOf(book, w[i]) = d
  BY <1>1, <1>7 DEF Imported
<1>12. \A i, j \in D : DecisionOf(copy, i) = DecisionOf(copy, j)
                         <=> DecisionOf(book, w[i]) = DecisionOf(book, w[j])
  BY <1>5, <1>6
<1>13. Copied(book, copy, w)
  BY <1>3, <1>8, <1>9, <1>10, <1>11, <1>12 DEF Copied
<1>. QED  BY <1>13 DEF copy

-----------------------------------------------------------------------------
(* The decisions of the imported book. *)

\* f pairs off the members of S with those of T.
PairsOff(f, S, T) ==
  /\ f \in [S -> T]
  /\ \A x, y \in S : f[x] = f[y] => x = y
  /\ \A y \in T : \E x \in S : f[x] = y

LEMMA SameCount ==
  ASSUME NEW S, IsFiniteSet(S), NEW T, NEW f, PairsOff(f, S, T)
  PROVE  IsFiniteSet(T) /\ Cardinality(T) = Cardinality(S)
<1>1. f \in Surjection(S, T)
  BY DEF PairsOff, Surjection
<1>2. f \in Injection(S, T)
  BY DEF PairsOff, Injection, IsInjective
<1>. QED  BY <1>1, <1>2, FS_Surjection

\* Paired sets in which a property is shared have as many members with it.
LEMMA SameCountWith ==
  ASSUME NEW S, IsFiniteSet(S), NEW T, NEW f, PairsOff(f, S, T),
         NEW A, NEW B, A \subseteq S, B \subseteq T, \A x \in S : x \in A <=> f[x] \in B
  PROVE  Cardinality(A) = Cardinality(B)
<1>. DEFINE g == [x \in A |-> f[x]]
<1>1. IsFiniteSet(A)
  BY FS_Subset
<1>2. PairsOff(g, A, B)
  BY DEF PairsOff
<1>. HIDE DEF g
<1>. QED  BY <1>1, <1>2, SameCount

SoldOf(book, d) == {t \in Legs(book, d) : ~Open(book[t])}

LEMMA ProfileIs ==
  ASSUME NEW book, NEW d
  PROVE  Profile(book, d) =
           [held |-> TotalQty(book, Legs(book, d) \ SoldOf(book, d)),
            sales |-> [s \in {Signature(book[t]) : t \in SoldOf(book, d)} |->
                         Cardinality({t \in SoldOf(book, d) : Signature(book[t]) = s})]]
BY DEF Profile, SoldOf

\* An imported sale has the signature of the one that was exported.
LEMMA SameSignature ==
  ASSUME NEW book, Orderly(book), NEW copy, NEW w, Copied(book, copy, w),
         NEW i \in DOMAIN copy, ~Open(copy[i])
  PROVE  Signature(copy[i]) = Signature(book[w[i]])
<1>. DEFINE leg == book[w[i]]
            lead == book[Leader(book, DecisionOf(book, w[i]))]
<1>1. w[i] \in DOMAIN book /\ ~Open(leg) /\ Repeats(copy[i], leg) /\ Bears(copy[i], lead)
  BY DEF Copied, SoldLegs
<1>2. DeriveR(leg) = None => ~AtRisk(lead)
  BY <1>1 DEF Orderly
<1>. HIDE DEF leg, lead
<1>3. AtRisk(copy[i]) <=> AtRisk(lead)
  BY <1>1 DEF Bears, AtRisk, StopForR
<1>4. copy[i].r_multiple = DeriveR(leg)
  BY <1>1 DEF Repeats
<1>5. DeriveR(copy[i]) = DeriveR(leg)
  <2>1. CASE DeriveR(leg) # None
    BY <1>4, <2>1 DEF DeriveR
  <2>2. CASE DeriveR(leg) = None
    <3>1. ~AtRisk(copy[i]) /\ copy[i].r_multiple = None
      BY <1>2, <1>3, <1>4, <2>2
    <3>. QED  BY <2>2, <3>1 DEF DeriveR
  <2>. QED  BY <2>1, <2>2
<1>. QED  BY <1>1, <1>5 DEF Repeats, Signature, leg

LEMMA SameProfile ==
  ASSUME NEW book, Orderly(book), NEW copy, NEW w, Copied(book, copy, w),
         NEW e \in Decisions(copy), NEW d \in Decisions(book),
         \A i \in DOMAIN copy : DecisionOf(copy, i) = e <=> DecisionOf(book, w[i]) = d
  PROVE  Profile(copy, e) = Profile(book, d)
<1>. DEFINE S == SoldOf(copy, e)
            T == SoldOf(book, d)
            v == [i \in S |-> w[i]]
<1>1. /\ \A i \in DOMAIN copy : i \in Legs(copy, e) <=> DecisionOf(book, w[i]) = d
      /\ Legs(copy, e) \subseteq DOMAIN copy
  BY DEF Legs
<1>2. Legs(book, d) \subseteq DOMAIN book /\ IsFiniteSet(Legs(book, d))
  BY LeaderIs DEF Orderly
<1>3. \A t \in DOMAIN book : t \in Legs(book, d) <=> DecisionOf(book, t) = d
  BY DEF Legs
<1>4. S \subseteq DOMAIN copy /\ IsFiniteSet(S) /\ \A i \in S : ~Open(copy[i]) /\ i \in Legs(copy, e)
  <2>1. S \subseteq DOMAIN copy /\ \A i \in S : ~Open(copy[i]) /\ i \in Legs(copy, e)
    BY <1>1 DEF SoldOf
  <2>2. IsFiniteSet(DOMAIN copy)
    BY DEF Copied
  <2>. HIDE DEF S
  <2>. QED  BY <2>1, <2>2, FS_Subset
<1>5. T = {t \in SoldLegs(book) : DecisionOf(book, t) = d} /\ T \subseteq Legs(book, d)
  BY <1>2, <1>3 DEF SoldOf, SoldLegs
<1>6. PairsOff(v, S, T)
  <2>1. ASSUME NEW i \in S PROVE w[i] \in T
    <3>1. w[i] \in SoldLegs(book) /\ DecisionOf(book, w[i]) = d
      BY <1>1, <1>4 DEF Copied
    <3>. QED  BY <1>5, <3>1
  <2>2. \A i, j \in S : w[i] = w[j] => i = j
    BY <1>4 DEF Copied
  <2>3. ASSUME NEW t \in T PROVE \E i \in S : w[i] = t
    <3>1. t \in SoldLegs(book) /\ DecisionOf(book, t) = d
      BY <1>5
    <3>2. PICK i \in DOMAIN copy : ~Open(copy[i]) /\ w[i] = t
      BY <3>1 DEF Copied
    <3>. QED  BY <1>1, <3>1, <3>2 DEF SoldOf
  <2>. HIDE DEF S, T
  <2>. QED  BY <2>1, <2>2, <2>3 DEF PairsOff
<1>7. \A i \in S : v[i] = w[i] /\ Signature(copy[i]) = Signature(book[v[i]])
  BY <1>4, SameSignature
<1>. HIDE DEF S, T, v
<1>8. {Signature(copy[i]) : i \in S} = {Signature(book[t]) : t \in T}
  BY <1>6, <1>7 DEF PairsOff
<1>9. ASSUME NEW s
      PROVE  Cardinality({i \in S : Signature(copy[i]) = s}) = Cardinality({t \in T : Signature(book[t]) = s})
  <2>. DEFINE A == {i \in S : Signature(copy[i]) = s}
              B == {t \in T : Signature(book[t]) = s}
  <2>1. A \subseteq S /\ B \subseteq T /\ \A i \in S : i \in A <=> v[i] \in B
    BY <1>6, <1>7 DEF PairsOff
  <2>. HIDE DEF A, B
  <2>2. Cardinality(A) = Cardinality(B)
    BY <1>4, <1>6, <2>1, SameCountWith
  <2>. QED  BY <2>2 DEF A, B
<1>10. [s \in {Signature(copy[i]) : i \in S} |-> Cardinality({i \in S : Signature(copy[i]) = s})]
         = [s \in {Signature(book[t]) : t \in T} |-> Cardinality({t \in T : Signature(book[t]) = s})]
  <2>. DEFINE a(s) == Cardinality({i \in S : Signature(copy[i]) = s})
              b(s) == Cardinality({t \in T : Signature(book[t]) = s})
              X == {Signature(copy[i]) : i \in S}
              Y == {Signature(book[t]) : t \in T}
  <2>1. \A s \in X : a(s) = b(s)
    BY <1>9
  <2>2. X = Y
    BY <1>8
  <2>. HIDE DEF a, b, X, Y
  <2>3. [s \in X |-> a(s)] = [s \in Y |-> b(s)]
    BY <2>1, <2>2
  <2>. QED  BY <2>3 DEF a, b, X, Y
<1>11. TotalQty(copy, Legs(copy, e) \ S) = TotalQty(book, Legs(book, d) \ T)
  <2>. DEFINE kept == Legs(copy, e) \ S
              left == Legs(book, d) \ SoldLegs(book)
  <2>1. Legs(book, d) \ T = left
    <3>1. \A t \in Legs(book, d) : t \in T <=> t \in SoldLegs(book)
      BY <1>2, <1>3, <1>5
    <3>. QED  BY <3>1
  <2>2. \A i \in kept : i \in DOMAIN copy /\ Open(copy[i]) /\ DecisionOf(book, w[i]) = d
    BY <1>1 DEF S, SoldOf
  <2>3. CASE left = {}
    <3>1. kept = {}
      <4>. SUFFICES ASSUME NEW i \in kept PROVE FALSE
        OBVIOUS
      <4>1. ~(Legs(book, d) \subseteq SoldLegs(book))
        BY <2>2 DEF Copied
      <4>. QED  BY <2>3, <4>1
    <3>. QED  BY <2>1, <2>3, <3>1, SharesEmpty DEF TotalQty
  <2>4. CASE left # {}
    <3>1. PICK i \in DOMAIN copy : Open(copy[i]) /\ DecisionOf(book, w[i]) = d
      <4>1. ~(Legs(book, d) \subseteq SoldLegs(book))
        BY <2>4
      <4>. QED  BY <4>1 DEF Copied
    <3>2. kept = {} \cup {i}
      <4>1. i \in kept
        BY <1>1, <1>4, <3>1
      <4>2. \A j \in kept : j = i
        BY <2>2, <3>1 DEF Copied
      <4>. QED  BY <4>1, <4>2
    <3>3. copy[i].qty \in Int /\ copy[i].qty = TotalQty(book, left)
      BY <3>1 DEF Copied
    <3>4. Shares(copy, {} \cup {i}) = Shares(copy, {}) + copy[i].qty
      <4>1. IsFiniteSet({}) /\ \A t \in {} : copy[t].qty \in Int
        BY FS_EmptySet
      <4>2. i \notin {}
        OBVIOUS
      <4>. QED  BY <3>3, <4>1, <4>2, SharesAdd
    <3>5. Shares(copy, {}) = 0
      BY SharesEmpty
    <3>6. Shares(copy, kept) = copy[i].qty
      <4>. HIDE DEF kept, left
      <4>1. Shares(copy, kept) = Shares(copy, {} \cup {i})
        BY <3>2
      <4>. QED  BY ONLY <3>3, <3>4, <3>5, <4>1
    <3>. QED  BY <2>1, <3>3, <3>6 DEF TotalQty
  <2>. QED  BY <2>3, <2>4
<1>. QED  BY <1>10, <1>11, ProfileIs DEF S, T

\* Decisions that are paired off with their profiles.
Mirrors(f, a, b) ==
  /\ PairsOff(f, Decisions(a), Decisions(b))
  /\ \A d \in Decisions(a) : Profile(b, f[d]) = Profile(a, d)

LEMMA MirrorsHaveSameDecisions ==
  ASSUME NEW a, NEW b, IsFiniteSet(Decisions(a)), NEW f, Mirrors(f, a, b)
  PROVE  SameDecisions(b, a)
<1>1. ASSUME NEW p
      PROVE  Cardinality({d \in Decisions(b) : Profile(b, d) = p})
               = Cardinality({d \in Decisions(a) : Profile(a, d) = p})
  <2>. DEFINE A == {d \in Decisions(a) : Profile(a, d) = p}
              B == {d \in Decisions(b) : Profile(b, d) = p}
  <2>1. A \subseteq Decisions(a) /\ B \subseteq Decisions(b) /\ PairsOff(f, Decisions(a), Decisions(b))
    BY DEF Mirrors
  <2>2. \A d \in Decisions(a) : d \in A <=> f[d] \in B
    BY <2>1 DEF Mirrors, PairsOff
  <2>. HIDE DEF A, B
  <2>3. Cardinality(A) = Cardinality(B)
    BY <2>1, <2>2, SameCountWith
  <2>. QED  BY <2>3 DEF A, B
<1>. QED  BY <1>1 DEF SameDecisions

LEMMA CopyMirrors ==
  ASSUME NEW book, Orderly(book), NEW copy, NEW w, Copied(book, copy, w)
  PROVE  SameDecisions(book, copy)
<1>. DEFINE D == DOMAIN copy
            E == Decisions(copy)
            of(e) == CHOOSE i \in D : DecisionOf(copy, i) = e
            f == [e \in E |-> DecisionOf(book, w[of(e)])]
<1>1. w \in [D -> DOMAIN book] /\ IsFiniteSet(D)
  BY DEF Copied
<1>2. ASSUME NEW e \in E PROVE of(e) \in D /\ DecisionOf(copy, of(e)) = e
  <2>1. \E i \in D : DecisionOf(copy, i) = e
    BY DEF Decisions
  <2>. QED  BY <2>1
<1>3. \A i, j \in D : DecisionOf(copy, i) = DecisionOf(copy, j)
                        <=> DecisionOf(book, w[i]) = DecisionOf(book, w[j])
  BY DEF Copied
<1>4. \A e \in E : f[e] = DecisionOf(book, w[of(e)])
  OBVIOUS
<1>5. \A i \in D : DecisionOf(copy, i) \in E /\ DecisionOf(book, w[i]) \in Decisions(book)
  BY <1>1 DEF Decisions
<1>6. f \in [E -> Decisions(book)]
  <2>. HIDE DEF of, E
  <2>. QED  BY <1>2, <1>5
<1>. HIDE DEF of, f, E
<1>7. \A i \in D, e \in E : DecisionOf(copy, i) = e <=> DecisionOf(book, w[i]) = f[e]
  BY <1>2, <1>3, <1>4
<1>8. \A x, y \in E : f[x] = f[y] => x = y
  BY <1>2, <1>4, <1>7
<1>9. ASSUME NEW d \in Decisions(book) PROVE \E e \in E : f[e] = d
  <2>1. PICK i \in D : DecisionOf(book, w[i]) = d
    <3>1. CASE Legs(book, d) \subseteq SoldLegs(book)
      <4>1. Leader(book, d) \in SoldLegs(book) /\ DecisionOf(book, Leader(book, d)) = d
        BY <3>1, LeaderIs DEF Orderly
      <4>. QED  BY <4>1 DEF Copied
    <3>2. CASE ~(Legs(book, d) \subseteq SoldLegs(book))
      BY <3>2 DEF Copied
    <3>. QED  BY <3>1, <3>2
  <2>. QED  BY <1>5, <1>7, <2>1
<1>10. PairsOff(f, E, Decisions(book))
  BY <1>6, <1>8, <1>9 DEF PairsOff
<1>11. ASSUME NEW e \in E PROVE Profile(book, f[e]) = Profile(copy, e)
  <2>1. f[e] \in Decisions(book)
    BY <1>6
  <2>. QED  BY <1>7, <2>1, SameProfile DEF E
<1>12. IsFiniteSet(E)
  <2>. DEFINE g == [i \in D |-> DecisionOf(copy, i)]
  <2>1. g \in [D -> E] /\ \A e \in E : \E i \in D : g[i] = e
    BY <1>2, <1>5
  <2>. HIDE DEF g
  <2>2. g \in Surjection(D, E)
    BY <2>1 DEF Surjection
  <2>. QED  BY <1>1, <2>2, FS_Surjection
<1>13. Mirrors(f, copy, book)
  BY <1>10, <1>11 DEF Mirrors, E
<1>. QED  BY <1>12, <1>13, MirrorsHaveSameDecisions DEF E

-----------------------------------------------------------------------------
(* Whatever the journal went through, and however many trades it has: the  *)
(* backup of an ordered journal, imported again, has the same decisions,   *)
(* each with what it holds and with its sales, their profit and their R    *)
(* (export_csv, _import_csv_uncommitted).                                  *)
THEOREM BackupIsRestored == Spec => []BackupRestores
<1>1. TypeOK => BackupRestores
  <2>. SUFFICES ASSUME TypeOK, Ordered, RatedAlike
                PROVE  SameDecisions(Book, ImportCsv(ExportCsv(Book)))
    BY DEF BackupRestores
  <2>1. PICK book, sheet : book = Book /\ sheet = ExportCsv(Book)
    OBVIOUS
  <2>2. Orderly(book)
    BY <2>1, OrderlyBook
  <2>3. Lists(book, sheet)
    BY <2>1, <2>2, SheetInOrder DEF Lists
  <2>4. PICK w : Copied(book, ImportCsv(sheet), w)
    BY <2>2, <2>3, ImportCopies
  <2>5. SameDecisions(book, ImportCsv(sheet))
    BY <2>2, <2>4, CopyMirrors
  <2>. QED  BY <2>1, <2>5
<1>. QED  BY <1>1, TypeCorrect, PTL

-----------------------------------------------------------------------------
(* The two scoreboards: sums over the legs of a decision. *)

LEMMA SumIs ==
  ASSUME NEW S, IsFiniteSet(S), NEW w \in [S -> Int]
  PROVE  \E sum : SumsOver(sum, S, w) /\ SumFunction(w) = sum[S]
<1>. DEFINE IsSum(sum) == sum = [T \in SUBSET S |->
              IF T = {} THEN 0 ELSE w[Some(T)] + sum[T \ {Some(T)}]]
<1>1. \E sum : IsSum(sum)
  <2>1. PICK sum : SumsOver(sum, S, w)
    BY SumsExist
  <2>2. IsSum(sum)
    BY <2>1 DEF SumsOver
  <2>. HIDE DEF IsSum
  <2>. QED  BY <2>2
<1>2. SumFunction(w) = (CHOOSE sum : IsSum(sum))[S]
  <2>1. DOMAIN w = S
    OBVIOUS
  <2>. QED  BY Zenon, <2>1 DEF SumFunction, SumFunctionOnSet, FoldFunctionOnSet, MapThenFoldSet, Some
<1>3. IsSum(CHOOSE sum : IsSum(sum))
  <2>. HIDE DEF IsSum
  <2>. QED  BY <1>1
<1>. QED  BY <1>2, <1>3 DEF SumsOver

\* A sum lies within the bounds of its terms.
LEMMA SumsCompare ==
  ASSUME NEW S, IsFiniteSet(S), NEW f \in [S -> Int], NEW g \in [S -> Int],
         \A x \in S : f[x] <= g[x]
  PROVE  /\ SumFunction(f) \in Int /\ SumFunction(g) \in Int
         /\ SumFunction(f) <= SumFunction(g)
         /\ S # {} /\ (\A x \in S : f[x] < g[x]) => SumFunction(f) < SumFunction(g)
<1>1. PICK a : SumsOver(a, S, f) /\ SumFunction(f) = a[S]
  BY SumIs
<1>2. PICK b : SumsOver(b, S, g) /\ SumFunction(g) = b[S]
  BY SumIs
<1>7. /\ \A T \in SUBSET S : \A x \in T : a[T] = f[x] + a[T \ {x}]
      /\ \A T \in SUBSET S : \A x \in T : b[T] = g[x] + b[T \ {x}]
  BY <1>1, <1>2, SumsAnyFirst
<1>3. a \in [SUBSET S -> Int] /\ b \in [SUBSET S -> Int]
  BY <1>1, <1>2, SumsTyped
<1>. DEFINE P == {T \in SUBSET S : a[T] <= b[T] /\ (T # {} /\ (\A x \in S : f[x] < g[x]) => a[T] < b[T])}
<1>4. {} \in P
  <2>1. a[{}] = 0 /\ b[{}] = 0
    BY <1>1, <1>2 DEF SumsOver
  <2>. QED  BY <2>1
<1>5. ASSUME NEW T \in SUBSET S, NEW x \in S \ T, T \in P PROVE T \cup {x} \in P
  <2>0. T \cup {x} \in SUBSET S /\ x \in T \cup {x} /\ (T \cup {x}) \ {x} = T
    OBVIOUS
  <2>1. a[T \cup {x}] = f[x] + a[T]
    BY <1>7, <2>0
  <2>2. b[T \cup {x}] = g[x] + b[T]
    BY <1>7, <2>0
  <2>3. f[x] \in Int /\ g[x] \in Int /\ a[T] \in Int /\ b[T] \in Int /\ f[x] <= g[x] /\ a[T] <= b[T]
    BY <1>3, <1>5
  <2>4. a[T \cup {x}] <= b[T \cup {x}]
    BY <2>1, <2>2, <2>3
  <2>5. (\A y \in S : f[y] < g[y]) => a[T \cup {x}] < b[T \cup {x}]
    BY <2>1, <2>2, <2>3
  <2>. QED  BY <2>0, <2>4, <2>5
<1>. HIDE DEF P
<1>6. S \in P
  BY <1>4, <1>5, SetInduction
<1>. QED  BY <1>1, <1>2, <1>3, <1>6 DEF P

Sums(S, weight, sum) == IsFiniteSet(S) /\ weight \in [S -> Int] /\ SumsOver(sum, S, weight)

LEMMA SumTakesOne ==
  ASSUME NEW S, NEW weight, NEW sum, Sums(S, weight, sum)
  PROVE  /\ sum[{}] = 0
         /\ \A T \in SUBSET S : \A x \in T : sum[T] = weight[x] + sum[T \ {x}]
<1>1. IsFiniteSet(S) /\ weight \in [S -> Int] /\ SumsOver(sum, S, weight)
  BY DEF Sums
<1>2. ASSUME NEW T \in SUBSET S, NEW x \in T PROVE sum[T] = weight[x] + sum[T \ {x}]
  BY <1>1, SumsAnyFirst
<1>3. sum[{}] = 0
  BY <1>1 DEF SumsOver
<1>. QED  BY <1>2, <1>3

LEMMA SumOfOne ==
  ASSUME NEW t, NEW S, S = {t}, NEW w \in [S -> Int]
  PROVE  SumFunction(w) = w[t]
<1>1. IsFiniteSet(S) /\ t \in S
  BY FS_Singleton
<1>2. PICK a : SumsOver(a, S, w) /\ SumFunction(w) = a[S]
  BY <1>1, SumIs
<1>3. Sums(S, w, a)
  BY <1>1, <1>2 DEF Sums
<1>4. a[{}] = 0 /\ \A T \in SUBSET S : \A x \in T : a[T] = w[x] + a[T \ {x}]
  BY <1>3, SumTakesOne
<1>6. a[S] = w[t] + a[S \ {t}]
  BY <1>1, <1>4
<1>5. S \ {t} = {} /\ w[t] \in Int
  BY <1>1
<1>. QED  BY <1>2, <1>4, <1>5, <1>6

LEMMA SumNegated ==
  ASSUME NEW S, IsFiniteSet(S), NEW f \in [S -> Int], NEW g \in [S -> Int],
         \A x \in S : g[x] = -f[x]
  PROVE  SumFunction(g) = -SumFunction(f)
<1>1. PICK a : SumsOver(a, S, f) /\ SumFunction(f) = a[S]
  BY SumIs
<1>2. PICK b : SumsOver(b, S, g) /\ SumFunction(g) = b[S]
  BY SumIs
<1>3. a \in [SUBSET S -> Int] /\ b \in [SUBSET S -> Int]
  BY <1>1, <1>2, SumsTyped
<1>4. /\ \A T \in SUBSET S : \A x \in T : a[T] = f[x] + a[T \ {x}]
      /\ \A T \in SUBSET S : \A x \in T : b[T] = g[x] + b[T \ {x}]
  BY <1>1, <1>2, SumsAnyFirst
<1>. DEFINE P == {T \in SUBSET S : b[T] = -a[T]}
<1>5. {} \in P
  <2>1. a[{}] = 0 /\ b[{}] = 0
    BY <1>1, <1>2 DEF SumsOver
  <2>. QED  BY <2>1
<1>6. ASSUME NEW T \in SUBSET S, NEW x \in S \ T, T \in P PROVE T \cup {x} \in P
  <2>. DEFINE U == T \cup {x}
  <2>0. U \in SUBSET S /\ x \in U /\ U \ {x} = T
    OBVIOUS
  <2>. HIDE DEF U
  <2>1. a[U] = f[x] + a[T]
    <3>1. a[U] = f[x] + a[U \ {x}]
      BY <1>4, <2>0
    <3>. QED  BY <3>1, <2>0
  <2>2. b[U] = g[x] + b[T]
    <3>1. b[U] = g[x] + b[U \ {x}]
      BY <1>4, <2>0
    <3>. QED  BY <3>1, <2>0
  <2>3. f[x] \in Int /\ a[T] \in Int /\ b[T] = -a[T] /\ g[x] = -f[x]
    BY <1>3, <1>6
  <2>4. b[U] = -a[U]
    BY <2>1, <2>2, <2>3
  <2>. QED  BY <2>0, <2>4 DEF U
<1>. HIDE DEF P
<1>7. S \in P
  BY <1>5, <1>6, SetInduction
<1>. QED  BY <1>1, <1>2, <1>7 DEF P

\* A common factor can be taken out of a sum.
LEMMA SumScaled ==
  ASSUME NEW S, IsFiniteSet(S), NEW k \in Int, NEW f \in [S -> Int], NEW g \in [S -> Int],
         \A x \in S : g[x] = k * f[x]
  PROVE  SumFunction(f) \in Int /\ SumFunction(g) = k * SumFunction(f)
<1>1. PICK a : SumsOver(a, S, f) /\ SumFunction(f) = a[S]
  BY SumIs
<1>2. PICK b : SumsOver(b, S, g) /\ SumFunction(g) = b[S]
  BY SumIs
<1>3. a \in [SUBSET S -> Int] /\ b \in [SUBSET S -> Int]
  BY <1>1, <1>2, SumsTyped
<1>4. /\ \A T \in SUBSET S : \A x \in T : a[T] = f[x] + a[T \ {x}]
      /\ \A T \in SUBSET S : \A x \in T : b[T] = g[x] + b[T \ {x}]
  BY <1>1, <1>2, SumsAnyFirst
<1>. DEFINE P == {T \in SUBSET S : b[T] = k * a[T]}
<1>5. {} \in P
  <2>1. a[{}] = 0 /\ b[{}] = 0
    BY <1>1, <1>2 DEF SumsOver
  <2>. QED  BY <2>1
<1>6. ASSUME NEW T \in SUBSET S, NEW x \in S \ T, T \in P PROVE T \cup {x} \in P
  <2>. DEFINE U == T \cup {x}
  <2>0. U \in SUBSET S /\ x \in U /\ U \ {x} = T
    OBVIOUS
  <2>. HIDE DEF U
  <2>1. a[U] = f[x] + a[T]
    <3>1. a[U] = f[x] + a[U \ {x}]
      BY <1>4, <2>0
    <3>. QED  BY <3>1, <2>0
  <2>2. b[U] = g[x] + b[T]
    <3>1. b[U] = g[x] + b[U \ {x}]
      BY <1>4, <2>0
    <3>. QED  BY <3>1, <2>0
  <2>3. PICK m, n \in Int : m = f[x] /\ n = a[T]
    BY <1>3
  <2>4. b[U] = k * m + k * n
    BY <1>6, <2>2, <2>3
  <2>5. k * m + k * n = k * (m + n)
    OBVIOUS
  <2>6. b[U] = k * a[U]
    BY <2>1, <2>3, <2>4, <2>5
  <2>. QED  BY <2>0, <2>6 DEF U
<1>. HIDE DEF P
<1>7. S \in P
  BY <1>5, <1>6, SetInduction
<1>. QED  BY <1>1, <1>2, <1>3, <1>7 DEF P

Product(w) == FoldFunction(LAMBDA x, y : x * y, 1, w)

LEMMA ProductIs ==
  ASSUME NEW S, IsFiniteSet(S), NEW w \in [S -> Nat \ {0}]
  PROVE  \E prod : ProductsOver(prod, S, w) /\ Product(w) = prod[S]
<1>. DEFINE IsProduct(prod) == prod = [T \in SUBSET S |->
              IF T = {} THEN 1 ELSE w[Some(T)] * prod[T \ {Some(T)}]]
<1>1. \E prod : IsProduct(prod)
  <2>1. PICK prod : ProductsOver(prod, S, w)
    BY ProductsExist
  <2>2. IsProduct(prod)
    BY <2>1 DEF ProductsOver
  <2>. HIDE DEF IsProduct
  <2>. QED  BY <2>2
<1>2. Product(w) = (CHOOSE prod : IsProduct(prod))[S]
  <2>1. DOMAIN w = S
    OBVIOUS
  <2>. QED  BY Zenon, <2>1 DEF Product, FoldFunction, FoldFunctionOnSet, MapThenFoldSet, Some
<1>3. IsProduct(CHOOSE prod : IsProduct(prod))
  <2>. HIDE DEF IsProduct
  <2>. QED  BY <1>1
<1>. QED  BY <1>2, <1>3 DEF ProductsOver

\* A product is a multiple of each factor.
LEMMA ProductDivides ==
  ASSUME NEW S, IsFiniteSet(S), NEW w \in [S -> Nat \ {0}]
  PROVE  /\ Product(w) \in Nat \ {0}
         /\ \A t \in S : \E k \in Nat \ {0} : /\ Product(w) = w[t] * k
                                              /\ S = {t} => k = 1
<1>1. PICK prod : ProductsOver(prod, S, w) /\ Product(w) = prod[S]
  BY ProductIs
<1>2. \A T \in SUBSET S : prod[T] \in Nat \ {0}
  BY <1>1, ProductsTyped
<1>3. ASSUME NEW t \in S
      PROVE  \E k \in Nat \ {0} : Product(w) = w[t] * k /\ (S = {t} => k = 1)
  <2>1. prod[S] = w[t] * prod[S \ {t}]
    BY <1>1, ProductsAnyFirst
  <2>2. S \ {t} \in SUBSET S /\ (S = {t} => S \ {t} = {})
    OBVIOUS
  <2>3. prod[{}] = 1
    BY <1>1 DEF ProductsOver
  <2>4. prod[S \ {t}] \in Nat \ {0} /\ (S = {t} => prod[S \ {t}] = 1)
    BY <1>2, <2>2, <2>3
  <2>. QED  BY <1>1, <2>1, <2>4
<1>. QED  BY <1>1, <1>2, <1>3

LEMMA ExactQuotient ==
  ASSUME NEW d \in Nat \ {0}, NEW k \in Nat \ {0}
  PROVE  (d * k) \div d = k
<1>1. PICK n \in Nat : n = d * k
  OBVIOUS
<1>2. PICK q \in Int : q = n \div d
  BY <1>1
<1>3. d * q <= n /\ n < d * q + d
  BY <1>1, <1>2
<1>4. ASSUME q > k PROVE FALSE
  <2>1. PICK e \in Nat : q = k + 1 + e
    <3>1. q - k - 1 \in Nat /\ q = k + 1 + (q - k - 1)
      BY <1>4
    <3>. QED  BY <3>1
  <2>2. d * q = d * k + d + d * e /\ d * e \in Nat
    BY <2>1
  <2>. QED  BY <1>1, <1>3, <2>2
<1>5. ASSUME q < k PROVE FALSE
  <2>1. PICK e \in Nat : k = q + 1 + e
    <3>1. k - q - 1 \in Nat /\ k = q + 1 + (k - q - 1)
      BY <1>5
    <3>. QED  BY <3>1
  <2>2. d * k = d * q + d + d * e /\ d * e \in Nat
    BY <2>1
  <2>. QED  BY <1>1, <1>3, <2>2
<1>. QED  BY <1>1, <1>2, <1>4, <1>5

-----------------------------------------------------------------------------
(* One leg. *)

\* A closed trade of which a profit is known or can be derived.
ClosedLeg(row) ==
  /\ ~Open(row)
  /\ row.entry_price \in Nat /\ row.qty \in Nat \ {0}
  /\ row.stop_price \in Nat \cup {None} /\ row.initial_stop_price \in Nat \cup {None}
  /\ row.planned_risk_dollars \in Nat \cup {None}
  /\ row.exit_price \in Nat \cup {None} /\ row.pnl_dollars \in Int \cup {None}
  /\ row.exit_price # None \/ row.pnl_dollars # None
  /\ row.r_multiple \in (Int \X (Nat \ {0})) \cup {None}

\* A leg that made money has no negative R.
GainsAbove(row) == DerivePnl(row) > 0 /\ DeriveR(row) # None => DeriveR(row)[1] >= 0

\* So it is of every leg whose profit and R come from the prices it has: the
\* commissions only lessen the profit.
LEMMA DerivedGains ==
  ASSUME NEW row, ClosedLeg(row), row.pnl_dollars = None, row.r_multiple = None
  PROVE  GainsAbove(row)
<1>. SUFFICES ASSUME DerivePnl(row) > 0, DeriveR(row) # None PROVE DeriveR(row)[1] >= 0
  BY DEF GainsAbove
<1>1. PICK x, e, q \in Nat : row.exit_price = x /\ row.entry_price = e /\ row.qty = q /\ row.exit_price # None
  BY DEF ClosedLeg
<1>2. DerivePnl(row) = 1000 * ((x - e) * q - 2)
  BY <1>1 DEF DerivePnl, Dollars, DEFAULT_COMMISSION
<1>3. PICK g \in Int : g = x - e
  BY <1>1
<1>4. g * q \in Int /\ g * q > 2
  <2>1. PICK n \in Int : n = g * q
    BY <1>1, <1>3
  <2>. QED  BY <1>2, <1>3, <2>1
<1>5. g >= 0
  <2>. SUFFICES ASSUME g < 0 PROVE FALSE
    BY <1>3
  <2>1. g * q <= 0
    BY <1>1, <1>3
  <2>. QED  BY <1>4, <2>1
<1>6. DeriveR(row)[1] = x - e
  BY <1>1 DEF DeriveR, RMultiple
<1>. QED  BY <1>3, <1>5, <1>6

LEMMA LegMeasures ==
  ASSUME NEW row, ClosedLeg(row)
  PROVE  /\ DerivePnl(row) \in Int /\ DerivePnl(row) # None
         /\ BeBand(row) \in Nat
         /\ DeriveR(row) # None => DeriveR(row) \in Int \X (Nat \ {0})
<1>0. None \notin Int
  BY JournalAssumption
<1>1. DerivePnl(row) \in Int
  <2>1. CASE row.pnl_dollars # None
    BY <2>1 DEF DerivePnl, ClosedLeg
  <2>2. CASE row.pnl_dollars = None
    <3>1. PICK x, e, q \in Int : row.exit_price = x /\ row.entry_price = e /\ row.qty = q /\ row.exit_price # None
      BY <2>2 DEF ClosedLeg
    <3>2. (x - e) * q \in Int
      BY <3>1
    <3>. QED  BY <2>2, <3>1, <3>2 DEF DerivePnl, Dollars, DEFAULT_COMMISSION
  <2>. QED  BY <2>1, <2>2
<1>2. EffectiveRisk(row) # None => EffectiveRisk(row) \in Nat
  <2>1. CASE row.planned_risk_dollars # None
    BY <2>1 DEF EffectiveRisk, Dollars, ClosedLeg
  <2>2. CASE row.planned_risk_dollars = None /\ row.stop_price # None /\ row.entry_price > row.stop_price
    <3>1. PICK s, e, q \in Nat : row.stop_price = s /\ row.entry_price = e /\ row.qty = q
      BY <2>2 DEF ClosedLeg
    <3>2. e - s \in Nat
      BY <2>2, <3>1
    <3>3. (e - s) * q \in Nat
      BY <3>2
    <3>4. 1000 * ((e - s) * q) \in Nat
      BY <3>3
    <3>. QED  BY <2>2, <3>1, <3>4 DEF EffectiveRisk, Dollars
  <2>. QED  BY <2>1, <2>2 DEF EffectiveRisk
<1>3. BeBand(row) \in Nat
  <2>1. PICK e, q \in Nat : row.entry_price = e /\ row.qty = q
    BY DEF ClosedLeg
  <2>2. e * q \in Nat
    BY <2>1
  <2>. QED  BY <1>2, <2>1, <2>2 DEF BeBand
<1>4. DeriveR(row) # None => DeriveR(row) \in Int \X (Nat \ {0})
  <2>1. CASE row.r_multiple # None
    BY <2>1 DEF DeriveR, ClosedLeg
  <2>2. CASE row.r_multiple = None /\ row.exit_price # None /\ AtRisk(row)
    <3>1. StopForR(row) \in Nat /\ row.entry_price \in Nat /\ row.exit_price \in Nat /\ row.entry_price > StopForR(row)
      BY <2>2 DEF AtRisk, StopForR, ClosedLeg
    <3>2. RMultiple(row.exit_price, row.entry_price, StopForR(row)) \in Int \X (Nat \ {0})
      BY <3>1 DEF RMultiple
    <3>. QED  BY <2>2, <3>2 DEF DeriveR
  <2>. QED  BY <2>1, <2>2 DEF DeriveR
<1>. QED  BY <1>0, <1>1, <1>3, <1>4

-----------------------------------------------------------------------------
(* The verdicts. *)

\* What the verdict on a decision of closed legs weighs.
Weighed(book) ==
  /\ IsFiniteSet(DOMAIN book) /\ DOMAIN book # {}
  /\ \A t \in DOMAIN book : ClosedLeg(book[t]) /\ GainsAbove(book[t])

Pnls(book) == [t \in DOMAIN book |-> DerivePnl(book[t])]
Bands(book) == [t \in DOMAIN book |-> BeBand(book[t])]
Risks(book) == [t \in Known(book) |-> DeriveR(book[t])[2]]
WeightedR(book) ==
  [t \in Known(book) |-> DeriveR(book[t])[1] * (CommonRisk(book) \div DeriveR(book[t])[2]) * book[t].qty]
Weights(book) == [t \in Known(book) |-> book[t].qty]

\* The R of a leg, brought to the common denominator.
LegIs(book, t, n, d, k, q) ==
  /\ DeriveR(book[t]) = <<n, d>> /\ book[t].qty = q
  /\ CommonRisk(book) = d * k /\ (Known(book) = {t} => k = 1)
  /\ WeightedR(book)[t] = n * k * q

LEMMA LegsAtWhole ==
  ASSUME NEW book, Weighed(book)
  PROVE  /\ CommonRisk(book) \in Nat \ {0}
         /\ IsFiniteSet(Known(book)) /\ Known(book) \subseteq DOMAIN book
         /\ \A t \in Known(book) : \E n \in Int, d, k, q \in Nat \ {0} : LegIs(book, t, n, d, k, q)
<1>1. Known(book) \subseteq DOMAIN book
  BY DEF Known
<1>2. IsFiniteSet(Known(book))
  BY <1>1, FS_Subset DEF Weighed
<1>3. \A t \in Known(book) : /\ DeriveR(book[t]) \in Int \X (Nat \ {0})
                             /\ book[t].qty \in Nat \ {0}
  BY <1>1, LegMeasures DEF Known, Weighed, ClosedLeg
<1>4. Risks(book) \in [Known(book) -> Nat \ {0}]
  BY <1>3 DEF Risks
<1>5. CommonRisk(book) = Product(Risks(book))
  BY Zenon DEF CommonRisk, Product, Risks
<1>6. CommonRisk(book) \in Nat \ {0}
  BY <1>2, <1>4, <1>5, ProductDivides
<1>7. ASSUME NEW t \in Known(book)
      PROVE  \E n \in Int, d, k, q \in Nat \ {0} : LegIs(book, t, n, d, k, q)
  <2>1. PICK n \in Int, d \in Nat \ {0} : DeriveR(book[t]) = <<n, d>>
    BY <1>3
  <2>2. PICK q \in Nat \ {0} : book[t].qty = q
    BY <1>3
  <2>3. Risks(book)[t] = d
    BY <2>1 DEF Risks
  <2>4. PICK k \in Nat \ {0} : Product(Risks(book)) = d * k /\ (Known(book) = {t} => k = 1)
    BY <1>2, <1>4, <2>3, ProductDivides
  <2>5. CommonRisk(book) \div d = k
    BY <1>5, <2>4, ExactQuotient
  <2>6. WeightedR(book)[t] = n * k * q
    BY <2>1, <2>2, <2>5 DEF WeightedR
  <2>. QED  BY <1>5, <2>1, <2>2, <2>4, <2>6 DEF LegIs
<1>. QED  BY <1>1, <1>2, <1>6, <1>7

LEMMA WeighedTyped ==
  ASSUME NEW book, Weighed(book)
  PROVE  /\ Priced(book) = DOMAIN book /\ NetPnl(book) = SumFunction(Pnls(book))
         /\ Pnls(book) \in [DOMAIN book -> Int] /\ Bands(book) \in [DOMAIN book -> Int]
         /\ WeightedR(book) \in [Known(book) -> Int] /\ Weights(book) \in [Known(book) -> Int]
         /\ \A t \in DOMAIN book : Bands(book)[t] >= 0
<1>1. \A t \in DOMAIN book : /\ DerivePnl(book[t]) \in Int /\ DerivePnl(book[t]) # None
                             /\ BeBand(book[t]) \in Nat
  BY LegMeasures DEF Weighed
<1>2. Priced(book) = DOMAIN book
  BY <1>1 DEF Priced
<1>3. NetPnl(book) = SumFunction(Pnls(book))
  BY <1>2 DEF NetPnl, Pnls
<1>4. \A t \in Known(book) : WeightedR(book)[t] \in Int /\ Weights(book)[t] \in Int
  <2>. TAKE t \in Known(book)
  <2>1. PICK n \in Int, d, k, q \in Nat \ {0} : LegIs(book, t, n, d, k, q)
    BY LegsAtWhole
  <2>2. n * k * q \in Int
    OBVIOUS
  <2>. QED  BY <2>1, <2>2 DEF LegIs, Weights
<1>5. WeightedR(book) \in [Known(book) -> Int] /\ Weights(book) \in [Known(book) -> Int]
  <2>1. /\ WeightedR(book) = [t \in Known(book) |-> WeightedR(book)[t]]
        /\ Weights(book) = [t \in Known(book) |-> Weights(book)[t]]
    BY DEF WeightedR, Weights
  <2>. QED  BY <1>4, <2>1
<1>. QED  BY <1>1, <1>2, <1>3, <1>5 DEF Pnls, Bands

LEMMA VerdictOfDecision ==
  ASSUME NEW book, Weighed(book)
  PROVE  LET net == SumFunction(Pnls(book))
             band == SumFunction(Bands(book))
             gain == \E t \in DOMAIN book : DerivePnl(book[t]) > BeBand(book[t])
         IN  DecisionVerdict(book) =
               IF ScratchR(book) THEN "breakeven"
               ELSE IF RunnerBreakeven(book) \/ net > band THEN "win"
               ELSE IF net < -band THEN "loss"
               ELSE IF gain /\ net >= 0 THEN "win"
               ELSE "breakeven"
<1>1. /\ Priced(book) = DOMAIN book /\ NetPnl(book) = SumFunction(Pnls(book))
      /\ ~ \E t \in DOMAIN book : Open(book[t])
      /\ Priced(book) # {}
  BY WeighedTyped DEF Weighed, ClosedLeg
<1>2. SumFunction([t \in DOMAIN book |-> BeBand(book[t])]) = SumFunction(Bands(book))
  BY DEF Bands
<1>. QED  BY <1>1, <1>2 DEF DecisionVerdict

LEMMA ScratchOfDecision ==
  ASSUME NEW book
  PROVE  ScratchR(book) <=>
           /\ Known(book) # {}
           /\ 10 * Abs(SumFunction(WeightedR(book))) <= CommonRisk(book) * SumFunction(Weights(book))
BY DEF ScratchR, InBand, DecisionWeightedR, WeightedR, Weights

\* What the verdict on one trade tells of its profit and its R.
LEMMA VerdictOfTrade ==
  ASSUME NEW row, ClosedLeg(row), GainsAbove(row)
  PROVE  LET pnl == DerivePnl(row)
             band == BeBand(row)
             r == DeriveR(row)
         IN  /\ TradeVerdict(row) \in {"win", "loss", "breakeven"}
             /\ TradeVerdict(row) = "breakeven" <=>
                  (r # None /\ InBand(r)) \/ (-band <= pnl /\ pnl <= band)
             /\ TradeVerdict(row) = "win" => pnl > band /\ (r # None => 10 * r[1] > r[2])
             /\ TradeVerdict(row) = "loss" => pnl < -band
<1>. DEFINE pnl == DerivePnl(row)
            band == BeBand(row)
            r == DeriveR(row)
<1>1. pnl \in Int /\ pnl # None /\ band \in Nat
  BY LegMeasures
<1>2. r # None => /\ r[1] \in Int /\ r[2] \in Nat
                  /\ pnl > 0 => r[1] >= 0
  BY LegMeasures DEF GainsAbove
<1>3. IsTradeBreakEven(row) <=> (r # None /\ InBand(r)) \/ Abs(pnl) <= band
  BY DEF IsTradeBreakEven
<1>4. TradeVerdict(row) = IF IsTradeBreakEven(row) THEN "breakeven" ELSE IF pnl > 0 THEN "win" ELSE "loss"
  BY <1>1 DEF TradeVerdict
<1>. HIDE DEF pnl, band, r
<1>5. Abs(pnl) <= band <=> -band <= pnl /\ pnl <= band
  BY <1>1 DEF Abs
<1>6. ASSUME r # None, ~ InBand(r), pnl > 0 PROVE 10 * r[1] > r[2]
  BY <1>2, <1>6 DEF InBand, Abs
<1>7. ~ IsTradeBreakEven(row) /\ pnl > 0 => pnl > band /\ (r # None => 10 * r[1] > r[2])
  BY <1>1, <1>3, <1>5, <1>6
<1>8. ~ IsTradeBreakEven(row) /\ ~ (pnl > 0) => pnl < -band
  BY <1>1, <1>3, <1>5
<1>9. /\ TradeVerdict(row) \in {"win", "loss", "breakeven"}
      /\ TradeVerdict(row) = "breakeven" <=>
           (r # None /\ InBand(r)) \/ (-band <= pnl /\ pnl <= band)
  BY <1>3, <1>4, <1>5
<1>10. /\ TradeVerdict(row) = "win" => pnl > band /\ (r # None => 10 * r[1] > r[2])
       /\ TradeVerdict(row) = "loss" => pnl < -band
  BY <1>4, <1>7, <1>8
<1>. QED  BY <1>9, <1>10 DEF pnl, band, r

\* An R beyond the band is beyond it by any weight, at any denominator.
LEMMA BeyondAtWhole ==
  ASSUME NEW n \in Int, NEW d \in Nat \ {0}, NEW k \in Nat \ {0}, NEW q \in Nat \ {0}
  PROVE  10 * n > d => (d * k) * q < 10 * (n * k * q)
<1>. SUFFICES ASSUME 10 * n > d PROVE (d * k) * q < 10 * (n * k * q)
  OBVIOUS
<1>1. PICK w \in Nat \ {0} : w = k * q
  <2>1. k * q \in Nat \ {0}
    OBVIOUS
  <2>. QED  BY <2>1
<1>2. (d * k) * q = d * w /\ n * k * q = n * w
  BY <1>1
<1>3. PICK e \in Nat \ {0} : 10 * n = d + e
  <2>1. 10 * n - d \in Nat \ {0} /\ 10 * n = d + (10 * n - d)
    OBVIOUS
  <2>. QED  BY <2>1
<1>4. (10 * n) * w = d * w + e * w
  BY <1>3
<1>5. e * w > 0
  OBVIOUS
<1>6. 10 * (n * w) = (10 * n) * w
  OBVIOUS
<1>7. d * w \in Int /\ e * w \in Int /\ 10 * (n * w) \in Int
  OBVIOUS
<1>. QED  BY <1>2, <1>4, <1>5, <1>6, <1>7

LEMMA BandOfOne ==
  ASSUME NEW n \in Int, NEW d \in Nat \ {0}, NEW q \in Nat \ {0}
  PROVE  10 * Abs(n * q) <= d * q <=> 10 * Abs(n) <= d
<1>1. PICK a \in Nat : a = Abs(n)
  BY DEF Abs
<1>2. Abs(n * q) = a * q
  <2>1. CASE n < 0
    <3>1. n * q < 0 /\ a = -n
      BY <1>1, <2>1 DEF Abs
    <3>2. -(n * q) = (-n) * q
      OBVIOUS
    <3>. QED  BY <3>1, <3>2 DEF Abs
  <2>2. CASE n >= 0
    <3>1. n * q >= 0 /\ a = n
      BY <1>1, <2>2 DEF Abs
    <3>2. n * q \in Int
      OBVIOUS
    <3>. QED  BY <3>1, <3>2 DEF Abs
  <2>. QED  BY <2>1, <2>2
<1>3. 10 * (a * q) = (10 * a) * q
  OBVIOUS
<1>4. PICK b \in Nat : b = 10 * a
  OBVIOUS
<1>5. b <= d => b * q <= d * q
  OBVIOUS
<1>6. d < b => d * q < b * q
  OBVIOUS
<1>7. b * q \in Int /\ d * q \in Int
  OBVIOUS
<1>. QED  BY <1>1, <1>2, <1>3, <1>4, <1>5, <1>6, <1>7

\* Whatever legs a decision has, and however many, if each that made money has
\* no negative R: with one leg it has the verdict of its trade; legs that all
\* win make a winner, legs that all lose a loser unless their mean R is a
\* scratch; a winner has not lost money and a loser has.  The premise leaves out
\* an R that was imported, or kept after its stop was removed.
THEOREM VerdictsFollow ==
  ASSUME NEW book, Weighed(book)
  PROVE  VerdictsAgree(book)
<1>. DEFINE D == DOMAIN book
            K == Known(book)
            net == SumFunction(Pnls(book))
            band == SumFunction(Bands(book))
            rs == SumFunction(WeightedR(book))
            qs == SumFunction(Weights(book))
            scratch == ScratchR(book)
            gain == \E t \in D : DerivePnl(book[t]) > BeBand(book[t])
            v == DecisionVerdict(book)
            trades == {TradeVerdict(book[t]) : t \in D}
<1>1. v = IF scratch THEN "breakeven"
          ELSE IF RunnerBreakeven(book) \/ net > band THEN "win"
          ELSE IF net < -band THEN "loss"
          ELSE IF gain /\ net >= 0 THEN "win"
          ELSE "breakeven"
  BY VerdictOfDecision
<1>2. /\ IsFiniteSet(D) /\ D # {} /\ IsFiniteSet(K) /\ K \subseteq D /\ NetPnl(book) = net
      /\ CommonRisk(book) \in Nat \ {0}
  BY WeighedTyped, LegsAtWhole DEF Weighed
<1>3. net \in Int /\ band \in Int /\ band >= 0
  <2>1. net \in Int
    BY <1>2, WeighedTyped, SumsCompare
  <2>2. band \in Int /\ 0 <= band
    <3>. DEFINE zero == [t \in D |-> 0]
    <3>0. zero \in [D -> Int] /\ \A t \in D : zero[t] = 0
      OBVIOUS
    <3>4. Bands(book) \in [D -> Int] /\ \A t \in D : Bands(book)[t] >= 0
      BY WeighedTyped
    <3>. HIDE DEF zero, D
    <3>1. \A t \in D : zero[t] <= Bands(book)[t] /\ zero[t] = -zero[t]
      BY <3>0, <3>4
    <3>2. SumFunction(zero) = -SumFunction(zero)
      BY <1>2, <3>0, <3>1, SumNegated
    <3>3. SumFunction(zero) \in Int /\ SumFunction(zero) <= band /\ band \in Int
      BY <1>2, <3>0, <3>1, <3>4, SumsCompare
    <3>. QED  BY <3>2, <3>3
  <2>. QED  BY <2>1, <2>2
<1>4. RunnerBreakeven(book) => net > 0 /\ Cardinality(D) >= 2
  BY <1>2 DEF RunnerBreakeven
<1>5. \A t \in D : ClosedLeg(book[t]) /\ GainsAbove(book[t])
  BY DEF Weighed
<1>6. /\ rs \in Int /\ qs \in Int
      /\ WeightedR(book) \in [K -> Int] /\ Weights(book) \in [K -> Int]
      /\ \A t \in K : DeriveR(book[t]) # None /\ Weights(book)[t] = book[t].qty
  <2>1. rs \in Int /\ qs \in Int
    BY <1>2, WeighedTyped, SumsCompare
  <2>. QED  BY <2>1, WeighedTyped DEF Known, Weights
<1>7. \A t \in D : Pnls(book)[t] = DerivePnl(book[t]) /\ Bands(book)[t] = BeBand(book[t])
  BY DEF Pnls, Bands
<1>8. scratch <=> K # {} /\ 10 * Abs(rs) <= CommonRisk(book) * qs
  BY ScratchOfDecision
<1>. HIDE DEF scratch, gain, v, net, band, rs, qs, D, K
<1>9. (v = "win" => NetPnl(book) >= 0) /\ (v = "loss" => NetPnl(book) < 0)
  BY <1>1, <1>2, <1>3, <1>4
<1>10. ASSUME trades = {"win"} PROVE v = "win"
  <2>1. \A t \in D : /\ Bands(book)[t] < Pnls(book)[t] /\ Bands(book)[t] <= Pnls(book)[t]
                     /\ DeriveR(book[t]) # None => 10 * DeriveR(book[t])[1] > DeriveR(book[t])[2]
    <3>. TAKE t \in D
    <3>1. TradeVerdict(book[t]) = "win"
      BY <1>10
    <3>2. BeBand(book[t]) \in Int /\ DerivePnl(book[t]) \in Int
      BY <1>5, LegMeasures
    <3>. QED  BY <1>5, <1>7, <3>1, <3>2, VerdictOfTrade
  <2>2. net > band
    <3>1. Pnls(book) \in [D -> Int] /\ Bands(book) \in [D -> Int]
      BY WeighedTyped DEF D
    <3>2. band < net
      BY <1>2, <2>1, <3>1, SumsCompare DEF net, band
    <3>. QED  BY <1>3, <3>2
  <2>3. ~ scratch
    <3>. SUFFICES ASSUME K # {} PROVE ~ (10 * Abs(rs) <= CommonRisk(book) * qs)
      BY <1>8
    <3>. DEFINE high == [t \in K |-> 10 * WeightedR(book)[t]]
                least == [t \in K |-> CommonRisk(book) * Weights(book)[t]]
    <3>0. CommonRisk(book) \in Int /\ \A t \in K : WeightedR(book)[t] \in Int /\ Weights(book)[t] \in Int
      BY <1>2, <1>6
    <3>1. /\ high \in [K -> Int] /\ least \in [K -> Int]
          /\ \A t \in K : high[t] = 10 * WeightedR(book)[t] /\ least[t] = CommonRisk(book) * Weights(book)[t]
      BY <3>0
    <3>. HIDE DEF high, least
    <3>2. \A t \in K : least[t] < high[t] /\ least[t] <= high[t]
      <4>. TAKE t \in K
      <4>0. PICK n \in Int, d, k, q \in Nat \ {0} : LegIs(book, t, n, d, k, q)
        BY LegsAtWhole DEF K
      <4>1. /\ DeriveR(book[t]) = <<n, d>> /\ book[t].qty = q
            /\ CommonRisk(book) = d * k /\ WeightedR(book)[t] = n * k * q
        BY <4>0 DEF LegIs
      <4>2. 10 * n > d
        BY <1>2, <1>6, <2>1, <4>1
      <4>3. (d * k) * q < 10 * (n * k * q)
        BY <4>2, BeyondAtWhole
      <4>4. least[t] = (d * k) * q /\ high[t] = 10 * (n * k * q)
        BY <1>6, <3>1, <4>1
      <4>5. least[t] \in Int /\ high[t] \in Int
        BY <3>1
      <4>. QED  BY <4>3, <4>4, <4>5
    <3>3. SumFunction(least) < SumFunction(high)
      BY <1>2, <3>1, <3>2, SumsCompare
    <3>4. SumFunction(high) = 10 * rs
      BY <1>2, <1>6, <3>1, SumScaled DEF rs
    <3>5. SumFunction(least) = CommonRisk(book) * qs
      BY <1>2, <1>6, <3>0, <3>1, SumScaled DEF qs
    <3>6. Abs(rs) >= rs /\ Abs(rs) \in Int
      BY <1>6 DEF Abs
    <3>7. CommonRisk(book) * qs \in Int
      BY <1>6, <3>0
    <3>. QED  BY <1>6, <3>3, <3>4, <3>5, <3>6, <3>7
  <2>. QED  BY <1>1, <2>2, <2>3
<1>11. ASSUME trades = {"loss"} PROVE v = IF scratch THEN "breakeven" ELSE "loss"
  <2>. DEFINE lows == [t \in D |-> -Bands(book)[t]]
  <2>0. Pnls(book) \in [D -> Int] /\ Bands(book) \in [D -> Int]
    BY WeighedTyped DEF D
  <2>1. \A t \in D : Pnls(book)[t] < -Bands(book)[t] /\ Pnls(book)[t] <= -Bands(book)[t]
    <3>. TAKE t \in D
    <3>1. TradeVerdict(book[t]) = "loss"
      BY <1>11
    <3>2. BeBand(book[t]) \in Int /\ DerivePnl(book[t]) \in Int
      BY <1>5, LegMeasures
    <3>. QED  BY <1>5, <1>7, <3>1, <3>2, VerdictOfTrade
  <2>2. net < -band
    <3>1. lows \in [D -> Int] /\ \A t \in D : lows[t] = -Bands(book)[t]
      BY <2>0
    <3>. HIDE DEF lows
    <3>2. SumFunction(lows) = -band
      BY <1>2, <2>0, <3>1, SumNegated DEF band
    <3>3. \A t \in D : Pnls(book)[t] < lows[t] /\ Pnls(book)[t] <= lows[t]
      BY <2>1, <3>1
    <3>4. net < SumFunction(lows)
      BY <1>2, <2>0, <3>1, <3>3, SumsCompare DEF net
    <3>. QED  BY <3>2, <3>4
  <2>3. ~ RunnerBreakeven(book) /\ ~ (net > band)
    BY <1>3, <1>4, <2>2
  <2>. QED  BY <1>1, <2>2, <2>3
<1>12. ASSUME Cardinality(D) = 1 PROVE trades = {v}
  <2>1. PICK t : D = {t}
    BY <1>2, <1>12, FS_Singleton
  <2>2. trades = {TradeVerdict(book[t])} /\ t \in D
    BY <2>1
  <2>3. PICK pnl \in Int, width \in Nat : pnl = DerivePnl(book[t]) /\ width = BeBand(book[t])
    BY <1>5, <2>2, LegMeasures
  <2>4. net = pnl /\ band = width
    <3>1. Pnls(book) \in [D -> Int] /\ Bands(book) \in [D -> Int]
      BY WeighedTyped DEF D
    <3>. QED  BY <1>7, <2>1, <2>2, <2>3, <3>1, SumOfOne DEF net, band
  <2>5. scratch <=> DeriveR(book[t]) # None /\ InBand(DeriveR(book[t]))
    <3>1. CASE DeriveR(book[t]) = None
      <4>1. K = {}
        BY <1>2, <1>6, <2>1, <3>1
      <4>. QED  BY <1>8, <3>1, <4>1
    <3>2. CASE DeriveR(book[t]) # None
      <4>1. K = {t}
        BY <1>2, <2>1, <2>2, <3>2 DEF K, Known, D
      <4>0. PICK n \in Int, d, k, q \in Nat \ {0} : LegIs(book, t, n, d, k, q)
        BY <4>1, LegsAtWhole DEF K
      <4>2. /\ DeriveR(book[t]) = <<n, d>> /\ book[t].qty = q
            /\ CommonRisk(book) = d * k /\ k = 1 /\ WeightedR(book)[t] = n * k * q
        BY <4>0, <4>1 DEF LegIs, K
      <4>3. n * k * q = n * q /\ d * k = d
        BY <4>2
      <4>4. rs = n * q /\ qs = q
        BY <1>6, <4>1, <4>2, <4>3, SumOfOne DEF rs, qs
      <4>5. InBand(DeriveR(book[t])) <=> 10 * Abs(n) <= d
        BY <4>2 DEF InBand
      <4>6. scratch <=> 10 * Abs(n * q) <= d * q
        <5>1. CommonRisk(book) = d /\ K # {}
          BY <4>1, <4>2, <4>3
        <5>. QED  BY <1>8, <4>4, <5>1
      <4>7. 10 * Abs(n * q) <= d * q <=> 10 * Abs(n) <= d
        BY BandOfOne
      <4>. QED  BY <3>2, <4>5, <4>6, <4>7
    <3>. QED  BY <3>1, <3>2
  <2>6. ~ RunnerBreakeven(book)
    BY <1>4, <1>12
  <2>7. gain <=> pnl > width
    BY <2>1, <2>3 DEF gain
  <2>8. v = IF scratch THEN "breakeven" ELSE IF pnl > width THEN "win"
            ELSE IF pnl < -width THEN "loss" ELSE "breakeven"
    BY <1>1, <2>3, <2>4, <2>6, <2>7
  <2>9. /\ TradeVerdict(book[t]) \in {"win", "loss", "breakeven"}
        /\ TradeVerdict(book[t]) = "breakeven" <=> scratch \/ (-width <= pnl /\ pnl <= width)
        /\ TradeVerdict(book[t]) = "win" => pnl > width
        /\ TradeVerdict(book[t]) = "loss" => pnl < -width
    BY <1>5, <2>2, <2>3, <2>5, VerdictOfTrade
  <2>10. TradeVerdict(book[t]) = v
    BY <2>3, <2>8, <2>9
  <2>. QED  BY <2>2, <2>10
<1>. QED  BY <1>9, <1>10, <1>11, <1>12 DEF VerdictsAgree, v, D, scratch
===============================================================================

---------------------------- MODULE Store_proofs ----------------------------
(* What is on disk, for any bounds on numbers, lines and history: a number   *)
(* that reached the disk is not handed out again, the log holds each alert   *)
(* once, and what was not written has a timer that will write it.            *)
EXTENDS Store, TLAPS

Lines == [n : Nat \ {0}, done : BOOLEAN]
Rising(ls) == \A i, j \in DOMAIN ls : i < j => ls[i].n < ls[j].n
Newest(ls) == IF ls = <<>> THEN 0 ELSE ls[Len(ls)].n

Bits ==
  /\ up \in BOOLEAN /\ closed \in BOOLEAN /\ timer \in BOOLEAN
  /\ dirty \in BOOLEAN /\ written \in BOOLEAN /\ torn \in BOOLEAN
  /\ flushing \in {"no", "drain", "compact", "save"}
Numbers == seq \in Nat /\ safe \in Nat /\ doc \in Int /\ lines \in Nat /\ junk \in Nat
Lists == cache \in Seq(Lines) /\ queue \in Seq(Lines) /\ log \in Seq(Lines)
StoreShape == Bits /\ Numbers /\ Lists

\* Each list rises, what is queued is past what the log holds, the memory is past both, and
\* whatever is safe is in the document or on the last line of the log.
Ordered ==
  /\ Rising(log) /\ Rising(cache) /\ Rising(queue)
  /\ safe <= doc \/ safe <= Newest(log)
  /\ queue # <<>> => Newest(log) < queue[1].n
Ahead ==
  /\ doc <= seq /\ Newest(log) <= Newest(cache) /\ Newest(queue) <= Newest(cache) /\ Newest(cache) <= seq
Pending ==
  /\ flushing \in {"compact", "save"} => queue = <<>>
  /\ ~up => queue = <<>> /\ flushing = "no"
  /\ up /\ ~dirty => doc = seq
  /\ up /\ flushing = "no" /\ ~closed /\ written /\ (dirty \/ queue # <<>>) => timer
StoreInv == StoreShape /\ Ordered /\ (up => Ahead) /\ Pending

-----------------------------------------------------------------------------
(* Lists of lines *)

LEMMA Listed ==
  ASSUME NEW ls \in Seq(Lines)
  PROVE  /\ Len(ls) \in Nat /\ DOMAIN ls = 1..Len(ls) /\ (ls = <<>> <=> Len(ls) = 0)
         /\ \A i \in 1..Len(ls) : ls[i] \in Lines /\ ls[i].n \in Nat \ {0}
         /\ Newest(ls) \in Nat /\ (Newest(ls) = 0 <=> ls = <<>>)
<1>1. Len(ls) \in Nat /\ DOMAIN ls = 1..Len(ls) /\ (ls = <<>> <=> Len(ls) = 0)
  OBVIOUS
<1>2. ASSUME NEW i \in 1..Len(ls) PROVE ls[i] \in Lines /\ ls[i].n \in Nat \ {0}
  <2>1. ls[i] \in Lines
    BY <1>1
  <2> QED
    BY <2>1 DEF Lines
<1> QED
  BY <1>1, <1>2 DEF Newest

LEMMA HighestIsNewest ==
  ASSUME NEW ls \in Seq(Lines), Rising(ls)
  PROVE  Highest(ls) = Newest(ls) /\ \A i \in 1..Len(ls) : ls[i].n <= Newest(ls)
<1> DEFINE L == Len(ls)
<1>1. L \in Nat /\ DOMAIN ls = 1..L /\ (ls = <<>> <=> L = 0) /\ \A i \in 1..L : ls[i].n \in Nat
  BY Listed
<1>2. \A i, j \in 1..L : i < j => ls[i].n < ls[j].n
  BY <1>1 DEF Rising
<1> HIDE DEF L
<1>3. CASE ls = <<>>
  BY <1>1, <1>3 DEF Highest, Newest, L
<1>4. CASE ls # <<>>
  <2>1. L \in 1..L /\ \A i \in 1..L : ls[i].n <= ls[L].n
    BY <1>1, <1>2, <1>4
  <2>2. ASSUME NEW i \in 1..L, \A j \in 1..L : ls[j].n <= ls[i].n PROVE i = L
    <3>1. i < L \/ i = L
      BY <1>1
    <3> QED
      BY <1>1, <1>2, <2>1, <2>2, <3>1
  <2>3. (CHOOSE i \in DOMAIN ls : \A j \in DOMAIN ls : ls[j].n <= ls[i].n) = L
    BY <1>1, <2>1, <2>2
  <2>4. Highest(ls) = ls[L].n
    BY <1>4, <2>3 DEF Highest
  <2> QED
    BY <1>4, <2>1, <2>4 DEF Newest, L
<1> QED
  BY <1>3, <1>4

\* What is retained are the newest.
LEMMA Retained ==
  ASSUME NEW ls \in Seq(Lines), Rising(ls)
  PROVE  Kept(ls) \in Seq(Lines) /\ Rising(Kept(ls)) /\ Newest(Kept(ls)) = Newest(ls)
<1> USE StoreConstants DEF StoreConstants
<1> DEFINE L == Len(ls)
           from == IF L > HistoryLimit THEN L - HistoryLimit + 1 ELSE 1
<1>1. /\ L \in Nat /\ DOMAIN ls = 1..L /\ (ls = <<>> <=> L = 0) /\ \A i \in 1..L : ls[i] \in Lines
      /\ HistoryLimit \in Nat \ {0}
  BY Listed
<1>2. Kept(ls) = SubSeq(ls, from, L)
  BY DEF Kept
<1>3. from \in 1..L+1 /\ (L # 0 => from \in 1..L)
  BY <1>1
<1> HIDE DEF L, from
<1> DEFINE K == Kept(ls)
<1>4. K = [i \in 1..(L - from + 1) |-> ls[i + from - 1]]
  BY <1>1, <1>2, <1>3
<1>5. L - from + 1 \in Nat /\ \A i \in 1..(L - from + 1) : i + from - 1 \in 1..L
  BY <1>1, <1>3
<1>6. K \in Seq(Lines) /\ Len(K) = L - from + 1 /\ DOMAIN K = 1..(L - from + 1)
  BY <1>1, <1>4, <1>5
<1>7. Rising(K)
  <2> SUFFICES ASSUME NEW i \in 1..(L - from + 1), NEW j \in 1..(L - from + 1), i < j PROVE K[i].n < K[j].n
    BY <1>6 DEF Rising
  <2>1. K[i] = ls[i + from - 1] /\ K[j] = ls[j + from - 1]
    BY <1>4
  <2>2. i + from - 1 \in 1..L /\ j + from - 1 \in 1..L /\ i + from - 1 < j + from - 1
    BY <1>3, <1>5
  <2> QED
    BY <1>1, <2>1, <2>2 DEF Rising
<1>8. Newest(K) = Newest(ls)
  <2>1. CASE ls = <<>>
    <3>1. Len(K) = 0 \/ Len(K) < 0
      BY <1>1, <1>3, <1>6, <2>1
    <3> QED
      BY <1>6, <2>1, <3>1, Listed
  <2>2. CASE ls # <<>>
    <3>1. L # 0 /\ L - from + 1 \in 1..(L - from + 1) /\ (L - from + 1) + from - 1 = L
      BY <1>1, <1>3, <2>2
    <3>2. K[L - from + 1] = ls[L] /\ K # <<>>
      BY <1>4, <1>6, <3>1
    <3> QED
      BY <1>6, <2>2, <3>2 DEF Newest, L
  <2> QED
    BY <2>1, <2>2
<1> QED
  BY <1>6, <1>7, <1>8

LEMMA Joined ==
  ASSUME NEW a \in Seq(Lines), NEW b \in Seq(Lines), Rising(a), Rising(b), b # <<>> => Newest(a) < b[1].n
  PROVE  a \o b \in Seq(Lines) /\ Rising(a \o b) /\ Newest(a \o b) = IF b = <<>> THEN Newest(a) ELSE Newest(b)
<1>1. CASE b = <<>>
  BY <1>1
<1>2. CASE b # <<>>
  <2> DEFINE A == Len(a)
             B == Len(b)
             c == a \o b
  <2>1. A \in Nat /\ B \in Nat \ {0} /\ DOMAIN a = 1..A /\ DOMAIN b = 1..B
    BY <1>2, Listed
  <2>2. /\ c \in Seq(Lines) /\ Len(c) = A + B /\ DOMAIN c = 1..(A + B)
        /\ \A i \in 1..(A + B) : c[i] = IF i <= A THEN a[i] ELSE b[i - A]
    OBVIOUS
  <2>3. \A i \in 1..A : a[i].n \in Nat /\ a[i].n <= Newest(a)
    BY Listed, HighestIsNewest
  <2>4. \A i \in 1..B : b[i].n \in Nat /\ b[1].n <= b[i].n
    <3> SUFFICES ASSUME NEW i \in 1..B PROVE b[i].n \in Nat /\ b[1].n <= b[i].n
      OBVIOUS
    <3>1. b[i].n \in Nat /\ b[1].n \in Nat /\ 1 \in DOMAIN b /\ i \in DOMAIN b
      BY <2>1, Listed
    <3>2. i = 1 \/ 1 < i
      BY <2>1
    <3> QED
      BY <3>1, <3>2 DEF Rising
  <2>5. Newest(a) \in Nat
    BY Listed
  <2> HIDE DEF A, B, c
  <2>6. Rising(c)
    <3> SUFFICES ASSUME NEW i \in 1..(A + B), NEW j \in 1..(A + B), i < j PROVE c[i].n < c[j].n
      BY <2>2 DEF Rising
    <3>1. CASE j <= A
      <4>1. i \in 1..A /\ j \in 1..A /\ i <= A
        BY <2>1, <3>1
      <4>2. c[i] = a[i] /\ c[j] = a[j]
        BY <2>2, <3>1, <4>1
      <4> QED
        BY <2>1, <4>1, <4>2 DEF Rising
    <3>2. CASE i > A
      <4>1. i - A \in 1..B /\ j - A \in 1..B /\ i - A < j - A /\ ~(i <= A) /\ ~(j <= A)
        BY <2>1, <3>2
      <4> QED
        BY <2>1, <2>2, <4>1 DEF Rising
    <3>3. CASE i <= A /\ j > A
      <4>1. i \in 1..A /\ j - A \in 1..B /\ ~(j <= A)
        BY <2>1, <3>3
      <4>2. c[i] = a[i] /\ c[j] = b[j - A]
        BY <2>2, <3>3, <4>1
      <4>3. a[i].n <= Newest(a) /\ b[1].n <= b[j - A].n /\ a[i].n \in Nat /\ b[j - A].n \in Nat /\ b[1].n \in Nat
        BY <2>1, <2>3, <2>4, <4>1
      <4> QED
        BY <1>2, <2>5, <4>2, <4>3
    <3> QED
      BY <2>1, <3>1, <3>2, <3>3
  <2>7. Newest(c) = Newest(b)
    <3>1. A + B \in 1..(A + B) /\ ~(A + B <= A) /\ A + B - A = B /\ A + B # 0
      BY <2>1
    <3>2. c[A + B] = b[B]
      BY <2>1, <2>2, <3>1
    <3>3. c # <<>>
      BY <2>2, <3>1, Listed
    <3> QED
      BY <1>2, <2>2, <3>2, <3>3 DEF Newest, B
  <2> QED
    BY <1>2, <2>2, <2>6, <2>7 DEF c
<1> QED
  BY <1>1, <1>2

LEMMA Front ==
  ASSUME NEW q \in Seq(Lines), Rising(q), NEW k \in 0..Len(q)
  PROVE  LET p == SubSeq(q, 1, k) IN
         p \in Seq(Lines) /\ Rising(p) /\ Newest(p) <= Newest(q) /\ (p # <<>> => q # <<>> /\ p[1] = q[1])
<1> DEFINE p == SubSeq(q, 1, k)
<1>1. Len(q) \in Nat /\ DOMAIN q = 1..Len(q) /\ k \in Nat /\ k <= Len(q)
  BY Listed
<1>2. p \in Seq(Lines) /\ Len(p) = k /\ DOMAIN p = 1..k /\ \A i \in 1..k : p[i] = q[i] /\ i \in 1..Len(q)
  BY <1>1
<1> HIDE DEF p
<1>3. Rising(p)
  BY <1>1, <1>2 DEF Rising
<1>4. Newest(p) <= Newest(q)
  <2>1. CASE p = <<>>
    BY <2>1, Listed DEF Newest
  <2>2. CASE p # <<>>
    <3>1. k \in 1..k /\ p[k] = q[k] /\ k \in 1..Len(q)
      BY <1>1, <1>2, <2>2, Listed
    <3> QED
      BY <1>2, <2>2, <3>1, HighestIsNewest DEF Newest
  <2> QED
    BY <2>1, <2>2
<1>5. p # <<>> => q # <<>> /\ p[1] = q[1]
  <2> SUFFICES ASSUME p # <<>> PROVE q # <<>> /\ p[1] = q[1]
    OBVIOUS
  <2>1. k # 0
    BY <1>2, Listed
  <2>2. 1 \in 1..k /\ Len(q) # 0
    BY <1>1, <2>1
  <2> QED
    BY <1>2, <2>2, Listed
<1> QED
  BY <1>2, <1>3, <1>4, <1>5 DEF p

LEMMA Behind ==
  ASSUME NEW q \in Seq(Lines), Rising(q), q # <<>>
  PROVE  /\ Tail(q) \in Seq(Lines) /\ Rising(Tail(q)) /\ Newest(Tail(q)) <= Newest(q)
         /\ Tail(q) # <<>> => q[1].n < Tail(q)[1].n
<1> DEFINE p == Tail(q)
           L == Len(q)
<1>1. L \in Nat \ {0} /\ DOMAIN q = 1..L
  BY Listed
<1>2. p \in Seq(Lines) /\ Len(p) = L - 1 /\ DOMAIN p = 1..(L - 1)
  OBVIOUS
<1>3. \A i \in 1..(L - 1) : p[i] = q[i + 1] /\ i + 1 \in 1..L
  OBVIOUS
<1> HIDE DEF p, L
<1>4. Rising(p)
  <2> SUFFICES ASSUME NEW i \in 1..(L - 1), NEW j \in 1..(L - 1), i < j PROVE p[i].n < p[j].n
    BY <1>2 DEF Rising
  <2>1. i + 1 \in DOMAIN q /\ j + 1 \in DOMAIN q /\ i + 1 < j + 1
    BY <1>1, <1>3
  <2> QED
    BY <1>3, <2>1 DEF Rising
<1>5. CASE p = <<>>
  BY <1>2, <1>4, <1>5, Listed DEF Newest, p
<1>6. CASE p # <<>>
  <2>1. L - 1 \in 1..(L - 1) /\ 1 \in 1..(L - 1) /\ L - 1 + 1 = L
    BY <1>1, <1>2, <1>6, Listed
  <2>2. p[L - 1] = q[L] /\ p[1] = q[2] /\ 2 \in DOMAIN q /\ 1 \in DOMAIN q
    BY <1>1, <1>3, <2>1
  <2>3. Newest(p) = Newest(q)
    BY <1>2, <1>6, <2>2 DEF Newest, L
  <2>4. q[1].n < p[1].n
    BY <2>2 DEF Rising
  <2> QED
    BY <1>2, <1>4, <2>3, <2>4, Listed DEF p
<1> QED
  BY <1>5, <1>6
-----------------------------------------------------------------------------
(* What is written *)

LEMMA Reached ==
  ASSUME StoreShape, Ordered, log' \in Seq(Lines), Rising(log'), Newest(log) <= Newest(log'), Reaches, UNCHANGED doc
  PROVE  safe' \in Nat /\ (safe' <= doc' \/ safe' <= Newest(log'))
<1>1. Highest(log') = Newest(log') /\ Newest(log') \in Nat /\ Newest(log) \in Nat
  BY HighestIsNewest, Listed DEF StoreShape, Numbers, Lists
<1>2. safe' = IF safe > Newest(log') THEN safe ELSE Newest(log')
  BY <1>1 DEF Reaches, Larger
<1> QED
  BY <1>1, <1>2 DEF StoreShape, Numbers, Lists, Ordered

LEMMA Appending ==
  ASSUME StoreShape, Ordered, NEW ls \in Seq(Lines), Rising(ls), ls # <<>> => Newest(log) < ls[1].n, Appends(ls)
  PROVE  /\ log' \in Seq(Lines) /\ Rising(log') /\ junk' \in Nat
         /\ Newest(log) <= Newest(log') /\ (Newest(log') <= Newest(log) \/ Newest(log') <= Newest(ls))
<1>1. /\ log \in Seq(Lines) /\ Rising(log) /\ Newest(log) \in Nat /\ Newest(ls) \in Nat /\ junk' \in Nat
      /\ ls # <<>> => ls[1].n \in Nat /\ ls[1].n <= Newest(ls)
  <2>1. ls # <<>> => 1 \in 1..Len(ls)
    BY Listed
  <2>2. ls # <<>> => ls[1].n \in Nat /\ ls[1].n <= Newest(ls)
    BY <2>1, Listed, HighestIsNewest
  <2> QED
    BY <2>2, Listed DEF StoreShape, Numbers, Lists, Ordered, Appends
<1>2. CASE ~Swallows(ls)
  <2>1. log' = log \o ls
    BY <1>2 DEF Appends
  <2>2. /\ log' \in Seq(Lines) /\ Rising(log')
        /\ Newest(log') = IF ls = <<>> THEN Newest(log) ELSE Newest(ls)
    BY <1>1, <2>1, Joined
  <2> QED
    BY <1>1, <2>2
<1>3. CASE Swallows(ls)
  <2>1. log' = log \o Tail(ls) /\ ls # <<>>
    BY <1>3 DEF Appends, Swallows
  <2>2. /\ Tail(ls) \in Seq(Lines) /\ Rising(Tail(ls)) /\ Newest(Tail(ls)) <= Newest(ls)
        /\ Tail(ls) # <<>> => ls[1].n < Tail(ls)[1].n
    BY <2>1, Behind
  <2> DEFINE t == Tail(ls)
  <2> HIDE DEF t
  <2>3. t # <<>> => Newest(log) < t[1].n /\ t[1].n <= Newest(t)
    <3> SUFFICES ASSUME t # <<>> PROVE Newest(log) < t[1].n /\ t[1].n <= Newest(t)
      OBVIOUS
    <3>1. t \in Seq(Lines) /\ Rising(t) /\ ls[1].n < t[1].n
      BY <2>2 DEF t
    <3>2. 1 \in 1..Len(t) /\ t[1].n \in Nat
      BY <3>1, Listed
    <3>3. t[1].n <= Newest(t)
      BY <3>1, <3>2, HighestIsNewest
    <3> QED
      BY <1>1, <2>1, <3>1, <3>2, <3>3
  <2>4. /\ log' \in Seq(Lines) /\ Rising(log')
        /\ Newest(log') = IF t = <<>> THEN Newest(log) ELSE Newest(t)
    BY <1>1, <2>1, <2>2, <2>3, Joined DEF t
  <2>5. Newest(t) <= Newest(ls) /\ Newest(t) \in Nat /\ (t # <<>> => t[1].n \in Nat)
    <3>1. t # <<>> => 1 \in 1..Len(t)
      BY <2>2, Listed DEF t
    <3> QED
      BY <2>2, <3>1, Listed DEF t
  <2> QED
    BY <1>1, <2>3, <2>4, <2>5
<1> QED
  BY <1>2, <1>3

-----------------------------------------------------------------------------
(* The steps *)

LEMMA StoreStarts == StoreInit => StoreInv
<1> SUFFICES ASSUME StoreInit PROVE StoreInv
  OBVIOUS
<1>1. <<>> \in Seq(Lines) /\ Rising(<<>>) /\ Newest(<<>>) = 0
  BY DEF Rising, Newest
<1>2. up = FALSE /\ closed = FALSE /\ timer = FALSE /\ dirty = FALSE /\ written = FALSE /\ torn = FALSE /\ flushing = "no"
  BY DEF StoreInit, Blank
<1>3. seq = 0 /\ safe = 0 /\ doc = -1 /\ lines = 0 /\ junk = 0 /\ cache = <<>> /\ queue = <<>> /\ log = <<>>
  BY DEF StoreInit, Blank, Missing
<1>4. Bits
  BY <1>2, Zenon DEF Bits
<1>5. Numbers /\ Lists
  BY <1>1, <1>3 DEF Numbers, Lists
<1>6. Ordered
  BY <1>1, <1>3 DEF Ordered
<1>7. Pending
  BY <1>2, <1>3 DEF Pending
<1> QED
  BY <1>2, <1>4, <1>5, <1>6, <1>7 DEF StoreShape, StoreInv

LEMMA Held ==
  ASSUME StoreInv
  PROVE  /\ Bits /\ Numbers /\ Lists /\ Ordered /\ (up => Ahead) /\ Pending
         /\ cache \in Seq(Lines) /\ queue \in Seq(Lines) /\ log \in Seq(Lines)
         /\ Newest(cache) \in Nat /\ Newest(queue) \in Nat /\ Newest(log) \in Nat
         /\ seq \in Nat /\ safe \in Nat /\ doc \in Int /\ lines \in Nat /\ junk \in Nat
<1>1. Bits /\ Numbers /\ Lists /\ Ordered /\ (up => Ahead) /\ Pending
  BY DEF StoreInv, StoreShape
<1>2. cache \in Seq(Lines) /\ queue \in Seq(Lines) /\ log \in Seq(Lines)
  BY <1>1 DEF Lists
<1>3. Newest(cache) \in Nat /\ Newest(queue) \in Nat /\ Newest(log) \in Nat
  BY <1>2, Listed
<1> QED
  BY <1>1, <1>2, <1>3 DEF Numbers

LEMMA OpenKeeps == ASSUME StoreInv, Open PROVE StoreInv'
<1> USE Held
<1>1. /\ Kept(log) \in Seq(Lines) /\ Rising(Kept(log)) /\ Newest(Kept(log)) = Newest(log)
      /\ Highest(Kept(log)) = Newest(log) /\ Len(log) \in Nat
  BY Retained, HighestIsNewest DEF Ordered
<1> DEFINE rec == RecoveredSeq
           behind == doc < 0 \/ rec > doc
<1>2. rec \in Nat /\ rec >= doc /\ rec >= Newest(log)
  BY <1>1 DEF RecoveredSeq, Larger
<1>3. /\ ~up /\ up' = TRUE /\ seq' = rec /\ cache' = Kept(log)
      /\ doc' = IF doc = Corrupt THEN Missing ELSE doc
      /\ lines' = Len(log) + junk + IF torn THEN 1 ELSE 0
      /\ dirty' = behind /\ timer' = behind /\ written' = TRUE
      /\ closed' = closed /\ flushing' = flushing /\ queue' = queue /\ log' = log /\ junk' = junk
      /\ torn' = torn /\ safe' = safe
  BY DEF Open
<1> HIDE DEF rec
<1>4. lines' \in Nat
  BY <1>1, <1>3
<1>5. queue = <<>> /\ flushing = "no" /\ Newest(queue) = 0
  BY <1>3 DEF Pending, Newest
<1>6. Bits'
  <2>1. behind \in BOOLEAN
    OBVIOUS
  <2> HIDE DEF behind
  <2> QED
    BY <1>3, <2>1, Zenon DEF Bits
<1>7. (doc >= 0 => doc' = doc) /\ (doc < 0 => doc' \in {-1, doc}) /\ doc' \in Int
  BY <1>3 DEF Missing, Corrupt
<1>8. Numbers'
  BY <1>2, <1>3, <1>4, <1>7 DEF Numbers
<1>9. Lists'
  BY <1>1, <1>3 DEF Lists
<1>10. Ordered'
  <2>1. Rising(log') /\ Rising(cache') /\ Rising(queue')
    BY <1>1, <1>3 DEF Ordered
  <2>2. safe <= doc' \/ safe <= Newest(log)
    BY <1>7 DEF Ordered
  <2> QED
    BY <1>3, <1>5, <2>1, <2>2 DEF Ordered
<1>11. Ahead'
  <2>1. doc' <= rec
    BY <1>2, <1>7
  <2> QED
    BY <1>1, <1>2, <1>3, <1>5, <2>1 DEF Ahead
<1>12. Pending'
  <2>1. ~behind => doc' = rec
    BY <1>2, <1>7
  <2> HIDE DEF behind
  <2> QED
    BY <1>3, <1>5, <2>1, Zenon DEF Pending
<1> QED
  BY <1>6, <1>8, <1>9, <1>10, <1>11, <1>12 DEF StoreInv, StoreShape

\* What changes no list, and takes from the disk nothing
LEMMA Unlisted ==
  ASSUME StoreInv, Bits', Pending', UNCHANGED <<up, cache, queue, log, lines, junk>>, up,
         seq' \in Nat, seq <= seq', (doc' = doc /\ safe' = safe) \/ (doc' = seq /\ safe' = Larger(safe, seq) /\ seq' = seq)
  PROVE  StoreInv'
<1> USE Held
<1>1. Numbers' /\ Lists'
  BY DEF Larger, Numbers, Lists
<1>2. Ordered' /\ Ahead'
  BY DEF Ordered, Ahead, Larger
<1> QED
  BY <1>1, <1>2 DEF StoreInv, StoreShape

LEMMA TakeNumberKeeps == ASSUME StoreInv, TakeNumber PROVE StoreInv'
<1> USE Held
<1>1. /\ up /\ flushing = "no" /\ seq' = seq + 1 /\ dirty' = TRUE /\ timer' = (timer \/ ~closed)
      /\ written' = (written \/ ~closed)
      /\ UNCHANGED <<up, closed, flushing, cache, queue, lines, doc, log, junk, torn, safe>>
  BY DEF TakeNumber, Idle, Scheduled, Armed, diskVars
<1>2. Bits'
  BY <1>1, Zenon DEF Bits
<1>3. Pending'
  BY <1>1 DEF Bits, Pending
<1> QED
  BY <1>1, <1>2, <1>3, Unlisted

LEMMA TimingKeeps == ASSUME StoreInv, Flush \/ Close \/ Reopen PROVE StoreInv'
<1> USE Held
<1>1. /\ up /\ UNCHANGED <<up, dirty, seq, cache, queue, lines, doc, log, junk, torn, safe>>
      /\ flushing = "no"
      /\ \/ flushing' = "drain" /\ timer' = FALSE /\ closed' \in {closed, TRUE} /\ written' = written
         \/ flushing' = flushing /\ timer' = timer /\ closed' = FALSE /\ written' = FALSE
  BY DEF Flush, Close, Reopen, Idle, diskVars
<1>2. timer' \in BOOLEAN /\ closed' \in BOOLEAN /\ written' \in BOOLEAN /\ flushing' \in {"no", "drain"}
  BY <1>1, Zenon DEF Bits
<1>3. Bits'
  BY <1>1, <1>2, Zenon DEF Bits
<1>4. Pending'
  BY <1>1 DEF Bits, Pending
<1> QED
  BY <1>1, <1>3, <1>4, Unlisted

LEMMA SaveKeeps == ASSUME StoreInv, Save PROVE StoreInv'
<1> USE Held
<1>1. /\ flushing = "save" /\ flushing' = "no"
      /\ UNCHANGED <<up, closed, seq, cache, queue, lines, written, log, junk, torn>>
  BY DEF Save
<1>2. up /\ queue = <<>>
  BY <1>1 DEF Pending
<1>3. CASE dirty /\ doc' = seq /\ dirty' = FALSE /\ timer' = timer /\ safe' = Larger(safe, seq)
  <2>1. Bits'
    BY <1>1, <1>3, Zenon DEF Bits
  <2>2. Pending'
    BY <1>1, <1>2, <1>3 DEF Pending
  <2> QED
    BY <1>1, <1>2, <1>3, <2>1, <2>2, Unlisted
<1>4. CASE dirty /\ timer' = (timer \/ Armed) /\ UNCHANGED <<doc, dirty, safe>>
  <2>1. timer' = (timer \/ ~closed)
    BY <1>4 DEF Armed
  <2>2. Bits'
    BY <1>1, <1>4, <2>1, Zenon DEF Bits
  <2>3. Pending'
    BY <1>1, <1>2, <1>4, <2>1 DEF Bits, Pending
  <2> QED
    BY <1>1, <1>2, <1>4, <2>2, <2>3, Unlisted
<1>5. CASE ~dirty /\ UNCHANGED <<doc, dirty, timer, safe>>
  <2>1. Bits'
    BY <1>1, <1>5, Zenon DEF Bits
  <2>2. Pending'
    BY <1>1, <1>2, <1>5 DEF Pending
  <2> QED
    BY <1>1, <1>2, <1>5, <2>1, <2>2, Unlisted
<1> QED
  BY <1>3, <1>4, <1>5 DEF Save

LEMMA PublishKeeps == ASSUME StoreInv, Publish PROVE StoreInv'
<1> USE Held
<1> DEFINE l == Line(seq + 1, FALSE)
<1>1. l \in Lines /\ l.n = seq + 1
  BY DEF Line, Lines
<1>2. /\ up /\ flushing = "no" /\ seq' = seq + 1 /\ dirty' = TRUE /\ timer' = (timer \/ ~closed)
      /\ written' = (written \/ ~closed)
      /\ cache' = Kept(Append(cache, l)) /\ queue' = Append(queue, l)
      /\ UNCHANGED <<up, closed, flushing, lines, doc, log, junk, torn, safe>>
  BY DEF Publish, Idle, Scheduled, Armed, diskVars
<1> HIDE DEF l
<1> DEFINE one == <<l>>
<1>3. one \in Seq(Lines) /\ Rising(one) /\ Newest(one) = seq + 1 /\ one # <<>> /\ one[1] = l
  BY <1>1 DEF Rising, Newest
<1>4. Rising(cache) /\ Rising(queue) /\ Newest(cache) < seq + 1 /\ Newest(queue) < seq + 1 /\ Newest(log) < seq + 1
  BY <1>2 DEF Ordered, Ahead
<1>5. Append(cache, l) = cache \o one /\ Append(queue, l) = queue \o one
  <2>1. ASSUME NEW q \in Seq(Lines) PROVE Append(q, l) = q \o <<l>>
    BY <1>1
  <2> QED
    BY <2>1
<1> HIDE DEF one
<1>6. /\ queue' \in Seq(Lines) /\ Rising(queue') /\ Newest(queue') = seq + 1
      /\ cache \o one \in Seq(Lines) /\ Rising(cache \o one) /\ Newest(cache \o one) = seq + 1
  BY <1>1, <1>2, <1>3, <1>4, <1>5, Joined
<1>7. cache' \in Seq(Lines) /\ Rising(cache') /\ Newest(cache') = seq + 1
  BY <1>2, <1>5, <1>6, Retained
<1>8. Newest(log) < queue'[1].n
  <2>1. CASE queue = <<>>
    <3>1. queue' = <<l>>
      BY <1>1, <1>2, <2>1
    <3> QED
      BY <1>1, <1>4, <3>1
  <2>2. CASE queue # <<>>
    <3>1. queue'[1] = queue[1]
      BY <1>1, <1>2, <1>4, <2>2
    <3> QED
      BY <2>2, <3>1 DEF Ordered
  <2> QED
    BY <2>1, <2>2
<1>9. Bits'
  BY <1>2, Zenon DEF Bits
<1>10. Numbers' /\ Lists'
  BY <1>2, <1>6, <1>7 DEF Numbers, Lists
<1>11. Ordered'
  BY <1>2, <1>6, <1>7, <1>8 DEF Ordered
<1>12. Ahead'
  BY <1>1, <1>2, <1>4, <1>6, <1>7 DEF Ahead
<1>13. Pending'
  BY <1>2 DEF Bits, Pending
<1> QED
  BY <1>9, <1>10, <1>11, <1>12, <1>13 DEF StoreInv, StoreShape

\* Marking a line leaves every number where it was.
LEMMA Marked ==
  ASSUME NEW ls \in Seq(Lines), Rising(ls), NEW i \in DOMAIN ls
  PROVE  LET m == [ls EXCEPT ![i].done = TRUE] IN
         m \in Seq(Lines) /\ Rising(m) /\ Newest(m) = Newest(ls)
<1> DEFINE m == [ls EXCEPT ![i].done = TRUE]
           r == [ls[i] EXCEPT !.done = TRUE]
           L == Len(ls)
<1>1. L \in Nat /\ DOMAIN ls = 1..L /\ (ls = <<>> <=> L = 0) /\ i \in 1..L /\ \A k \in 1..L : ls[k] \in Lines
  BY Listed
<1>2. r \in Lines /\ r.n = ls[i].n
  BY <1>1 DEF Lines
<1>3. m = [ls EXCEPT ![i] = r]
  OBVIOUS
<1> HIDE DEF r
<1> HIDE DEF m
<1>4. m \in Seq(Lines) /\ Len(m) = L /\ DOMAIN m = 1..L /\ \A k \in 1..L : m[k] = IF k = i THEN r ELSE ls[k]
  <2>1. m \in Seq(Lines) /\ Len(m) = L
    BY <1>1, <1>2, <1>3
  <2>2. \A k \in 1..L : m[k] = IF k = i THEN r ELSE ls[k]
    BY <1>1, <1>3
  <2> QED
    BY <2>1, <2>2
<1> HIDE DEF L
<1>5. \A k \in 1..L : m[k].n = ls[k].n
  BY <1>2, <1>4
<1>6. Rising(m)
  BY <1>1, <1>4, <1>5 DEF Rising
<1>7. Newest(m) = Newest(ls)
  <2>1. L # 0 /\ L \in 1..L /\ m # <<>> /\ ls # <<>>
    BY <1>1, <1>4, Listed
  <2> QED
    BY <1>4, <1>5, <2>1 DEF Newest, L
<1> QED
  BY <1>4, <1>6, <1>7 DEF m

\* The log as it was, or rewritten from a cache that holds all of its numbers
LEMMA Rewritten ==
  ASSUME StoreInv, up, Bits', cache' \in Seq(Lines), Rising(cache'), Newest(cache') = Newest(cache),
         UNCHANGED <<up, seq, doc>>, Reaches,
         \/ Compacted(cache') /\ queue' = <<>>
         \/ UNCHANGED <<log, junk, torn, lines, queue>>
  PROVE  Numbers' /\ Lists' /\ Ordered' /\ Ahead'
<1> USE Held
<1>1. Newest(log) <= Newest(cache) /\ Newest(cache) <= seq /\ doc <= seq
  BY DEF Ahead
<1>2. CASE Compacted(cache') /\ queue' = <<>>
  <2>1. /\ log' = cache' /\ junk' = 0 /\ lines' = Len(cache') /\ queue' = <<>>
        /\ <<>> \in Seq(Lines) /\ Rising(<<>>) /\ Newest(<<>>) = 0 /\ Len(cache') \in Nat
    BY <1>2 DEF Compacted, Rising, Newest
  <2>2. safe' \in Nat /\ (safe' <= doc' \/ safe' <= Newest(log'))
    BY <1>1, <2>1, Reached DEF StoreInv
  <2>3. Numbers' /\ Lists'
    BY <2>1, <2>2 DEF Numbers, Lists
  <2>4. Ordered'
    BY <2>1, <2>2 DEF Ordered
  <2>5. Ahead'
    BY <1>1, <2>1 DEF Ahead
  <2> QED
    BY <2>3, <2>4, <2>5
<1>3. CASE UNCHANGED <<log, junk, torn, lines, queue>>
  <2>1. safe' \in Nat /\ (safe' <= doc' \/ safe' <= Newest(log'))
    BY <1>1, <1>3, Reached DEF StoreInv, Ordered
  <2>2. Numbers' /\ Lists'
    BY <1>3, <2>1 DEF Numbers, Lists
  <2>3. Ordered'
    BY <1>3, <2>1 DEF Ordered
  <2>4. Ahead'
    BY <1>1, <1>3 DEF Ahead
  <2> QED
    BY <2>2, <2>3, <2>4
<1> QED
  BY <1>2, <1>3

LEMMA SettleKeeps == ASSUME StoreInv, NEW i, NEW ok, Settle(i, ok) PROVE StoreInv'
<1> USE Held
<1>1. /\ up /\ flushing = "no" /\ i \in DOMAIN cache /\ cache' = [cache EXCEPT ![i].done = TRUE] /\ Reaches
      /\ UNCHANGED <<up, closed, timer, dirty, flushing, seq, written, doc>>
      /\ \/ Compacted(cache') /\ queue' = <<>>
         \/ UNCHANGED <<log, junk, torn, lines, queue>>
  BY DEF Settle, Idle
<1>2. cache' \in Seq(Lines) /\ Rising(cache') /\ Newest(cache') = Newest(cache)
  BY <1>1, Marked DEF Ordered
<1>3. torn' \in BOOLEAN
  BY <1>1, Zenon DEF Bits, Compacted
<1>4. Bits'
  BY <1>1, <1>3, Zenon DEF Bits
<1>5. Numbers' /\ Lists' /\ Ordered' /\ Ahead'
  BY <1>1, <1>2, <1>4, Rewritten
<1>6. Pending'
  BY <1>1 DEF Pending
<1> QED
  BY <1>4, <1>5, <1>6 DEF StoreInv, StoreShape

LEMMA CompactKeeps == ASSUME StoreInv, Compact PROVE StoreInv'
<1> USE Held
<1>1. /\ flushing = "compact" /\ flushing' = "save" /\ Reaches
      /\ UNCHANGED <<up, closed, timer, dirty, seq, cache, queue, written, doc>>
      /\ Compacted(cache) \/ UNCHANGED <<log, junk, torn, lines>>
  BY DEF Compact
<1>2. up /\ queue = <<>>
  BY <1>1 DEF Pending
<1>3. torn' \in BOOLEAN
  BY <1>1, Zenon DEF Bits, Compacted
<1>4. Bits'
  BY <1>1, <1>3, Zenon DEF Bits
<1>5. Compacted(cache') \/ UNCHANGED <<log, junk, torn, lines>>
  BY <1>1 DEF Compacted
<1>6. Numbers' /\ Lists' /\ Ordered' /\ Ahead'
  BY <1>1, <1>2, <1>4, <1>5, Rewritten DEF Ordered
<1>7. Pending'
  BY <1>1, <1>2 DEF Pending
<1> QED
  BY <1>4, <1>6, <1>7 DEF StoreInv, StoreShape

\* The lines of a piece of the queue reach the disk and the memory has let go of them.
LEMMA Drained ==
  ASSUME StoreInv, NEW ls \in Seq(Lines), Rising(ls), Newest(ls) <= Newest(queue),
         ls # <<>> => queue # <<>> /\ ls[1] = queue[1], Appends(ls), Reaches, UNCHANGED doc
  PROVE  /\ log' \in Seq(Lines) /\ Rising(log') /\ junk' \in Nat
         /\ safe' \in Nat /\ (safe' <= doc' \/ safe' <= Newest(log'))
         /\ Newest(log') \in Nat /\ (up => Newest(log') <= Newest(cache))
<1> USE Held
<1>1. ls # <<>> => Newest(log) < ls[1].n
  BY DEF Ordered
<1>2. /\ log' \in Seq(Lines) /\ Rising(log') /\ junk' \in Nat
      /\ Newest(log) <= Newest(log') /\ (Newest(log') <= Newest(log) \/ Newest(log') <= Newest(ls))
  BY <1>1, Appending DEF StoreInv
<1>3. safe' \in Nat /\ (safe' <= doc' \/ safe' <= Newest(log'))
  BY <1>2, Reached DEF StoreInv
<1>4. Newest(log') \in Nat /\ Newest(ls) \in Nat
  BY <1>2, Listed
<1>5. up => Newest(log') <= Newest(cache)
  BY <1>2, <1>4 DEF Ahead
<1> QED
  BY <1>2, <1>3, <1>4, <1>5

\* What an append that was cut short leaves
LEMMA Partial ==
  ASSUME StoreInv, NEW k \in 0..Len(queue), NEW cut \in BOOLEAN, PartOf(k, cut), UNCHANGED doc
  PROVE  /\ log' \in Seq(Lines) /\ Rising(log') /\ junk' \in Nat /\ torn' \in BOOLEAN
         /\ safe' \in Nat /\ (safe' <= doc' \/ safe' <= Newest(log'))
         /\ Newest(log') \in Nat /\ (up => Newest(log') <= Newest(cache))
<1> USE Held
<1> DEFINE p == SubSeq(queue, 1, k)
<1>1. Appends(p) /\ Reaches /\ torn' = IF k = 0 THEN torn \/ cut ELSE cut
  BY DEF PartOf
<1>2. p \in Seq(Lines) /\ Rising(p) /\ Newest(p) <= Newest(queue) /\ (p # <<>> => queue # <<>> /\ p[1] = queue[1])
  BY Front DEF Ordered
<1>3. torn' \in BOOLEAN
  BY <1>1, Zenon DEF Bits
<1> HIDE DEF p
<1> QED
  BY <1>1, <1>2, <1>3, Drained

LEMMA DrainKeeps == ASSUME StoreInv, Drain PROVE StoreInv'
<1> USE Held
<1>1. /\ flushing = "drain" /\ flushing' = "compact" /\ queue' = <<>>
      /\ UNCHANGED <<up, closed, timer, dirty, seq, cache, written, doc>>
  BY DEF Drain
<1>2. up /\ <<>> \in Seq(Lines) /\ Rising(<<>>) /\ Newest(<<>>) = 0
  BY <1>1 DEF Pending, Rising, Newest
<1>3. /\ log' \in Seq(Lines) /\ Rising(log') /\ junk' \in Nat /\ torn' \in BOOLEAN
      /\ safe' \in Nat /\ (safe' <= doc' \/ safe' <= Newest(log'))
      /\ Newest(log') \in Nat /\ Newest(log') <= Newest(cache) /\ lines' \in Nat
  <2>1. CASE Appends(queue) /\ torn' = (torn /\ queue = <<>>) /\ lines' = lines + Len(queue) /\ Reaches
    <3>1. torn' \in BOOLEAN
      BY <2>1, Zenon DEF Bits
    <3>2. lines' \in Nat
      BY <2>1
    <3> QED
      BY <1>1, <1>2, <2>1, <3>1, <3>2, Drained DEF Ordered
  <2>2. CASE \E k \in 0..Len(queue), cut \in BOOLEAN : PartOf(k, cut) /\ lines' = lines
    BY <1>1, <1>2, <2>2, Partial
  <2> QED
    BY <2>1, <2>2 DEF Drain
<1>4. Bits'
  BY <1>1, <1>3, Zenon DEF Bits
<1>5. Numbers' /\ Lists'
  BY <1>1, <1>2, <1>3 DEF Numbers, Lists
<1>6. Ordered'
  BY <1>1, <1>2, <1>3 DEF Ordered
<1>7. Ahead'
  BY <1>1, <1>2, <1>3 DEF Ahead
<1>8. Pending'
  BY <1>1, <1>2 DEF Pending
<1> QED
  BY <1>4, <1>5, <1>6, <1>7, <1>8 DEF StoreInv, StoreShape

LEMMA CrashKeeps == ASSUME StoreInv, Crash PROVE StoreInv'
<1> USE Held
<1>1. /\ up' = FALSE /\ closed' = FALSE /\ timer' = FALSE /\ dirty' = FALSE /\ flushing' = "no" /\ seq' = 0
      /\ cache' = <<>> /\ queue' = <<>> /\ lines' = 0 /\ written' = FALSE /\ doc' = doc
  BY DEF Crash, Forgotten
<1>2. <<>> \in Seq(Lines) /\ Rising(<<>>)
  BY DEF Rising
<1>3. /\ log' \in Seq(Lines) /\ Rising(log') /\ junk' \in Nat /\ torn' \in BOOLEAN
      /\ safe' \in Nat /\ (safe' <= doc' \/ safe' <= Newest(log'))
  <2>1. CASE UNCHANGED <<log, junk, torn, safe>>
    BY <1>1, <2>1 DEF Ordered, Bits
  <2>2. CASE \E k \in 0..Len(queue), cut \in BOOLEAN : PartOf(k, cut)
    BY <1>1, <2>2, Partial
  <2> QED
    BY <2>1, <2>2 DEF Crash
<1>4. Bits'
  BY <1>1, <1>3, Zenon DEF Bits
<1>5. Numbers' /\ Lists'
  BY <1>1, <1>2, <1>3 DEF Numbers, Lists
<1>6. Ordered'
  BY <1>1, <1>2, <1>3 DEF Ordered
<1>7. Pending'
  BY <1>1 DEF Pending
<1> QED
  BY <1>1, <1>4, <1>5, <1>6, <1>7 DEF StoreInv, StoreShape

LEMMA MangleKeeps == ASSUME StoreInv, Mangle PROVE StoreInv'
<1> USE Held
<1>1. /\ ~up /\ doc' = -2 /\ safe' = Highest(log)
      /\ UNCHANGED <<up, closed, timer, dirty, flushing, seq, cache, queue, lines, written, log, junk, torn>>
  BY DEF Mangle, memoryVars, Corrupt
<1>2. safe' = Newest(log)
  BY <1>1, HighestIsNewest DEF Ordered
<1>3. Bits'
  BY <1>1, Zenon DEF Bits
<1>4. Numbers' /\ Lists'
  BY <1>1, <1>2 DEF Numbers, Lists
<1>5. Ordered'
  BY <1>1, <1>2 DEF Ordered
<1>6. Pending'
  BY <1>1 DEF Pending
<1> QED
  BY <1>1, <1>3, <1>4, <1>5, <1>6 DEF StoreInv, StoreShape

LEMMA StoreStepKeeps == StoreInv /\ [StoreNext]_storeVars => StoreInv'
<1> SUFFICES ASSUME StoreInv, [StoreNext]_storeVars PROVE StoreInv'
  OBVIOUS
<1>1. CASE UNCHANGED storeVars
  <2>1. UNCHANGED <<up, closed, timer, dirty, flushing, seq, cache, queue, lines, written, doc, log, junk, torn, safe>>
    BY <1>1 DEF storeVars, memoryVars, diskVars
  <2> QED
    BY <2>1 DEF StoreInv, StoreShape, Bits, Numbers, Lists, Ordered, Ahead, Pending
<1>2. CASE \E i \in 1..HistoryLimit, ok \in BOOLEAN : Settle(i, ok)
  BY <1>2, SettleKeeps
<1> QED
  BY <1>1, <1>2, OpenKeeps, TakeNumberKeeps, TimingKeeps, SaveKeeps, PublishKeeps, DrainKeeps, CompactKeeps,
     CrashKeeps, MangleKeeps DEF StoreNext

LEMMA StoreInvariant == StoreSpec => []StoreInv
  BY StoreStarts, StoreStepKeeps, PTL DEF StoreSpec

-----------------------------------------------------------------------------
(* What follows *)

\* A number that reached the disk is never handed out again, whatever failed, was torn or was
\* lost in a crash (load, readTail and nextSeq of store.ts).
THEOREM NumbersStayFresh == StoreSpec => []NumbersAreFresh
<1>1. StoreInv => NumbersAreFresh
  BY Held DEF NumbersAreFresh, Ordered, Ahead
<1> QED
  BY <1>1, StoreInvariant, PTL

\* The log holds each alert once and in order, however appends and rewrites come together
\* and fail (touchHistory, drain and compact of store.ts).
THEOREM LogHasNoDoubles == StoreSpec => []EachAlertOnce
<1>1. StoreInv => EachAlertOnce
  BY Held DEF EachAlertOnce, Ordered, Rising
<1> QED
  BY <1>1, StoreInvariant, PTL

\* Something unwritten in an open store has a timer, and a clean store agrees with the disk
\* (markDirty, scheduleDrain and flush of store.ts).
THEOREM NothingStaysUnwritten == StoreSpec => []ArmedOrWritten
<1>1. StoreInv => ArmedOrWritten
  BY Held DEF ArmedOrWritten, Pending
<1> QED
  BY <1>1, StoreInvariant, PTL
=============================================================================

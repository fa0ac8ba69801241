---------------------------- MODULE JobLogProofs ----------------------------
(***************************************************************************)
(* For a buffer of any size and a log of any length: what a client of the  *)
(* stream sees implements LogFeed, and a log that fits is complete.         *)
(***************************************************************************)
EXTENDS JobLog, SequenceTheorems, TLAPS

-----------------------------------------------------------------------------
(* Positions modulo the capacity *)

LEMMA DivMod ==
    ASSUME NEW n \in Nat, NEW c \in Nat, c # 0
    PROVE  /\ n = c * (n \div c) + (n % c)
           /\ n \div c \in Int /\ n % c \in 0 .. c - 1
<1>. DEFINE q == n \div c
            r == n % c
<1>1. r = n - c * q
  OBVIOUS
<1>2. q \in Int /\ r \in 0 .. c - 1
  OBVIOUS
<1>3. n = c * q + r
  <2>. HIDE DEF q, r
  <2>. QED
    BY <1>1, <1>2
<1>4. n = c * (n \div c) + (n % c)
  BY ONLY <1>3
<1>. QED
  BY <1>2, <1>4, Zenon

LEMMA SameRemainder ==
    ASSUME NEW c \in Nat, c # 0, NEW q \in Int, NEW r \in 0 .. c - 1,
           NEW s \in Int, NEW t \in 0 .. c - 1, c * q + r = c * s + t
    PROVE  r = t /\ q = s
OBVIOUS

LEMMA Remainder ==
    ASSUME NEW n \in Nat, NEW c \in Nat, c # 0,
           NEW q \in Int, NEW r \in 0 .. c - 1, n = c * q + r
    PROVE  n % c = r
BY DivMod, SameRemainder

\* Fewer than c apart, two positions have different slots.
LEMMA Apart ==
    ASSUME NEW n \in Nat, NEW m \in Nat, NEW c \in Nat, c # 0, n < m, m - n < c
    PROVE  n % c # m % c
<1>. SUFFICES ASSUME n % c = m % c PROVE FALSE
  OBVIOUS
<1>. DEFINE q == n \div c
            s == m \div c
            r == n % c
<1>1. q \in Int /\ s \in Int /\ r \in 0 .. c - 1 /\ n = c * q + r /\ m = c * s + r
  BY DivMod
<1>. HIDE DEF q, s, r
<1>2. m - n = c * (s - q)
  BY <1>1
<1>3. s - q <= 0 \/ s - q >= 1
  BY <1>1
<1>4. CASE s - q <= 0
  <2>1. c * (s - q) <= 0
    BY <1>1, <1>4
  <2>. QED
    BY <1>2, <2>1
<1>5. CASE s - q >= 1
  <2>1. c * (s - q) >= c
    BY <1>1, <1>5
  <2>. QED
    BY <1>2, <2>1
<1>. QED
  BY <1>3, <1>4, <1>5

\* The slot k places after the slot of n is that of the position k places
\* after n, and of the one a whole buffer before it.
LEMMA Around ==
    ASSUME NEW n \in Nat, NEW k \in Nat, NEW c \in Nat, c # 0, n >= c
    PROVE  ((n % c) + k) % c = (n - c + k) % c
<1>. DEFINE q == n \div c
            r == n % c
            s == (r + k) \div c
            t == (r + k) % c
<1>1. q \in Int /\ r \in 0 .. c - 1 /\ n = c * q + r
  BY DivMod
<1>2. s \in Int /\ t \in 0 .. c - 1 /\ r + k = c * s + t
  <2>1. r + k \in Nat
    BY <1>1
  <2>. HIDE DEF r
  <2>. QED
    BY <2>1, DivMod
<1>. HIDE DEF q, r, s
<1>3. n - c + k = c * (q - 1 + s) + t
  <2>. HIDE DEF t
  <2>. QED
    BY <1>1, <1>2
<1>4. (n - c + k) % c = t
  <2>. HIDE DEF t
  <2>1. n - c + k \in Nat /\ q - 1 + s \in Int
    BY <1>1, <1>2
  <2>. QED
    <3>. DEFINE m == n - c + k
                p == q - 1 + s
    <3>1. m \in Nat /\ p \in Int /\ t \in 0 .. c - 1 /\ m = c * p + t
      BY <1>2, <1>3, <2>1
    <3>. HIDE DEF m, p
    <3>2. m % c = t
      BY <3>1, Remainder
    <3>. QED
      BY <3>2 DEF m
<1>. QED
  BY <1>4 DEF t, r

-----------------------------------------------------------------------------
(* The ring buffer *)

\* The position pos - Kept + i of the log is what Lines returns at i: the slots
\* of the last Cap positions hold their lines.
Holds == \A n \in Nat :
    n < pos /\ pos - n <= Cap =>
        lines[n % Cap] \in Line /\ lines[n % Cap].at = n + 1

LEMMA KeptType ==
    ASSUME pos \in Nat
    PROVE  Kept \in Nat /\ Kept <= Cap /\ Kept <= pos /\ pos - Kept \in Nat
BY CapAssumption DEF Kept

LEMMA LinesAt ==
    ASSUME pos \in Nat, Holds, NEW i \in 1 .. Kept
    PROVE  Lines[i] \in Line /\ Lines[i].at = pos - Kept + i
<1>. USE CapAssumption
<1>1. i \in Nat /\ i - 1 \in Nat /\ Kept \in Nat /\ i <= Kept
  BY KeptType
<1>2. Lines[i] = lines[(Oldest + i - 1) % Cap]
  BY DEF Lines
<1>3. CASE pos <= Cap
  <2>1. Kept = pos /\ Oldest = 0
    BY <1>3 DEF Kept, Oldest
  <2>2. lines[(i - 1) % Cap] \in Line /\ lines[(i - 1) % Cap].at = i - 1 + 1
    BY <1>1, <1>3, <2>1 DEF Holds
  <2>3. 0 + i - 1 = i - 1
    BY <1>1
  <2>4. Lines[i] = lines[(i - 1) % Cap]
    BY <1>2, <2>1, <2>3
  <2>. QED
    BY <1>1, <2>1, <2>2, <2>4
<1>4. CASE pos > Cap
  <2>. DEFINE n == pos - Cap + (i - 1)
  <2>1. Kept = Cap /\ Oldest = pos % Cap
    BY <1>4 DEF Kept, Oldest
  <2>2. ((pos % Cap) + (i - 1)) % Cap = n % Cap
    <3>. DEFINE k == i - 1
    <3>1. k \in Nat /\ Cap \in Nat /\ Cap # 0 /\ pos >= Cap
      BY <1>1, <1>4
    <3>. HIDE DEF k
    <3>2. ((pos % Cap) + k) % Cap = (pos - Cap + k) % Cap
      BY <3>1, Around
    <3>. QED
      BY <3>2 DEF k
  <2>3. (pos % Cap) + i - 1 = (pos % Cap) + (i - 1)
    BY <1>1, <1>4, DivMod
  <2>4. n \in Nat /\ n < pos /\ pos - n <= Cap /\ n + 1 = pos - Kept + i
    BY <1>1, <1>4, <2>1
  <2>. HIDE DEF n
  <2>5. lines[n % Cap] \in Line /\ lines[n % Cap].at = n + 1
    BY <2>4 DEF Holds
  <2>6. Lines[i] = lines[n % Cap]
    BY <1>2, <2>1, <2>2, <2>3
  <2>. QED
    BY <2>4, <2>5, <2>6
<1>. QED
  BY <1>3, <1>4

LEMMA LinesType == ASSUME pos \in Nat, Holds PROVE Lines \in Seq(Line)
<1>1. Kept \in Nat
  BY KeptType
<1>2. Lines \in [1 .. Kept -> Line]
  BY LinesAt DEF Lines
<1>. QED
  BY <1>1, <1>2, IsASeq

LEMMA LenLines == ASSUME pos \in Nat, Holds PROVE Len(Lines) = Kept
<1>1. Kept \in Nat /\ Lines \in Seq(Line) /\ DOMAIN Lines = 1 .. Kept
  BY KeptType, LinesType DEF Lines
<1>. QED
  BY <1>1, LenProperties

\* What a poll sends: the places that follow those already sent.
LEMMA UnsentLines ==
    ASSUME pos \in Nat, Holds, sent \in Nat, sent <= Kept
    PROVE  /\ Unsent \in Seq(Line) /\ Len(Unsent) = Kept - sent
           /\ \A k \in 1 .. Kept - sent : Unsent[k].at = pos - Kept + sent + k
<1>1. Kept \in Nat /\ Lines \in Seq(Line) /\ Len(Lines) = Kept
  BY KeptType, LinesType, LenLines
<1>2. /\ Unsent \in Seq(Line) /\ Len(Unsent) = Kept - sent
      /\ \A k \in 1 .. Kept - sent : Unsent[k] = Lines[sent + k]
  BY <1>1 DEF Unsent
<1>3. ASSUME NEW k \in 1 .. Kept - sent
      PROVE  Unsent[k].at = pos - Kept + sent + k
  <2>. DEFINE i == sent + k
  <2>1. i \in 1 .. Kept
    BY <1>1
  <2>2. pos - Kept + i = pos - Kept + sent + k
    BY <1>1
  <2>. HIDE DEF i
  <2>3. Lines[i].at = pos - Kept + i
    BY <2>1, LinesAt
  <2>. QED
    BY <1>2, <2>2, <2>3 DEF i
<1>. QED
  BY <1>2, <1>3

\* A line that is written takes the slot of the one Cap places before it, which
\* the buffer no longer holds.
LEMMA WriteKeepsBuffer ==
    ASSUME TypeOK, Holds, NEW w \in Writers, Write(w)
    PROVE  /\ lines' \in [0 .. Cap - 1 -> Line \cup {NoLine}]
           /\ pos' = pos + 1 /\ pos' \in Nat /\ written' \in [Writers -> Nat]
           /\ Holds' /\ Kept <= Kept' /\ pos - Kept <= pos' - Kept'
<1>. USE CapAssumption
<1>1. pos \in Nat /\ pos' = pos + 1 /\ pos' \in Nat
  BY DEF TypeOK, Write
<1>2. pos % Cap \in 0 .. Cap - 1
  BY <1>1, DivMod
<1>. DEFINE line == [from |-> w, at |-> pos + 1]
<1>3. line \in Line /\ line.at = pos + 1
  BY <1>1 DEF Line
<1>4. lines' = [lines EXCEPT ![pos % Cap] = line]
  BY DEF Write
<1>. HIDE DEF line
<1>5. lines' \in [0 .. Cap - 1 -> Line \cup {NoLine}]
  BY <1>2, <1>3, <1>4 DEF TypeOK
<1>6. Holds'
  <2>. SUFFICES ASSUME NEW n \in Nat, n < pos', pos' - n <= Cap
                PROVE  lines'[n % Cap] \in Line /\ lines'[n % Cap].at = n + 1
    BY DEF Holds
  <2>1. n % Cap \in 0 .. Cap - 1
    BY DivMod
  <2>2. CASE n = pos
    BY <1>2, <1>3, <1>4, <2>2 DEF TypeOK
  <2>3. CASE n # pos
    <3>1. n < pos /\ pos - n <= Cap /\ pos - n < Cap
      BY <1>1, <2>3
    <3>2. n % Cap # pos % Cap
      BY <1>1, <3>1, Apart
    <3>3. lines'[n % Cap] = lines[n % Cap]
      BY <1>4, <2>1, <3>2 DEF TypeOK
    <3>. QED
      BY <3>1, <3>3 DEF Holds
  <2>. QED
    BY <2>2, <2>3
<1>7. Kept <= Kept' /\ pos - Kept <= pos' - Kept'
  BY <1>1 DEF Kept
<1>8. written' \in [Writers -> Nat]
  <2>1. written[w] \in Nat /\ written[w] + 1 \in Nat
    BY DEF TypeOK
  <2>. QED
    BY <2>1 DEF Write, TypeOK
<1>. QED
  BY <1>1, <1>5, <1>6, <1>7, <1>8

-----------------------------------------------------------------------------
(* The invariant *)

\* Where the reader of the stream stands: it has nothing beyond the position it
\* has counted to, and everything up to it while the log fits the buffer.
Followed ==
    /\ sent <= Kept
    /\ \A i \in 1 .. Len(received) : received[i].at <= pos - Kept + sent
    /\ \A i, j \in 1 .. Len(received) : i < j => received[i].at < received[j].at
    /\ pos <= Cap =>
          /\ Len(received) = sent
          /\ \A i \in 1 .. Len(received) : received[i].at = i

\* A job that has not begun has no row.
Begun == run = "idle" => status = "absent"

IInv == TypeOK /\ Holds /\ Followed /\ Begun

LEMMA WriteKeepsFollowed ==
    ASSUME IInv, NEW w \in Writers, Write(w), UNCHANGED streamVars
    PROVE  Followed'
<1>. USE CapAssumption
<1>1. /\ pos \in Nat /\ pos' = pos + 1 /\ Kept <= Kept'
      /\ pos - Kept <= pos' - Kept'
  BY WriteKeepsBuffer DEF IInv, TypeOK
<1>2. Kept \in Nat /\ Kept' \in Nat /\ sent \in Nat
  BY <1>1, KeptType DEF IInv, TypeOK, Kept
<1>3. sent' = sent /\ received' = received /\ received \in Seq(Line)
  BY DEF streamVars, IInv, TypeOK
<1>4. sent' <= Kept'
  BY <1>1, <1>2, <1>3 DEF IInv, Followed
<1>5. ASSUME NEW i \in 1 .. Len(received')
      PROVE  received'[i].at <= pos' - Kept' + sent'
  <2>1. received[i].at <= pos - Kept + sent
    BY <1>3 DEF IInv, Followed
  <2>2. received[i] \in Line
    BY <1>3
  <2>3. received[i].at \in Nat
    BY <2>2 DEF Line
  <2>4. \A x, a, b \in Int : x <= a + sent /\ a <= b => x <= b + sent
    BY <1>2
  <2>5. pos - Kept \in Int /\ pos' - Kept' \in Int
    BY <1>1, <1>2
  <2>6. received[i].at <= pos' - Kept' + sent
    BY <1>1, <2>1, <2>3, <2>4, <2>5
  <2>. QED
    BY <1>3, <2>6
<1>6. pos' <= Cap => pos <= Cap
  BY <1>1
<1>. QED
  BY <1>3, <1>4, <1>5, <1>6 DEF IInv, Followed

\* After a poll the reader has all that is kept, behind what it already had.
LEMMA SendExtends ==
    ASSUME IInv, SendLines
    PROVE  /\ sent' = Kept /\ received' \in Seq(Line)
           /\ Len(received') = Len(received) + (Kept - sent)
           /\ \A i \in 1 .. Len(received) : received'[i] = received[i]
           /\ \A i \in 1 .. Len(received') : i > Len(received) =>
                 received'[i].at = pos - Kept + sent + (i - Len(received))
<1>1. pos \in Nat /\ sent \in Nat /\ sent <= Kept /\ received \in Seq(Line)
  BY CapAssumption DEF IInv, TypeOK, Followed
<1>2. Kept \in Nat
  BY <1>1, KeptType
<1>3. sent' = Kept
  BY <1>1, <1>2 DEF SendLines, SentAfter
<1>4. /\ Unsent \in Seq(Line) /\ Len(Unsent) = Kept - sent
      /\ \A k \in 1 .. Kept - sent : Unsent[k].at = pos - Kept + sent + k
  BY <1>1, UnsentLines DEF IInv
<1>5. received' = received \o Unsent
  BY DEF SendLines
<1>. DEFINE n == Len(received)
<1>6. n \in Nat
  BY <1>1
<1>7. /\ received' \in Seq(Line) /\ Len(received') = n + (Kept - sent)
      /\ \A i \in 1 .. n : received'[i] = received[i]
      /\ \A i \in 1 .. n + (Kept - sent) : i > n => received'[i] = Unsent[i - n]
  <2>. DEFINE u == Unsent
              m == Kept - sent
  <2>1. u \in Seq(Line) /\ Len(u) = m /\ received' = received \o u /\ m \in Nat
    BY <1>1, <1>2, <1>4, <1>5
  <2>. HIDE DEF u, m
  <2>2. /\ received \o u \in Seq(Line) /\ Len(received \o u) = n + m
        /\ \A i \in 1 .. n + m : (received \o u)[i] =
               IF i <= n THEN received[i] ELSE u[i - n]
    BY <1>1, <2>1, ConcatProperties
  <2>. HIDE DEF n
  <2>3. /\ received' \in Seq(Line) /\ Len(received') = n + m
        /\ \A i \in 1 .. n + m : received'[i] =
               IF i <= n THEN received[i] ELSE u[i - n]
    BY <2>1, <2>2
  <2>4. \A i \in 1 .. n : received'[i] = received[i]
    BY <1>6, <2>1, <2>3
  <2>5. \A i \in 1 .. n + m : i > n => received'[i] = u[i - n]
    BY <1>6, <2>1, <2>3
  <2>. QED
    BY <2>3, <2>4, <2>5 DEF n, m, u
<1>8. ASSUME NEW i \in 1 .. Len(received'), i > n
      PROVE  received'[i].at = pos - Kept + sent + (i - n)
  <2>. DEFINE k == i - n
  <2>1. k \in 1 .. Kept - sent
    BY <1>1, <1>2, <1>6, <1>7, <1>8
  <2>2. received'[i] = Unsent[k]
    BY <1>7, <1>8
  <2>. HIDE DEF k
  <2>3. Unsent[k].at = pos - Kept + sent + k
    BY <1>4, <2>1
  <2>. QED
    BY <2>2, <2>3 DEF k
<1>. QED
  BY <1>3, <1>7, <1>8

LEMMA SendKeepsFollowed == ASSUME IInv, SendLines PROVE Followed'
<1>1. /\ pos \in Nat /\ sent \in Nat /\ sent <= Kept /\ received \in Seq(Line)
      /\ Cap \in Nat
  BY CapAssumption DEF IInv, TypeOK, Followed
<1>2. Kept \in Nat /\ Kept <= pos
  BY <1>1, KeptType
<1>3. pos' = pos /\ Kept' = Kept
  BY DEF SendLines, bufVars, Kept
<1>. DEFINE n == Len(received)
            b == pos - Kept + sent
<1>4. n \in Nat /\ b \in Int
  BY <1>1, <1>2
<1>5. /\ sent' = Kept /\ Len(received') = n + (Kept - sent)
      /\ \A i \in 1 .. n : received'[i] = received[i]
      /\ \A i \in 1 .. Len(received') : i > n => received'[i].at = b + (i - n)
  BY SendExtends
<1>6. /\ \A i \in 1 .. n : received[i].at <= b
      /\ \A i, j \in 1 .. n : i < j => received[i].at < received[j].at
      /\ pos <= Cap => n = sent /\ \A i \in 1 .. n : received[i].at = i
  BY DEF IInv, Followed
<1>7. \A i \in 1 .. n : received[i].at \in Nat
  <2>1. \A i \in 1 .. n : received[i] \in Line
    BY <1>1
  <2>. QED
    BY <2>1 DEF Line
<1>8. pos' - Kept' + sent' = pos
  BY <1>1, <1>2, <1>3, <1>5
<1>9. b + (Kept - sent) = pos
  BY <1>1, <1>2
<1>10. pos <= Cap => Kept = pos /\ b = sent
  BY <1>1 DEF Kept
<1>. HIDE DEF n, b
<1>11. ASSUME NEW i \in 1 .. Len(received')
       PROVE  received'[i].at <= pos
  <2>1. CASE i <= n
    <3>1. received'[i].at = received[i].at /\ received[i].at <= b
      BY <1>4, <1>5, <1>6, <2>1
    <3>2. received[i].at \in Nat
      BY <1>4, <1>7, <2>1
    <3>. QED
      BY <1>1, <1>2, <1>4, <1>9, <3>1, <3>2
  <2>2. CASE i > n
    <3>1. received'[i].at = b + (i - n) /\ i - n <= Kept - sent
      BY <1>1, <1>2, <1>4, <1>5, <2>2
    <3>. QED
      BY <1>1, <1>2, <1>4, <1>9, <3>1
  <2>. QED
    BY <1>4, <2>1, <2>2
<1>12. ASSUME NEW i \in 1 .. Len(received'), NEW j \in 1 .. Len(received'), i < j
       PROVE  received'[i].at < received'[j].at
  <2>1. CASE j <= n
    BY <1>4, <1>5, <1>6, <1>12, <2>1
  <2>2. CASE j > n /\ i <= n
    BY <1>4, <1>5, <1>6, <1>7, <1>12, <2>2
  <2>3. CASE i > n
    <3>1. received'[i].at = b + (i - n) /\ received'[j].at = b + (j - n)
      BY <1>4, <1>5, <1>12, <2>3
    <3>. QED
      BY <1>4, <1>12, <3>1
  <2>. QED
    BY <1>4, <2>1, <2>2, <2>3
<1>13. ASSUME pos <= Cap
       PROVE  /\ Len(received') = sent'
              /\ \A i \in 1 .. Len(received') : received'[i].at = i
  BY <1>1, <1>2, <1>4, <1>5, <1>6, <1>10, <1>13
<1>. QED
  BY <1>3, <1>5, <1>8, <1>11, <1>12, <1>13, <1>2 DEF Followed

-----------------------------------------------------------------------------
(* The invariant is inductive *)

LEMMA InitInvariant == ASSUME Init PROVE IInv
<1>. USE CapAssumption, RestartAssumption
<1>1. received \in Seq(Line) /\ logOutput \in Seq(Line) /\ Len(received) = 0
  BY EmptySeq DEF Init
<1>2. lines \in [0 .. Cap - 1 -> Line \cup {NoLine}]
  BY DEF Init, EmptyBuffer
<1>3. TypeOK
  BY <1>1, <1>2 DEF Init, TypeOK, Runs, Streams, Terminal
<1>4. Kept = 0
  BY DEF Init, Kept
<1>5. Holds
  BY DEF Init, Holds
<1>6. Followed
  BY <1>1, <1>4 DEF Init, Followed
<1>7. Begun
  BY DEF Init, Begun
<1>. QED
  BY <1>3, <1>5, <1>6, <1>7 DEF IInv

\* The job's own steps and the stream's leave the buffer to the writers.
LEMMA SameBuffer ==
    ASSUME IInv, UNCHANGED bufVars
    PROVE  Holds' /\ Kept' = Kept
BY DEF IInv, bufVars, Holds, Kept

LEMMA SameStream ==
    ASSUME IInv, UNCHANGED bufVars, UNCHANGED streamVars
    PROVE  Followed'
<1>1. Kept' = Kept
  BY SameBuffer
<1>2. pos' = pos /\ received' = received /\ sent' = sent
  BY DEF bufVars, streamVars
<1>. QED
  BY <1>1, <1>2 DEF IInv, Followed

LEMMA WriteStep ==
    ASSUME IInv, NEW w \in Writers, Write(w), UNCHANGED streamVars,
           run' \in Runs, run' = "idle" => status' = "absent",
           UNCHANGED <<kind, status, logOutput, restarts>>
    PROVE  IInv'
<1>1. /\ lines' \in [0 .. Cap - 1 -> Line \cup {NoLine}]
      /\ pos' \in Nat /\ written' \in [Writers -> Nat] /\ Holds'
  BY WriteKeepsBuffer DEF IInv
<1>2. TypeOK'
  BY <1>1 DEF IInv, TypeOK, streamVars
<1>3. Followed'
  BY WriteKeepsFollowed
<1>. QED
  BY <1>1, <1>2, <1>3 DEF IInv, Begun

LEMMA RowStep ==
    ASSUME IInv, UNCHANGED bufVars, UNCHANGED streamVars, UNCHANGED <<kind, restarts>>,
           run' \in Runs \ {"idle"}, status' \in {"absent", "running"} \cup Terminal,
           logOutput' \in {logOutput, Lines}
    PROVE  IInv'
<1>1. Lines \in Seq(Line)
  BY LinesType DEF IInv, TypeOK
<1>2. logOutput' \in Seq(Line)
  BY <1>1 DEF IInv, TypeOK
<1>3. TypeOK'
  BY <1>2 DEF IInv, TypeOK, bufVars, streamVars
<1>4. Holds' /\ Followed'
  BY SameBuffer, SameStream
<1>. QED
  BY <1>3, <1>4 DEF IInv, Begun

LEMMA ConnectStep == ASSUME IInv, Connect PROVE IInv'
<1>. USE CapAssumption
<1>1. received' \in Seq(Line) /\ Len(received') = 0 /\ sent' = 0
  BY EmptySeq DEF Connect
<1>2. Holds' /\ Kept' = Kept
  BY SameBuffer DEF Connect
<1>3. TypeOK'
  BY <1>1 DEF IInv, TypeOK, Connect, bufVars, jobVars, Streams
<1>4. pos' = pos /\ pos \in Nat /\ Kept \in Nat
  BY KeptType DEF IInv, TypeOK, Connect, bufVars
<1>5. Followed'
  BY <1>1, <1>2, <1>4 DEF Followed
<1>. QED
  BY <1>2, <1>3, <1>5 DEF IInv, Begun, Connect, jobVars

LEMMA SendStep == ASSUME IInv, SendLines PROVE IInv'
<1>1. received' \in Seq(Line) /\ sent' = Kept
  BY SendExtends
<1>2. Kept \in 0 .. Cap
  BY KeptType, CapAssumption DEF IInv, TypeOK
<1>3. TypeOK'
  BY <1>1, <1>2 DEF IInv, TypeOK, SendLines, bufVars, jobVars, Streams
<1>4. Holds' /\ Followed'
  BY SameBuffer, SendKeepsFollowed DEF SendLines
<1>. QED
  BY <1>3, <1>4 DEF IInv, Begun, SendLines, jobVars

\* The connection ends, or waits for the next tick.
LEMMA CloseStep == ASSUME IInv, CheckDone \/ Disconnect PROVE IInv'
<1>1. /\ UNCHANGED <<bufVars, jobVars, sent, received, restarts>>
      /\ stream' \in Streams /\ verdict' \in {verdict} \cup Terminal
  BY DEF CheckDone, Disconnect, Done, Streams, Terminal
<1>2. TypeOK'
  BY <1>1 DEF IInv, TypeOK, bufVars, jobVars
<1>3. Holds' /\ Kept' = Kept
  BY <1>1, SameBuffer
<1>4. Followed'
  <2>1. pos' = pos /\ received' = received /\ sent' = sent
    BY <1>1 DEF bufVars
  <2>. QED
    BY <1>3, <2>1 DEF IInv, Followed
<1>. QED
  BY <1>1, <1>2, <1>3, <1>4 DEF IInv, Begun, jobVars

LEMMA RestartStep == ASSUME IInv, Restart PROVE IInv'
<1>. USE CapAssumption
<1>1. received' \in Seq(Line) /\ Len(received') = 0 /\ sent' = 0 /\ pos' = 0
  BY EmptySeq DEF Restart
<1>2. lines' \in [0 .. Cap - 1 -> Line \cup {NoLine}]
  BY DEF Restart, EmptyBuffer
<1>3. TypeOK'
  BY <1>1, <1>2 DEF IInv, TypeOK, Restart, Runs, Streams, Terminal
<1>4. Kept' = 0
  BY <1>1 DEF Kept
<1>5. Holds' /\ Followed'
  BY <1>1, <1>4 DEF Holds, Followed
<1>6. Begun'
  BY DEF IInv, Begun, Restart, Runs
<1>. QED
  BY <1>3, <1>5, <1>6 DEF IInv

LEMMA NextInvariant == ASSUME IInv, [Next]_vars PROVE IInv'
<1>1. CASE StartJob
  BY <1>1, RowStep DEF StartJob, Runs
<1>2. CASE JobWrites
  <2>1. /\ run' \in Runs /\ (run' = "idle" => status' = "absent")
        /\ UNCHANGED <<kind, status, logOutput, restarts>>
    BY <1>2 DEF JobWrites, jobVars, Runs
  <2>. QED
    BY <1>2, <2>1, WriteStep DEF JobWrites, Writers
<1>3. CASE RestoreWrites
  <2>1. /\ run' \in Runs /\ (run' = "idle" => status' = "absent")
        /\ UNCHANGED <<kind, status, logOutput, restarts>>
    BY <1>3 DEF RestoreWrites, jobVars, IInv, TypeOK, Begun
  <2>. QED
    BY <1>3, <2>1, WriteStep DEF RestoreWrites, Writers
<1>4. CASE \E s \in {"completed", "failed"} : Record(s)
  BY <1>4, RowStep DEF Record, Runs, Terminal
<1>5. CASE RecordTooLate
  BY <1>5, RowStep DEF RecordTooLate, Runs, Terminal
<1>6. CASE LateLine
  <2>1. /\ run' \in Runs /\ run' # "idle"
        /\ UNCHANGED <<kind, status, logOutput, restarts>>
    BY <1>6 DEF LateLine, Runs
  <2>. QED
    BY <1>6, <2>1, WriteStep DEF LateLine, Writers
<1>7. CASE NothingToAdd
  BY <1>7, RowStep DEF NothingToAdd, Runs, IInv, TypeOK
<1>8. CASE SaveAgain
  BY <1>8, RowStep DEF SaveAgain, Runs, IInv, TypeOK
<1>9. CASE Cancel
  BY <1>9, RowStep DEF Cancel, Runs, Terminal
<1>10. CASE UNCHANGED vars
  <2>1. UNCHANGED <<bufVars, jobVars, streamVars, restarts>>
    BY <1>10 DEF vars
  <2>2. Holds' /\ Followed'
    BY <2>1, SameBuffer, SameStream
  <2>. QED
    BY <2>1, <2>2 DEF IInv, TypeOK, Begun, bufVars, jobVars, streamVars
<1>. QED
  BY <1>1, <1>2, <1>3, <1>4, <1>5, <1>6, <1>7, <1>8, <1>9, <1>10,
     ConnectStep, SendStep, CloseStep, RestartStep DEF Next

\* Every variable keeps its type, and log_output its lines.
THEOREM TypeCorrect == Spec => []TypeOK
<1>1. IInv => TypeOK
  BY DEF IInv
<1>. QED
  BY <1>1, InitInvariant, NextInvariant, PTL DEF Spec

\* A client of a log that fits the buffer has exactly its first lines.
THEOREM ShortLogComplete == Spec => []ShortLogHasNoGap
<1>1. IInv => ShortLogHasNoGap
  <2>. SUFFICES ASSUME IInv, pos <= Cap
                PROVE  Len(received) <= pos /\ \A i \in 1 .. Len(received) : received[i].at = i
    BY DEF ShortLogHasNoGap
  <2>1. Len(received) = sent /\ sent <= Kept /\ Kept <= pos /\ sent \in Int
    BY KeptType DEF IInv, Followed, TypeOK
  <2>. QED
    BY <2>1, KeptType DEF IInv, Followed, TypeOK
<1>. QED
  BY <1>1, InitInvariant, NextInvariant, PTL DEF Spec

-----------------------------------------------------------------------------
(* The refinement *)

Places(s) == [i \in DOMAIN s |-> s[i].at]

LEMMA PlacesOf ==
    ASSUME NEW s \in Seq(Line)
    PROVE  /\ Places(s) \in Seq(Nat) /\ Len(Places(s)) = Len(s)
           /\ \A i \in 1 .. Len(s) : Places(s)[i] = s[i].at
<1>1. /\ Len(s) \in Nat /\ DOMAIN s = 1 .. Len(s)
      /\ \A i \in 1 .. Len(s) : s[i] \in Line
  BY LenProperties
<1>2. Places(s) \in [1 .. Len(s) -> Nat]
  BY <1>1 DEF Places, Line
<1>. QED
  BY <1>1, <1>2, LenProperties DEF Places

LEMMA NoPlaces == Places(<<>>) = <<>>
<1>1. <<>> \in Seq(Line) /\ Len(<<>>) = 0
  BY EmptySeq
<1>2. Places(<<>>) \in Seq(Nat) /\ Len(Places(<<>>)) = 0
  BY <1>1, PlacesOf
<1>. QED
  BY <1>2, EmptySeq

LEMMA DeliverStep == ASSUME IInv, SendLines PROVE Feed!Deliver
<1>1. /\ received \in Seq(Line) /\ received' \in Seq(Line)
      /\ Len(received) \in Nat /\ Kept - sent \in Nat
      /\ Len(received') = Len(received) + (Kept - sent)
      /\ \A i \in 1 .. Len(received) : received'[i] = received[i]
  <2>1. received \in Seq(Line) /\ pos \in Nat /\ sent \in Nat /\ sent <= Kept
    BY DEF IInv, TypeOK, Followed
  <2>2. Len(received) \in Nat
    BY <2>1, LenProperties
  <2>3. Kept - sent \in Nat
    BY <2>1, KeptType
  <2>. QED
    BY <2>1, <2>2, <2>3, SendExtends
<1>2. /\ Places(received) \in Seq(Nat) /\ Len(Places(received)) = Len(received)
      /\ \A i \in 1 .. Len(received) : Places(received)[i] = received[i].at
  BY <1>1, PlacesOf
<1>3. /\ Places(received') \in Seq(Nat) /\ Len(Places(received')) = Len(received')
      /\ \A i \in 1 .. Len(received') : Places(received')[i] = received'[i].at
  BY <1>1, PlacesOf
<1>4. Feed!IsPrefix(Places(received), Places(received'))
  <2>1. ASSUME NEW i \in 1 .. Len(Places(received))
        PROVE  Places(received')[i] = Places(received)[i]
    <3>1. i \in 1 .. Len(received) /\ i \in 1 .. Len(received')
      BY <1>1, <1>2
    <3>. QED
      BY <3>1, <1>1, <1>2, <1>3
  <2>2. Len(Places(received)) <= Len(Places(received')) /\ Len(Places(received)) \in Nat
    BY <1>1, <1>2, <1>3
  <2>3. SubSeq(Places(received), 1, Len(Places(received))) = SubSeq(Places(received'), 1, Len(Places(received)))
    BY <2>1, <2>2, <1>2, <1>3
  <2>. QED
    BY <2>2, <2>3 DEF Feed!IsPrefix
<1>5. Feed!Increasing(Places(received'))
  BY <1>3, SendKeepsFollowed DEF Followed, Feed!Increasing
<1>. QED
  BY <1>4, <1>5 DEF Feed!Deliver, Places, SendLines, jobVars

LEMMA StepImplements == ASSUME IInv, [Next]_vars PROVE [Feed!Next]_<<status, Feed!feed>>
<1>. DEFINE Same == UNCHANGED <<stream, received, verdict>>
<1>1. CASE Same /\ UNCHANGED status
  BY <1>1 DEF Feed!feed
<1>2. CASE Same /\ (StartJob \/ Cancel \/ \E s \in {"completed", "failed"} : Record(s))
  <2>1. Feed!Job
    BY <1>2 DEF StartJob, Cancel, Record, IInv, Begun, Feed!Job, Feed!feed
  <2>. QED
    BY <2>1 DEF Feed!Next
<1>3. CASE Connect
  <2>1. Feed!Open
    BY <1>3, NoPlaces DEF Connect, jobVars, Places, Feed!Open
  <2>. QED
    BY <2>1 DEF Feed!Next
<1>4. CASE SendLines
  BY <1>4, DeliverStep DEF Feed!Next
<1>5. CASE CheckDone
  <2>1. CASE status \in Done
    <3>1. Feed!Finish
      BY <1>5, <2>1 DEF CheckDone, jobVars, Done, Feed!Finish
    <3>. QED
      BY <3>1 DEF Feed!Next
  <2>2. CASE status \notin Done
    BY <1>5, <2>2 DEF CheckDone, jobVars, Feed!feed
  <2>. QED
    BY <2>1, <2>2
<1>6. CASE Disconnect
  <2>1. Feed!Leave
    BY <1>6 DEF Disconnect, jobVars, Feed!Leave
  <2>. QED
    BY <2>1 DEF Feed!Next
<1>7. CASE Restart
  <2>1. Feed!Crash
    BY <1>7, NoPlaces DEF Restart, Places, Feed!Crash
  <2>. QED
    BY <2>1 DEF Feed!Next
<1>8. CASE UNCHANGED vars
  BY <1>1, <1>8 DEF vars, jobVars, streamVars
<1>9. CASE \/ JobWrites \/ RestoreWrites \/ RecordTooLate \/ LateLine
           \/ NothingToAdd \/ SaveAgain
  BY <1>1, <1>9 DEF JobWrites, RestoreWrites, RecordTooLate, LateLine,
                    NothingToAdd, SaveAgain, jobVars, streamVars
<1>10. CASE StartJob \/ Cancel \/ \E s \in {"completed", "failed"} : Record(s)
  BY <1>2, <1>10 DEF StartJob, Cancel, Record, streamVars
<1>. QED
  BY <1>3, <1>4, <1>5, <1>6, <1>7, <1>8, <1>9, <1>10 DEF Next

\* What a client sees of any job, at any size of the buffer, is a LogFeed: lines
\* in order and none twice, then the job's own verdict, then nothing.
THEOREM StreamImplementsFeed == Spec => StreamIsFeed
<1>1. Init => Feed!Init
  BY NoPlaces DEF Init, Places, Feed!Init
<1>2. IInv /\ [Next]_vars => [Feed!Next]_<<status, Feed!feed>>
  BY StepImplements
<1>. QED
  BY <1>1, <1>2, InitInvariant, NextInvariant, PTL
     DEF Spec, StreamIsFeed, Feed!Spec, Feed!vars
=============================================================================

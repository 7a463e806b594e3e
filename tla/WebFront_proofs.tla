--------------------------- MODULE WebFront_proofs ---------------------------
(***************************************************************************)
(* The pages of the web front, the router between them and the decoders of *)
(* the logs, for every number of sockets, tickets, requests, tasks, rows   *)
(* and users, and for every log, in whatever chunks it comes.              *)
(*                                                                         *)
(* No page shares state with another one, so Inv is one invariant for each *)
(* of them, and a step is a lemma of the page that moves.  The decoders    *)
(* are functions on sequences; what they compute is proved by induction    *)
(* on the sequences, in the form of the least number outside a set, since  *)
(* the library's theorems of induction cannot be instantiated here.        *)
(***************************************************************************)
EXTENDS WebFront, SequenceTheorems, FiniteSetTheorems, WellFoundedInduction,
        TLAPS

------------------------------------------------------------------------------
(* The decoders of logs.                                                  *)

-----------------------------------------------------------------------------
(* Induction over numbers and sequences as the least element outside a set, *)
(* and what a function that is defined from one number to the next is.     *)

\* A set with 0, and with the next of each of its numbers, holds every number.
LEMMA NumberInduction ==
  ASSUME NEW S, 0 \in S, \A n \in Nat : n \in S => n + 1 \in S
  PROVE  Nat \subseteq S
  <1> DEFINE Outside == {n \in Nat : n \notin S}
  <1>1. SUFFICES ASSUME Outside # {} PROVE FALSE
    OBVIOUS
  <1>2. PICK least \in Outside :
           \A y \in Outside : ~(<<y, least>> \in OpToRel(<, Nat))
    BY <1>1, WFMin, NatLessThanWellFounded
  <1>3. least - 1 \in Nat /\ least - 1 < least /\ (least - 1) + 1 = least
    OBVIOUS
  <1>4. <<least - 1, least>> \in OpToRel(<, Nat)
    BY <1>3 DEF OpToRel
  <1>5. least - 1 \in S
    BY <1>2, <1>3, <1>4
  <1>6. QED
    BY <1>3, <1>5

\* The same of sequences, which grow at their end.
LEMMA SequenceInduction ==
  ASSUME NEW S, NEW T, <<>> \in T,
         \A s \in Seq(S), e \in S : s \in T => Append(s, e) \in T
  PROVE  \A s \in Seq(S) : s \in T
  <1> DEFINE L == {n \in Nat : \A s \in Seq(S) : Len(s) = n => s \in T}
  <1>1. 0 \in L
    <2>1. \A s \in Seq(S) : Len(s) = 0 => s = <<>>
      BY EmptySeq
    <2>2. QED
      BY <2>1
  <1>2. ASSUME NEW n \in Nat, n \in L PROVE n + 1 \in L
    <2>1. SUFFICES ASSUME NEW s \in Seq(S), Len(s) = n + 1 PROVE s \in T
      OBVIOUS
    <2> DEFINE front == SubSeq(s, 1, n)
    <2>2. front \in Seq(S) /\ Len(front) = n /\ s[n + 1] \in S
      BY <2>1
    <2>3. s = Append(front, s[n + 1])
      BY <2>1, <2>2
    <2>4. front \in T
      BY <1>2, <2>2
    <2> HIDE DEF front
    <2>5. Append(front, s[n + 1]) \in T
      BY <2>2, <2>4
    <2>6. QED
      BY <2>3, <2>5
  <1> HIDE DEF L
  <1>3. Nat \subseteq L
    BY <1>1, <1>2, NumberInduction
  <1>4. SUFFICES ASSUME NEW s \in Seq(S) PROVE s \in T
    OBVIOUS
  <1>5. Len(s) \in L
    BY <1>3
  <1>6. QED
    BY <1>5 DEF L

\* The functions that begin with b and take h from one number to the next.
Moves(S, n) == [S \X (1..n) -> S]
Recursions(S, b, n, h) ==
    {f \in [0..n -> S] : f = [i \in 0..n |-> IF i = 0 THEN b ELSE h[<<f[i - 1], i>>]]}

\* There is one for each number of steps.
LEMMA Recursion ==
  ASSUME NEW S, NEW b \in S, NEW n \in Nat, NEW h, h \in Moves(S, n)
  PROVE  Recursions(S, b, n, h) # {}
  <1> DEFINE Good(k, f) == f[0] = b /\ \A i \in 1..k : f[i] = h[<<f[i - 1], i>>]
             P == {k \in Nat : k <= n => \E f \in [0..k -> S] : Good(k, f)}
  <1>1. 0 \in P
    <2>1. [i \in 0..0 |-> b] \in [0..0 -> S] /\ Good(0, [i \in 0..0 |-> b])
      OBVIOUS
    <2>2. QED
      BY <2>1
  <1>2. ASSUME NEW k \in Nat, k \in P PROVE k + 1 \in P
    <2>1. SUFFICES ASSUME k + 1 <= n PROVE \E f \in [0..(k + 1) -> S] : Good(k + 1, f)
      OBVIOUS
    <2>2. PICK f \in [0..k -> S] : Good(k, f)
      BY <1>2, <2>1
    <2> DEFINE next == h[<<f[k], k + 1>>]
               g == [i \in 0..(k + 1) |-> IF i = k + 1 THEN next ELSE f[i]]
    <2>3. next \in S
      <3>1. f[k] \in S /\ k + 1 \in 1..n
        BY <2>1
      <3>2. QED
        BY <3>1 DEF Moves
    <2> HIDE DEF next
    <2>4. g \in [0..(k + 1) -> S] /\ g[k + 1] = next /\ \A i \in 0..k : g[i] = f[i]
      BY <2>3
    <2> HIDE DEF g
    <2>5. ASSUME NEW i \in 1..(k + 1) PROVE g[i] = h[<<g[i - 1], i>>]
      <3>1. CASE i = k + 1
        <4>1. g[i - 1] = f[k]
          BY <2>4, <3>1
        <4>2. QED
          BY <2>4, <3>1, <4>1 DEF next
      <3>2. CASE i # k + 1
        <4>1. i \in 1..k /\ i \in 0..k /\ i - 1 \in 0..k
          BY <3>2
        <4>2. QED
          BY <2>2, <2>4, <4>1
      <3>3. QED
        BY <3>1, <3>2
    <2>6. g[0] = b
      BY <2>2, <2>4
    <2>7. QED
      BY <2>4, <2>5, <2>6
  <1> HIDE DEF P
  <1>3. n \in P
    BY <1>1, <1>2, NumberInduction
  <1>4. PICK f \in [0..n -> S] : Good(n, f)
    BY <1>3 DEF P
  <1>5. \A i \in 0..n : f[i] = IF i = 0 THEN b ELSE h[<<f[i - 1], i>>]
    BY <1>4
  <1>6. f = [i \in 0..n |-> IF i = 0 THEN b ELSE h[<<f[i - 1], i>>]]
    BY <1>4, <1>5
  <1>7. QED
    BY <1>6 DEF Recursions

\* How one of them goes on, and what goes on that way.
LEMMA RecursionIs ==
  ASSUME NEW S, NEW b \in S, NEW n \in Nat, NEW h, NEW f \in Recursions(S, b, n, h)
  PROVE  /\ f \in [0..n -> S]
         /\ \A i \in 0..n : f[i] = IF i = 0 THEN b ELSE h[<<f[i - 1], i>>]
  <1>1. f \in [0..n -> S] /\ f = [i \in 0..n |-> IF i = 0 THEN b ELSE h[<<f[i - 1], i>>]]
    BY DEF Recursions
  <1>2. \A i \in 0..n : f[i] = IF i = 0 THEN b ELSE h[<<f[i - 1], i>>]
    BY <1>1
  <1>3. QED
    BY <1>1, <1>2

LEMMA IsRecursion ==
  ASSUME NEW S, NEW b \in S, NEW n \in Nat, NEW h, h \in Moves(S, n), NEW f,
         f = [i \in 0..n |-> f[i]], f[0] = b,
         \A i \in 1..n : f[i - 1] \in S => f[i] = h[<<f[i - 1], i>>]
  PROVE  f \in Recursions(S, b, n, h)
  <1> DEFINE P == {i \in Nat : i <= n => f[i] \in S}
  <1>1. 0 \in P
    OBVIOUS
  <1>2. ASSUME NEW i \in Nat, i \in P PROVE i + 1 \in P
    <2>1. SUFFICES ASSUME i + 1 <= n PROVE f[i + 1] \in S
      OBVIOUS
    <2>2. i + 1 \in 1..n /\ (i + 1) - 1 = i /\ f[i] \in S
      BY <1>2, <2>1
    <2>3. f[i + 1] = h[<<f[i], i + 1>>]
      BY <2>2
    <2>4. QED
      BY <2>2, <2>3 DEF Moves
  <1> HIDE DEF P
  <1>3. Nat \subseteq P
    BY <1>1, <1>2, NumberInduction
  <1>4. \A i \in 0..n : f[i] \in S
    BY <1>3 DEF P
  <1>5. \A i \in 0..n : i # 0 => i \in 1..n /\ i - 1 \in 0..n
    OBVIOUS
  <1>6. \A i \in 0..n : f[i] = IF i = 0 THEN b ELSE h[<<f[i - 1], i>>]
    BY <1>4, <1>5
  <1>7. f \in [0..n -> S]
    BY <1>4
  <1>8. f = [i \in 0..n |-> IF i = 0 THEN b ELSE h[<<f[i - 1], i>>]]
    BY <1>6, <1>7
  <1>9. QED
    BY <1>7, <1>8 DEF Recursions

\* Two of them agree as far as their steps do.
LEMMA RecursionsAgree ==
  ASSUME NEW S, NEW b, NEW n \in Nat, NEW m \in Nat, m <= n, NEW h, NEW k,
         NEW f \in Recursions(S, b, n, h), NEW g \in Recursions(S, b, m, k),
         \A x \in S, i \in 1..m : h[<<x, i>>] = k[<<x, i>>]
  PROVE  \A i \in 0..m : f[i] = g[i]
  <1> DEFINE P == {i \in Nat : i <= m => f[i] = g[i]}
  <1>1. /\ f \in [0..n -> S] /\ g \in [0..m -> S]
        /\ \A i \in 0..n : f[i] = IF i = 0 THEN b ELSE h[<<f[i - 1], i>>]
        /\ \A i \in 0..m : g[i] = IF i = 0 THEN b ELSE k[<<g[i - 1], i>>]
    <2>1. f = [i \in 0..n |-> IF i = 0 THEN b ELSE h[<<f[i - 1], i>>]]
          /\ g = [i \in 0..m |-> IF i = 0 THEN b ELSE k[<<g[i - 1], i>>]]
      BY DEF Recursions
    <2>2. \A i \in 0..n : f[i] = IF i = 0 THEN b ELSE h[<<f[i - 1], i>>]
      BY <2>1
    <2>3. \A i \in 0..m : g[i] = IF i = 0 THEN b ELSE k[<<g[i - 1], i>>]
      BY <2>1
    <2>4. QED
      BY <2>2, <2>3 DEF Recursions
  <1>2. 0 \in P
    <2>1. 0 \in 0..n /\ 0 \in 0..m
      OBVIOUS
    <2>2. f[0] = b /\ g[0] = b
      BY <1>1, <2>1
    <2>3. QED
      BY <2>2
  <1>3. ASSUME NEW i \in Nat, i \in P PROVE i + 1 \in P
    <2>1. SUFFICES ASSUME i + 1 <= m PROVE f[i + 1] = g[i + 1]
      OBVIOUS
    <2>2. /\ i \in 0..m /\ i \in 0..n /\ i + 1 \in 0..m /\ i + 1 \in 0..n
          /\ i + 1 \in 1..m /\ (i + 1) - 1 = i /\ i + 1 # 0
      BY <2>1
    <2>3. f[i] = g[i] /\ f[i] \in S
      BY <1>1, <1>3, <2>2
    <2>4. f[i + 1] = h[<<f[i], i + 1>>] /\ g[i + 1] = k[<<g[i], i + 1>>]
      BY <1>1, <2>2
    <2>5. QED
      BY <2>2, <2>3, <2>4
  <1> HIDE DEF P
  <1>4. Nat \subseteq P
    BY <1>2, <1>3, NumberInduction
  <1>5. QED
    BY <1>4 DEF P

-----------------------------------------------------------------------------
(* Text: the characters of some bytes, and the lines of some characters.   *)

Bytes == 0..255
Decodings == [lead : BOOLEAN, text : Seq(Nat)]

LEMMA TextAssociates ==
  \A x, y, z \in Seq(Nat) : (x \o y) \o z = x \o (y \o z)
  OBVIOUS

\* What one more byte adds.
LEMMA Utf8Adds ==
  ASSUME NEW lead \in BOOLEAN, NEW byte \in Bytes
  PROVE  \E waits \in BOOLEAN, added \in Seq(Nat) : \A text \in Seq(Nat) :
            Utf8([lead |-> lead, text |-> text], byte) =
               [lead |-> waits, text |-> text \o added]
  <1> DEFINE one(c) == <<c>>
             two == <<Unknown, byte>>
             none == <<>>
             S(text) == [lead |-> lead, text |-> text]
  <1>1. /\ byte \in Nat /\ Letter \in Nat /\ Unknown \in Nat
        /\ one(Letter) \in Seq(Nat) /\ one(Unknown) \in Seq(Nat)
        /\ one(byte) \in Seq(Nat) /\ two \in Seq(Nat) /\ none \in Seq(Nat)
        /\ Accent # Lead
    BY DEF Bytes, Letter, Unknown, Accent, Lead
  <1>2. \A text \in Seq(Nat), c \in Nat : Append(text, c) = text \o one(c)
    BY AppendIsConcat
  <1>3. \A text \in Seq(Nat) : text \o none = text
    BY ConcatEmptySeq
  <1>4. \A text : S(text).lead = lead /\ S(text).text = text
    OBVIOUS
  <1>5. CASE lead /\ byte = Accent
    <2>1. \A text \in Seq(Nat) : Utf8(S(text), byte) =
                [lead |-> FALSE, text |-> text \o one(Letter)]
      BY <1>1, <1>2, <1>5 DEF Utf8
    <2> HIDE DEF one
    <2>2. QED
      BY <1>1, <2>1
  <1>6. CASE lead /\ byte = Lead
    <2>1. \A text \in Seq(Nat) : Utf8(S(text), byte) =
                [lead |-> TRUE, text |-> text \o one(Unknown)]
      BY <1>1, <1>6 DEF Utf8
    <2> HIDE DEF one
    <2>2. QED
      BY <1>1, <2>1
  <1>7. CASE lead /\ byte # Lead /\ byte # Accent
    <2>1. \A text \in Seq(Nat) : Utf8(S(text), byte) = [lead |-> FALSE, text |-> text \o two]
      BY <1>1, <1>7 DEF Utf8
    <2> HIDE DEF two
    <2>2. QED
      BY <1>1, <2>1
  <1>8. CASE ~lead /\ byte = Lead
    <2>1. \A text \in Seq(Nat) : Utf8(S(text), byte) = [lead |-> TRUE, text |-> text]
      BY <1>1, <1>8 DEF Utf8
    <2> HIDE DEF none
    <2>2. QED
      BY <1>1, <1>3, <2>1
  <1>9. CASE ~lead /\ byte # Lead
    <2> DEFINE char == IF byte = Accent THEN Unknown ELSE byte
    <2>1. char \in Nat
      BY <1>1
    <2>2. \A text \in Seq(Nat) : Utf8(S(text), byte) =
                [lead |-> FALSE, text |-> Append(text, char)]
      BY <1>1, <1>9 DEF Utf8
    <2> HIDE DEF char
    <2>3. one(char) \in Seq(Nat)
      BY <2>1
    <2>4. \A text \in Seq(Nat) : Append(text, char) = text \o one(char)
      BY <1>2, <2>1
    <2> HIDE DEF one
    <2>5. QED
      BY <2>2, <2>3, <2>4
  <1>10. QED
    BY <1>5, <1>6, <1>7, <1>8, <1>9

LEMMA DecodingIs ==
  ASSUME NEW state \in Decodings
  PROVE  /\ state = [lead |-> state.lead, text |-> state.text]
         /\ state.lead \in BOOLEAN /\ state.text \in Seq(Nat)
  BY DEF Decodings

LEMMA Utf8Type ==
  ASSUME NEW state \in Decodings, NEW byte \in Bytes
  PROVE  Utf8(state, byte) \in Decodings
  <1>1. /\ state = [lead |-> state.lead, text |-> state.text]
        /\ state.lead \in BOOLEAN /\ state.text \in Seq(Nat)
    BY DecodingIs
  <1>2. PICK waits \in BOOLEAN, added \in Seq(Nat) : \A text \in Seq(Nat) :
            Utf8([lead |-> state.lead, text |-> text], byte) =
               [lead |-> waits, text |-> text \o added]
    BY <1>1, Utf8Adds
  <1>3. Utf8(state, byte) = [lead |-> waits, text |-> state.text \o added]
    BY <1>1, <1>2
  <1>4. state.text \o added \in Seq(Nat)
    BY <1>1, ConcatProperties
  <1>5. QED
    BY <1>3, <1>4 DEF Decodings

\* The recursion of Utf8Written.
Utf8Moves(bytes) == [p \in Decodings \X (1..Len(bytes)) |-> Utf8(p[1], bytes[p[2]])]
Undecoded(lead) == [lead |-> lead, text |-> <<>>]

LEMMA Utf8WrittenIs ==
  ASSUME NEW lead \in BOOLEAN, NEW bytes \in Seq(Bytes)
  PROVE  \E f \in Recursions(Decodings, Undecoded(lead), Len(bytes), Utf8Moves(bytes)) :
            Utf8Written(lead, bytes) = f[Len(bytes)]
  <1> DEFINE start == Undecoded(lead)
             n == Len(bytes)
             h == Utf8Moves(bytes)
             D(f) == [i \in 0..n |-> IF i = 0 THEN start ELSE Utf8(f[i - 1], bytes[i])]
             g == CHOOSE f : f = D(f)
  <1>1. start \in Decodings /\ n \in Nat
    <2> DEFINE none == <<>>
    <2>1. none \in Seq(Nat) /\ start = [lead |-> lead, text |-> none]
      BY DEF Undecoded
    <2> HIDE DEF none
    <2>2. QED
      BY <2>1 DEF Decodings
  <1>2. /\ h \in Moves(Decodings, n)
        /\ \A x \in Decodings, i \in 1..n : h[<<x, i>>] = Utf8(x, bytes[i])
    BY Utf8Type DEF Moves, Utf8Moves
  <1>3. Utf8Written(lead, bytes) = g[n]
    BY DEF Utf8Written, Undecoded
  <1> HIDE DEF start, h, n
  <1>4. PICK f \in Recursions(Decodings, start, n, h) : TRUE
    BY <1>1, <1>2, Recursion
  <1>5. /\ f \in [0..n -> Decodings]
        /\ \A i \in 0..n : f[i] = IF i = 0 THEN start ELSE h[<<f[i - 1], i>>]
    BY <1>1, <1>4, RecursionIs
  <1>6. \A i \in 1..n : h[<<f[i - 1], i>>] = Utf8(f[i - 1], bytes[i])
    BY <1>1, <1>2, <1>5
  <1>7. f = D(f)
    <2>1. \A i \in 0..n : f[i] = IF i = 0 THEN start ELSE Utf8(f[i - 1], bytes[i])
      <3>1. \A i \in 0..n : i # 0 => i \in 1..n
        BY <1>1
      <3>2. QED
        BY <1>5, <1>6, <3>1
    <2>2. QED
      BY <1>5, <2>1
  <1>8. g = D(g)
    BY <1>7
  <1> HIDE DEF g
  <1>9. /\ g = [i \in 0..n |-> g[i]] /\ g[0] = start
        /\ \A i \in 1..n : g[i] = Utf8(g[i - 1], bytes[i])
    <2>1. \A i \in 0..n : g[i] = IF i = 0 THEN start ELSE Utf8(g[i - 1], bytes[i])
      BY <1>8
    <2>2. 0 \in 0..n /\ \A i \in 1..n : i \in 0..n /\ i # 0
      BY <1>1
    <2>3. g = [i \in 0..n |-> g[i]]
      BY <1>8
    <2> HIDE DEF D
    <2>4. QED
      BY <2>1, <2>2, <2>3
  <1>10. \A i \in 1..n : g[i - 1] \in Decodings => g[i] = h[<<g[i - 1], i>>]
    BY <1>2, <1>9
  <1>11. g \in Recursions(Decodings, start, n, h)
    BY <1>1, <1>2, <1>9, <1>10, IsRecursion
  <1>12. QED
    BY <1>3, <1>11 DEF start, h, n

\* What it gives for no bytes, and for one more.
LEMMA Utf8WrittenStep ==
  ASSUME NEW lead \in BOOLEAN
  PROVE  /\ Utf8Written(lead, <<>>) = Undecoded(lead)
         /\ \A bytes \in Seq(Bytes) : Utf8Written(lead, bytes) \in Decodings
         /\ \A bytes \in Seq(Bytes), byte \in Bytes :
               Utf8Written(lead, Append(bytes, byte)) =
                  Utf8(Utf8Written(lead, bytes), byte)
  <1>0. Undecoded(lead) \in Decodings
    <2> DEFINE none == <<>>
    <2>1. none \in Seq(Nat) /\ Undecoded(lead) = [lead |-> lead, text |-> none]
      BY DEF Undecoded
    <2> HIDE DEF none
    <2>2. QED
      BY <2>1 DEF Decodings
  <1>1. Utf8Written(lead, <<>>) = Undecoded(lead)
    <2> DEFINE none == <<>>
    <2>1. none \in Seq(Bytes) /\ Len(none) = 0
      OBVIOUS
    <2> HIDE DEF none
    <2>2. PICK f \in Recursions(Decodings, Undecoded(lead), Len(none), Utf8Moves(none)) :
             Utf8Written(lead, none) = f[Len(none)]
      BY <2>1, Utf8WrittenIs
    <2>3. f[0] = Undecoded(lead)
      <3>1. Len(none) \in Nat /\ 0 \in 0..Len(none)
        BY <2>1
      <3>2. \A i \in 0..Len(none) : f[i] = IF i = 0 THEN Undecoded(lead)
                                           ELSE Utf8Moves(none)[<<f[i - 1], i>>]
        BY <1>0, <2>2, <3>1, RecursionIs
      <3>3. QED
        BY <3>1, <3>2
    <2>4. QED
      BY <2>1, <2>2, <2>3 DEF none
  <1>2. ASSUME NEW bytes \in Seq(Bytes) PROVE Utf8Written(lead, bytes) \in Decodings
    <2>1. PICK f \in Recursions(Decodings, Undecoded(lead), Len(bytes), Utf8Moves(bytes)) :
             Utf8Written(lead, bytes) = f[Len(bytes)]
      BY Utf8WrittenIs
    <2>2. Len(bytes) \in Nat /\ Len(bytes) \in 0..Len(bytes)
      OBVIOUS
    <2>3. f \in [0..Len(bytes) -> Decodings]
      BY <1>0, <2>1, <2>2, RecursionIs
    <2>4. QED
      BY <2>1, <2>2, <2>3
  <1>3. ASSUME NEW bytes \in Seq(Bytes), NEW byte \in Bytes
        PROVE  Utf8Written(lead, Append(bytes, byte)) =
                  Utf8(Utf8Written(lead, bytes), byte)
    <2> DEFINE more == Append(bytes, byte)
               n == Len(bytes)
               start == Undecoded(lead)
    <2>1. /\ more \in Seq(Bytes) /\ Len(more) = n + 1 /\ n \in Nat
          /\ \A i \in 1..n : more[i] = bytes[i]
          /\ more[n + 1] = byte
      BY AppendProperties
    <2> HIDE DEF more
    <2>2. PICK f \in Recursions(Decodings, start, n + 1, Utf8Moves(more)) :
             Utf8Written(lead, more) = f[n + 1]
      BY <2>1, Utf8WrittenIs
    <2>3. PICK g \in Recursions(Decodings, start, n, Utf8Moves(bytes)) :
             Utf8Written(lead, bytes) = g[n]
      BY Utf8WrittenIs
    <2>4. \A x \in Decodings, i \in 1..n :
             Utf8Moves(more)[<<x, i>>] = Utf8Moves(bytes)[<<x, i>>]
      <3>1. SUFFICES ASSUME NEW x \in Decodings, NEW i \in 1..n
                     PROVE  Utf8Moves(more)[<<x, i>>] = Utf8Moves(bytes)[<<x, i>>]
        OBVIOUS
      <3>2. i \in 1..Len(more)
        BY <2>1
      <3>3. Utf8Moves(more)[<<x, i>>] = Utf8(x, more[i])
            /\ Utf8Moves(bytes)[<<x, i>>] = Utf8(x, bytes[i])
        BY <3>2 DEF Utf8Moves
      <3>4. QED
        BY <2>1, <3>3
    <2> HIDE DEF start, n
    <2>5. n + 1 \in Nat /\ n <= n + 1 /\ n \in 0..n /\ n \in 0..(n + 1)
          /\ n + 1 \in 0..(n + 1) /\ n + 1 # 0 /\ (n + 1) - 1 = n
      BY <2>1
    <2>6. f[n] = g[n]
      <3> DEFINE h == Utf8Moves(more)
                 k == Utf8Moves(bytes)
                 last == n + 1
      <3>1. /\ f \in Recursions(Decodings, start, last, h)
            /\ g \in Recursions(Decodings, start, n, k)
            /\ n \in Nat /\ last \in Nat /\ n <= last
            /\ \A x \in Decodings, i \in 1..n : h[<<x, i>>] = k[<<x, i>>]
        BY <2>1, <2>2, <2>3, <2>4, <2>5 DEF n
      <3> HIDE DEF h, k, last
      <3>2. \A i \in 0..n : f[i] = g[i]
        BY <3>1, RecursionsAgree
      <3>3. QED
        BY <2>5, <3>2
    <2>7. f[n + 1] = Utf8Moves(more)[<<f[n], n + 1>>] /\ f[n] \in Decodings
      BY <1>0, <2>2, <2>5, RecursionIs DEF start
    <2>8. Utf8Moves(more)[<<f[n], n + 1>>] = Utf8(f[n], byte)
      BY <2>1, <2>7 DEF Utf8Moves
    <2>9. QED
      BY <2>2, <2>3, <2>6, <2>7, <2>8 DEF more
  <1>4. QED
    BY <1>1, <1>2, <1>3

\* Two pieces after one another.
LEMMA Utf8Composes ==
  ASSUME NEW lead \in BOOLEAN, NEW bytes \in Seq(Bytes), NEW more \in Seq(Bytes)
  PROVE  LET first == Utf8Written(lead, bytes)
             second == Utf8Written(first.lead, more)
         IN  /\ Utf8Written(lead, bytes \o more).lead = second.lead
             /\ Utf8Written(lead, bytes \o more).text = first.text \o second.text
  <1> DEFINE first == Utf8Written(lead, bytes)
             U(t) == Utf8Written(first.lead, t)
             T == {t \in Seq(Bytes) :
                     Utf8Written(lead, bytes \o t) =
                        [lead |-> U(t).lead, text |-> first.text \o U(t).text]}
  <1>1. first \in Decodings /\ first.lead \in BOOLEAN /\ first.text \in Seq(Nat)
        /\ first = [lead |-> first.lead, text |-> first.text]
    BY Utf8WrittenStep, DecodingIs
  <1> HIDE DEF first
  <1>2. <<>> \in T
    <2> DEFINE none == <<>>
    <2>1. /\ none \in Seq(Bytes) /\ bytes \o none = bytes
          /\ first.text \o none = first.text
      BY <1>1, ConcatEmptySeq
    <2>2. U(none) = [lead |-> first.lead, text |-> none]
      BY <1>1, Utf8WrittenStep DEF Undecoded
    <2> HIDE DEF none
    <2>3. U(none).lead = first.lead /\ U(none).text = none
      BY <2>2
    <2>4. Utf8Written(lead, bytes \o none) =
             [lead |-> U(none).lead, text |-> first.text \o U(none).text]
      BY <1>1, <2>1, <2>3 DEF first
    <2>5. none \in T
      BY <2>1, <2>4
    <2>6. QED
      BY <2>5 DEF none
  <1>3. ASSUME NEW t \in Seq(Bytes), NEW byte \in Bytes, t \in T
        PROVE  Append(t, byte) \in T
    <2>1. /\ Append(t, byte) \in Seq(Bytes) /\ bytes \o t \in Seq(Bytes)
          /\ bytes \o Append(t, byte) = Append(bytes \o t, byte)
      BY AppendProperties, ConcatProperties
    <2>2. /\ U(t) \in Decodings /\ U(t).lead \in BOOLEAN /\ U(t).text \in Seq(Nat)
          /\ U(t) = [lead |-> U(t).lead, text |-> U(t).text]
      BY <1>1, Utf8WrittenStep, DecodingIs
    <2>3. U(Append(t, byte)) = Utf8(U(t), byte)
      BY <1>1, Utf8WrittenStep
    <2>4. Utf8Written(lead, Append(bytes \o t, byte)) =
             Utf8(Utf8Written(lead, bytes \o t), byte)
      BY <2>1, Utf8WrittenStep
    <2>5. PICK waits \in BOOLEAN, added \in Seq(Nat) : \A text \in Seq(Nat) :
            Utf8([lead |-> U(t).lead, text |-> text], byte) =
               [lead |-> waits, text |-> text \o added]
      BY <2>2, Utf8Adds
    <2> HIDE DEF U
    <2>6. U(Append(t, byte)) = [lead |-> waits, text |-> U(t).text \o added]
      BY <2>2, <2>3, <2>5
    <2>7. first.text \o U(t).text \in Seq(Nat)
      BY <1>1, <2>2, ConcatProperties
    <2>8. Utf8Written(lead, bytes \o Append(t, byte)) =
             [lead |-> waits, text |-> (first.text \o U(t).text) \o added]
      BY <1>3, <2>1, <2>4, <2>5, <2>7
    <2> DEFINE a == first.text
               b == U(t).text
    <2>9. (a \o b) \o added = a \o (b \o added)
      <3>1. a \in Seq(Nat) /\ b \in Seq(Nat)
        BY <1>1, <2>2
      <3> HIDE DEF a, b
      <3>2. added \in Seq(Nat)
        BY <2>5
      <3> HIDE DEF T
      <3>3. QED
        BY <3>1, <3>2, TextAssociates
    <2> DEFINE s == Append(t, byte)
               u == U(s)
    <2>10. u.lead = waits /\ u.text = b \o added
      BY <2>6
    <2>11. Utf8Written(lead, bytes \o s) = [lead |-> u.lead, text |-> a \o u.text]
      BY <2>8, <2>9, <2>10
    <2>12. s \in Seq(Bytes)
      BY <2>1
    <2> HIDE DEF s, a, b
    <2>13. s \in T
      BY <2>11, <2>12 DEF a
    <2>14. QED
      BY <2>13 DEF s
  <1> HIDE DEF T
  <1>4. more \in T
    BY <1>2, <1>3, SequenceInduction
  <1> DEFINE both == Utf8Written(lead, bytes \o more)
  <1>5. both = [lead |-> U(more).lead, text |-> first.text \o U(more).text]
    BY <1>4 DEF T
  <1> HIDE DEF both, U
  <1>6. both.lead = U(more).lead /\ both.text = first.text \o U(more).text
    BY <1>5
  <1>7. QED
    BY <1>6 DEF both, U, first

-----------------------------------------------------------------------------
Lines == Seq(Seq(Nat))
LineLists == {lines \in Lines : lines # <<>>}
NoLine == << <<>> >>

\* What a character makes of the last line.
After(line, c) ==
    IF c # LineFeed THEN <<Append(line, c)>>
    ELSE << IF line # <<>> /\ Last(line) = Return THEN Front(line) ELSE line, <<>> >>

LEMMA ConcatIs ==
  ASSUME NEW S, NEW s \in Seq(S), NEW t \in Seq(S)
  PROVE  /\ s \o t \in Seq(S) /\ Len(s \o t) = Len(s) + Len(t)
         /\ \A i \in 1..Len(s) : (s \o t)[i] = s[i]
         /\ \A i \in 1..Len(t) : (s \o t)[Len(s) + i] = t[i]
  <1>1. Len(s) \in Nat /\ Len(t) \in Nat
    OBVIOUS
  <1>2. Len(s \o t) = Len(s) + Len(t)
    OBVIOUS
  <1>3. s \o t \in Seq(S)
    BY ConcatProperties
  <1>4. \A i \in 1..Len(s) : (s \o t)[i] = s[i]
    OBVIOUS
  <1>5. \A i \in 1..Len(t) : (s \o t)[Len(s) + i] = t[i]
    BY <1>1
  <1>6. QED
    BY <1>2, <1>3, <1>4, <1>5

LEMMA FrontLast ==
  ASSUME NEW S, NEW s \in Seq(S), s # <<>>
  PROVE  /\ Front(s) \in Seq(S) /\ Last(s) \in S /\ s = Front(s) \o <<Last(s)>>
         /\ Len(Front(s)) = Len(s) - 1
         /\ \A i \in 1..(Len(s) - 1) : Front(s)[i] = s[i]
  <1> DEFINE m == Len(s) - 1
             fr == SubSeq(s, 1, m)
             la == s[Len(s)]
  <1>1. Len(s) \in Nat /\ Len(s) >= 1 /\ m \in 0..Len(s) /\ Len(s) = m + 1
    BY EmptySeq
  <1>2. Front(s) = fr /\ Last(s) = la
    BY DEF Front, Last
  <1> HIDE DEF m
  <1>7. \A i \in 1..Len(s) : i = m + 1 \/ i \in 1..m
    <2> DEFINE n == Len(s)
    <2>1. n \in Nat /\ m \in 0..n /\ n = m + 1
      BY <1>1
    <2> HIDE DEF n
    <2>2. \A i \in 1..n : i = m + 1 \/ i \in 1..m
      BY <2>1
    <2>3. QED
      BY <2>2 DEF n
  <1>3. fr \in Seq(S) /\ Len(fr) = m /\ \A i \in 1..m : fr[i] = s[i]
    BY <1>1, SubSeqProperties
  <1>4. la \in S /\ la = s[m + 1]
    BY <1>1
  <1> HIDE DEF fr, la
  <1> DEFINE all == Append(fr, la)
  <1>5. all \in Seq(S) /\ Len(all) = m + 1 /\ (\A i \in 1..m : all[i] = fr[i])
        /\ all[m + 1] = la
    BY <1>3, <1>4, AppendProperties
  <1>6. all = fr \o <<la>>
    BY <1>3, <1>4, AppendIsConcat
  <1> HIDE DEF all
  <1>8. s = all
    BY <1>1, <1>3, <1>4, <1>5, <1>7, SeqEqual
  <1>9. QED
    BY <1>2, <1>3, <1>4, <1>6, <1>8 DEF m

LEMMA FrontLastConcat ==
  ASSUME NEW S, NEW s \in Seq(S), NEW t \in Seq(S), t # <<>>
  PROVE  /\ s \o t \in Seq(S) /\ s \o t # <<>>
         /\ Front(s \o t) = s \o Front(t) /\ Last(s \o t) = Last(t)
  <1>1. Len(t) \in Nat /\ Len(t) >= 1 /\ Len(s) \in Nat
    BY EmptySeq
  <1>2. /\ s \o t \in Seq(S) /\ Len(s \o t) = Len(s) + Len(t)
        /\ \A i \in 1..Len(s) : (s \o t)[i] = s[i]
        /\ \A i \in 1..Len(t) : (s \o t)[Len(s) + i] = t[i]
    BY <1>1
  <1>3. s \o t # <<>>
    BY <1>1, <1>2
  <1>4. Last(s \o t) = Last(t)
    BY <1>1, <1>2 DEF Last
  <1>5. /\ Front(t) \in Seq(S) /\ Len(Front(t)) = Len(t) - 1
        /\ \A i \in 1..(Len(t) - 1) : Front(t)[i] = t[i]
    BY FrontLast
  <1>6. /\ Front(s \o t) \in Seq(S) /\ Len(Front(s \o t)) = (Len(s) + Len(t)) - 1
        /\ \A i \in 1..((Len(s) + Len(t)) - 1) : Front(s \o t)[i] = (s \o t)[i]
    BY <1>2, <1>3, FrontLast
  <1> DEFINE a == Front(s \o t)
             fr == Front(t)
             b == s \o fr
  <1>6a. /\ a \in Seq(S) /\ Len(a) = (Len(s) + Len(t)) - 1
         /\ \A i \in 1..((Len(s) + Len(t)) - 1) : a[i] = (s \o t)[i]
    BY <1>6
  <1>f. fr \in Seq(S) /\ Len(fr) = Len(t) - 1 /\ \A i \in 1..(Len(t) - 1) : fr[i] = t[i]
    BY <1>5
  <1> HIDE DEF fr
  <1>7. /\ b \in Seq(S) /\ Len(b) = (Len(s) + Len(t)) - 1
        /\ \A i \in 1..Len(s) : b[i] = s[i]
        /\ \A i \in 1..(Len(t) - 1) : b[Len(s) + i] = t[i]
    <2>0. fr \in Seq(S)
      BY <1>f
    <2>1. /\ b \in Seq(S) /\ Len(b) = Len(s) + Len(fr)
          /\ \A i \in 1..Len(s) : b[i] = s[i]
          /\ \A i \in 1..Len(fr) : b[Len(s) + i] = fr[i]
      BY <2>0, ConcatIs
    <2> HIDE DEF b
    <2>2. QED
      BY <1>1, <1>f, <2>1
  <1> HIDE DEF a, b
  <1>8. \A i \in 1..Len(b) : a[i] = b[i]
    <2>1. SUFFICES ASSUME NEW i \in 1..Len(b) PROVE a[i] = b[i]
      OBVIOUS
    <2>2. CASE i <= Len(s)
      BY <1>1, <1>2, <1>6a, <1>7, <2>2
    <2>3. CASE i > Len(s)
      <3>1. i - Len(s) \in 1..(Len(t) - 1) /\ i - Len(s) \in 1..Len(t)
            /\ Len(s) + (i - Len(s)) = i
        BY <1>1, <1>7, <2>3
      <3>2. b[i] = t[i - Len(s)] /\ (s \o t)[i] = t[i - Len(s)]
        BY <1>2, <1>7, <3>1
      <3>3. QED
        BY <1>1, <1>6a, <1>7, <3>2
    <2>4. QED
      BY <1>1, <2>2, <2>3
  <1>9. a = b
    BY <1>6a, <1>7, <1>8, SeqEqual
  <1>10. QED
    BY <1>2, <1>3, <1>4, <1>9 DEF a, b, fr

LEMMA AfterType ==
  ASSUME NEW line \in Seq(Nat), NEW c \in Nat
  PROVE  After(line, c) \in LineLists
  <1> DEFINE none == <<>>
             kept == IF line # <<>> /\ Last(line) = Return THEN Front(line) ELSE line
             more == Append(line, c)
  <1>1. none \in Seq(Nat) /\ more \in Seq(Nat)
    BY AppendProperties
  <1>1a. kept \in Seq(Nat)
    <2>1. line # <<>> => Front(line) \in Seq(Nat)
      BY FrontLast
    <2>2. QED
      BY <2>1
  <1>2. After(line, c) = IF c # LineFeed THEN <<more>> ELSE <<kept, none>>
    BY DEF After
  <1> HIDE DEF none, kept, more
  <1>3. <<more>> \in LineLists /\ <<kept, none>> \in LineLists
    BY <1>1, <1>1a DEF LineLists, Lines
  <1>4. QED
    BY <1>2, <1>3

LEMMA NextIs ==
  ASSUME NEW lines \in LineLists, NEW c \in Nat
  PROVE  /\ NextCharacter(lines, c) = Front(lines) \o After(Last(lines), c)
         /\ NextCharacter(lines, c) \in LineLists
         /\ Last(NextCharacter(lines, c)) = Last(After(Last(lines), c))
  <1>1. lines \in Seq(Seq(Nat)) /\ lines # <<>>
    BY DEF LineLists, Lines
  <1>2. Front(lines) \in Seq(Seq(Nat)) /\ Last(lines) \in Seq(Nat)
    BY <1>1, FrontLast
  <1>3. NextCharacter(lines, c) = Front(lines) \o After(Last(lines), c)
    BY DEF NextCharacter, After
  <1>4. After(Last(lines), c) \in Seq(Seq(Nat)) /\ After(Last(lines), c) # <<>>
    BY <1>2, AfterType DEF LineLists, Lines
  <1>5. QED
    BY <1>2, <1>3, <1>4, FrontLastConcat DEF LineLists, Lines

NoLineIs == NoLine \in LineLists
LEMMA NoLineType == NoLineIs
  <1> DEFINE none == <<>>
  <1>1. none \in Seq(Nat)
    OBVIOUS
  <1> HIDE DEF none
  <1>2. <<none>> \in LineLists
    BY <1>1 DEF LineLists, Lines
  <1>3. QED
    BY <1>2 DEF none, NoLineIs, NoLine

SplitMoves(all) == [p \in LineLists \X (1..Len(all)) |-> NextCharacter(p[1], all[p[2]])]

LEMMA SplitIs ==
  ASSUME NEW all \in Seq(Nat)
  PROVE  \E f \in Recursions(LineLists, NoLine, Len(all), SplitMoves(all)) :
            Split(all) = f[Len(all)]
  <1> DEFINE start == NoLine
             n == Len(all)
             h == SplitMoves(all)
             D(f) == [i \in 0..n |-> IF i = 0 THEN start ELSE NextCharacter(f[i - 1], all[i])]
             g == CHOOSE f : f = D(f)
  <1>1. start \in LineLists /\ n \in Nat
    BY NoLineType DEF NoLineIs
  <1>2. /\ h \in Moves(LineLists, n)
        /\ \A x \in LineLists, i \in 1..n : h[<<x, i>>] = NextCharacter(x, all[i])
    BY NextIs DEF Moves, SplitMoves
  <1>3. Split(all) = g[n]
    BY DEF Split, NoLine
  <1> HIDE DEF start, h, n
  <1>4. PICK f \in Recursions(LineLists, start, n, h) : TRUE
    BY <1>1, <1>2, Recursion
  <1>5. /\ f \in [0..n -> LineLists]
        /\ \A i \in 0..n : f[i] = IF i = 0 THEN start ELSE h[<<f[i - 1], i>>]
    BY <1>1, <1>4, RecursionIs
  <1>6. \A i \in 1..n : h[<<f[i - 1], i>>] = NextCharacter(f[i - 1], all[i])
    BY <1>1, <1>2, <1>5
  <1>7. f = D(f)
    <2>1. \A i \in 0..n : i # 0 => i \in 1..n
      BY <1>1
    <2>2. \A i \in 0..n : f[i] = IF i = 0 THEN start ELSE NextCharacter(f[i - 1], all[i])
      BY <1>5, <1>6, <2>1
    <2>3. QED
      BY <1>5, <2>2
  <1>8. g = D(g)
    BY <1>7
  <1> HIDE DEF g
  <1>9. /\ g = [i \in 0..n |-> g[i]] /\ g[0] = start
        /\ \A i \in 1..n : g[i] = NextCharacter(g[i - 1], all[i])
    <2>1. \A i \in 0..n : g[i] = IF i = 0 THEN start ELSE NextCharacter(g[i - 1], all[i])
      BY <1>8
    <2>2. 0 \in 0..n /\ \A i \in 1..n : i \in 0..n /\ i # 0
      BY <1>1
    <2>3. g = [i \in 0..n |-> g[i]]
      BY <1>8
    <2> HIDE DEF D
    <2>4. QED
      BY <2>1, <2>2, <2>3
  <1>10. \A i \in 1..n : g[i - 1] \in LineLists => g[i] = h[<<g[i - 1], i>>]
    BY <1>2, <1>9
  <1>11. g \in Recursions(LineLists, start, n, h)
    BY <1>1, <1>2, <1>9, <1>10, IsRecursion
  <1>12. QED
    BY <1>3, <1>11 DEF start, h, n

LEMMA SplitStep ==
  /\ Split(<<>>) = NoLine
  /\ \A all \in Seq(Nat) : Split(all) \in LineLists
  /\ \A all \in Seq(Nat), one \in Nat :
        Split(Append(all, one)) = NextCharacter(Split(all), one)
  <1>0. NoLine \in LineLists
    BY NoLineType DEF NoLineIs
  <1>1. Split(<<>>) = NoLine
    <2> DEFINE none == <<>>
               start == NoLine
    <2>1. none \in Seq(Nat) /\ Len(none) = 0 /\ Len(none) \in Nat
      OBVIOUS
    <2> HIDE DEF none
    <2> DEFINE h == SplitMoves(none)
               m == Len(none)
    <2>2. PICK f \in Recursions(LineLists, start, m, h) :
             Split(none) = f[m]
      BY <2>1, SplitIs
    <2>s. start \in LineLists
      BY <1>0
    <2>m. m \in Nat
      BY <2>1
    <2>z. m = 0
      BY <2>1
    <2> HIDE DEF start, h, m
    <2>3. \A i \in 0..m : f[i] = IF i = 0 THEN start
                                         ELSE h[<<f[i - 1], i>>]
      BY <2>s, <2>m, <2>2, RecursionIs
    <2>4. 0 \in 0..m
      BY <2>m
    <2>5. QED
      BY <2>z, <2>2, <2>3, <2>4 DEF none, start
  <1>2. ASSUME NEW all \in Seq(Nat) PROVE Split(all) \in LineLists
    <2> DEFINE start == NoLine
    <2>1. PICK f \in Recursions(LineLists, start, Len(all), SplitMoves(all)) :
             Split(all) = f[Len(all)]
      BY SplitIs
    <2>2. Len(all) \in Nat /\ Len(all) \in 0..Len(all)
      OBVIOUS
    <2>3. f \in [0..Len(all) -> LineLists]
      BY <1>0, <2>1, <2>2, RecursionIs
    <2>4. QED
      BY <2>1, <2>2, <2>3
  <1>3. ASSUME NEW all \in Seq(Nat), NEW one \in Nat
        PROVE  Split(Append(all, one)) = NextCharacter(Split(all), one)
    <2> DEFINE more == Append(all, one)
               n == Len(all)
               last == n + 1
               start == NoLine
               h == SplitMoves(more)
               k == SplitMoves(all)
    <2>1. /\ more \in Seq(Nat) /\ Len(more) = n + 1 /\ n \in Nat
          /\ \A i \in 1..n : more[i] = all[i]
          /\ more[n + 1] = one
      BY AppendProperties
    <2> HIDE DEF more
    <2>2. PICK f \in Recursions(LineLists, start, last, h) : Split(more) = f[last]
      BY <2>1, SplitIs
    <2>3. PICK g \in Recursions(LineLists, start, n, k) : Split(all) = g[n]
      BY SplitIs
    <2>4. \A x \in LineLists, i \in 1..n : h[<<x, i>>] = k[<<x, i>>]
      <3>1. SUFFICES ASSUME NEW x \in LineLists, NEW i \in 1..n
                     PROVE  h[<<x, i>>] = k[<<x, i>>]
        OBVIOUS
      <3>2. i \in 1..Len(more)
        BY <2>1
      <3>3. h[<<x, i>>] = NextCharacter(x, more[i]) /\ k[<<x, i>>] = NextCharacter(x, all[i])
        BY <3>2 DEF SplitMoves
      <3>4. QED
        BY <2>1, <3>3
    <2>5. /\ last \in Nat /\ n <= last /\ n \in 0..n /\ n \in 0..last
          /\ last \in 0..last /\ last # 0 /\ last - 1 = n /\ last \in 1..Len(more)
          /\ more[last] = one
      BY <2>1
    <2>6. \A x \in LineLists : h[<<x, last>>] = NextCharacter(x, one)
      BY <2>5 DEF SplitMoves
    <2>s. start \in LineLists
      BY <1>0
    <2> HIDE DEF start, n, h, k, last
    <2>7. \A i \in 0..n : f[i] = g[i]
      BY <2>1, <2>2, <2>3, <2>4, <2>5, RecursionsAgree
    <2>8. f[last] = h[<<f[last - 1], last>>] /\ f[n] \in LineLists
      <3>1. /\ f \in [0..last -> LineLists]
            /\ \A i \in 0..last : f[i] = IF i = 0 THEN start ELSE h[<<f[i - 1], i>>]
        BY <2>s, <2>2, <2>5, RecursionIs
      <3>2. QED
        BY <2>5, <3>1
    <2>9. f[n] = g[n]
      BY <2>5, <2>7
    <2>10. QED
      BY <2>2, <2>3, <2>5, <2>6, <2>8, <2>9 DEF more
  <1>4. QED
    BY <1>1, <1>2, <1>3

-----------------------------------------------------------------------------
Kept(lines, line) == IF line = <<>> THEN lines ELSE Append(lines, line)
NothingKept == <<>>
LEMMA KeptType ==
  /\ NothingKept \in Lines
  /\ \A lines \in Lines, line \in Seq(Nat) : Kept(lines, line) \in Lines
  <1>1. NothingKept \in Lines
    BY DEF NothingKept, Lines
  <1>2. ASSUME NEW lines \in Lines, NEW line \in Seq(Nat) PROVE Kept(lines, line) \in Lines
    <2>1. Append(lines, line) \in Lines
      BY AppendProperties DEF Lines
    <2>2. QED
      BY <2>1 DEF Kept
  <1>3. QED
    BY <1>1, <1>2
KeptMoves(all) == [p \in Lines \X (1..Len(all)) |-> Kept(p[1], all[p[2]])]

LEMMA NonEmptyIs ==
  ASSUME NEW all \in Seq(Seq(Nat))
  PROVE  \E f \in Recursions(Lines, NothingKept, Len(all), KeptMoves(all)) :
            NonEmpty(all) = f[Len(all)]
  <1> DEFINE start == NothingKept
             n == Len(all)
             h == KeptMoves(all)
             D(f) == [i \in 0..n |-> IF i = 0 THEN start ELSE Kept(f[i - 1], all[i])]
             g == CHOOSE f : f = D(f)
  <1>1. start \in Lines /\ n \in Nat
    BY KeptType
  <1>2. /\ h \in Moves(Lines, n)
        /\ \A x \in Lines, i \in 1..n : h[<<x, i>>] = Kept(x, all[i])
    BY KeptType DEF Moves, KeptMoves
  <1>3. NonEmpty(all) = g[n]
    BY DEF NonEmpty, Kept, NothingKept
  <1> HIDE DEF start, h, n
  <1>4. PICK f \in Recursions(Lines, start, n, h) : TRUE
    BY <1>1, <1>2, Recursion
  <1>5. /\ f \in [0..n -> Lines]
        /\ \A i \in 0..n : f[i] = IF i = 0 THEN start ELSE h[<<f[i - 1], i>>]
    BY <1>1, <1>4, RecursionIs
  <1>6. \A i \in 1..n : h[<<f[i - 1], i>>] = Kept(f[i - 1], all[i])
    BY <1>1, <1>2, <1>5
  <1>7. f = D(f)
    <2>1. \A i \in 0..n : i # 0 => i \in 1..n
      BY <1>1
    <2>2. \A i \in 0..n : f[i] = IF i = 0 THEN start ELSE Kept(f[i - 1], all[i])
      BY <1>5, <1>6, <2>1
    <2>3. QED
      BY <1>5, <2>2
  <1>8. g = D(g)
    BY <1>7
  <1> HIDE DEF g
  <1>9. /\ g = [i \in 0..n |-> g[i]] /\ g[0] = start
        /\ \A i \in 1..n : g[i] = Kept(g[i - 1], all[i])
    <2>1. \A i \in 0..n : g[i] = IF i = 0 THEN start ELSE Kept(g[i - 1], all[i])
      BY <1>8
    <2>2. 0 \in 0..n /\ \A i \in 1..n : i \in 0..n /\ i # 0
      BY <1>1
    <2>3. g = [i \in 0..n |-> g[i]]
      BY <1>8
    <2> HIDE DEF D
    <2>4. QED
      BY <2>1, <2>2, <2>3
  <1>10. \A i \in 1..n : g[i - 1] \in Lines => g[i] = h[<<g[i - 1], i>>]
    BY <1>2, <1>9
  <1>11. g \in Recursions(Lines, start, n, h)
    BY <1>1, <1>2, <1>9, <1>10, IsRecursion
  <1>12. QED
    BY <1>3, <1>11 DEF start, h, n

LEMMA NonEmptyStep ==
  /\ NonEmpty(<<>>) = NothingKept
  /\ \A all \in Seq(Seq(Nat)) : NonEmpty(all) \in Lines
  /\ \A all \in Seq(Seq(Nat)), one \in Seq(Nat) :
        NonEmpty(Append(all, one)) = Kept(NonEmpty(all), one)
  <1>0. NothingKept \in Lines
    BY KeptType
  <1>1. NonEmpty(<<>>) = NothingKept
    <2> DEFINE none == <<>>
               start == NothingKept
    <2>1. none \in Seq(Seq(Nat)) /\ Len(none) = 0 /\ Len(none) \in Nat
      OBVIOUS
    <2> HIDE DEF none
    <2> DEFINE h == KeptMoves(none)
               m == Len(none)
    <2>2. PICK f \in Recursions(Lines, start, m, h) :
             NonEmpty(none) = f[m]
      BY <2>1, NonEmptyIs
    <2>s. start \in Lines
      BY <1>0
    <2>m. m \in Nat
      BY <2>1
    <2>z. m = 0
      BY <2>1
    <2> HIDE DEF start, h, m
    <2>3. \A i \in 0..m : f[i] = IF i = 0 THEN start
                                         ELSE h[<<f[i - 1], i>>]
      BY <2>s, <2>m, <2>2, RecursionIs
    <2>4. 0 \in 0..m
      BY <2>m
    <2>5. QED
      BY <2>z, <2>2, <2>3, <2>4 DEF none, start
  <1>2. ASSUME NEW all \in Seq(Seq(Nat)) PROVE NonEmpty(all) \in Lines
    <2> DEFINE start == NothingKept
    <2>1. PICK f \in Recursions(Lines, start, Len(all), KeptMoves(all)) :
             NonEmpty(all) = f[Len(all)]
      BY NonEmptyIs
    <2>2. Len(all) \in Nat /\ Len(all) \in 0..Len(all)
      OBVIOUS
    <2>3. f \in [0..Len(all) -> Lines]
      BY <1>0, <2>1, <2>2, RecursionIs
    <2>4. QED
      BY <2>1, <2>2, <2>3
  <1>3. ASSUME NEW all \in Seq(Seq(Nat)), NEW one \in Seq(Nat)
        PROVE  NonEmpty(Append(all, one)) = Kept(NonEmpty(all), one)
    <2> DEFINE more == Append(all, one)
               n == Len(all)
               last == n + 1
               start == NothingKept
               h == KeptMoves(more)
               k == KeptMoves(all)
    <2>1. /\ more \in Seq(Seq(Nat)) /\ Len(more) = n + 1 /\ n \in Nat
          /\ \A i \in 1..n : more[i] = all[i]
          /\ more[n + 1] = one
      BY AppendProperties
    <2> HIDE DEF more
    <2>2. PICK f \in Recursions(Lines, start, last, h) : NonEmpty(more) = f[last]
      BY <2>1, NonEmptyIs
    <2>3. PICK g \in Recursions(Lines, start, n, k) : NonEmpty(all) = g[n]
      BY NonEmptyIs
    <2>4. \A x \in Lines, i \in 1..n : h[<<x, i>>] = k[<<x, i>>]
      <3>1. SUFFICES ASSUME NEW x \in Lines, NEW i \in 1..n
                     PROVE  h[<<x, i>>] = k[<<x, i>>]
        OBVIOUS
      <3>2. i \in 1..Len(more)
        BY <2>1
      <3>3. h[<<x, i>>] = Kept(x, more[i]) /\ k[<<x, i>>] = Kept(x, all[i])
        BY <3>2 DEF KeptMoves
      <3>4. QED
        BY <2>1, <3>3
    <2>5. /\ last \in Nat /\ n <= last /\ n \in 0..n /\ n \in 0..last
          /\ last \in 0..last /\ last # 0 /\ last - 1 = n /\ last \in 1..Len(more)
          /\ more[last] = one
      BY <2>1
    <2>6. \A x \in Lines : h[<<x, last>>] = Kept(x, one)
      BY <2>5 DEF KeptMoves
    <2>s. start \in Lines
      BY <1>0
    <2> HIDE DEF start, n, h, k, last
    <2>7. \A i \in 0..n : f[i] = g[i]
      BY <2>1, <2>2, <2>3, <2>4, <2>5, RecursionsAgree
    <2>8. f[last] = h[<<f[last - 1], last>>] /\ f[n] \in Lines
      <3>1. /\ f \in [0..last -> Lines]
            /\ \A i \in 0..last : f[i] = IF i = 0 THEN start ELSE h[<<f[i - 1], i>>]
        BY <2>s, <2>2, <2>5, RecursionIs
      <3>2. QED
        BY <2>5, <3>1
    <2>9. f[n] = g[n]
      BY <2>5, <2>7
    <2>10. QED
      BY <2>2, <2>3, <2>5, <2>6, <2>8, <2>9 DEF more
  <1>4. QED
    BY <1>1, <1>2, <1>3

\* Lines that wait for their end have no line feed.
Unbroken == {line \in Seq(Nat) : \A i \in 1..Len(line) : line[i] # LineFeed}

LEMMA AfterUnbroken ==
  ASSUME NEW line \in Unbroken, NEW c \in Nat
  PROVE  Last(After(line, c)) \in Unbroken
  <1> DEFINE none == <<>>
             kept == IF line # <<>> /\ Last(line) = Return THEN Front(line) ELSE line
             more == Append(line, c)
  <1>0. line \in Seq(Nat) /\ \A i \in 1..Len(line) : line[i] # LineFeed
    BY DEF Unbroken
  <1>1. none \in Unbroken
    BY DEF Unbroken
  <1>2. c # LineFeed => more \in Unbroken
    <2>1. SUFFICES ASSUME c # LineFeed PROVE more \in Unbroken
      OBVIOUS
    <2>2. /\ more \in Seq(Nat) /\ Len(more) = Len(line) + 1 /\ more[Len(line) + 1] = c
          /\ \A i \in 1..Len(line) : more[i] = line[i]
      BY <1>0, AppendProperties
    <2>3. \A i \in 1..(Len(line) + 1) : i = Len(line) + 1 \/ i \in 1..Len(line)
      BY <1>0
    <2> HIDE DEF more
    <2>4. QED
      BY <1>0, <2>1, <2>2, <2>3 DEF Unbroken
  <1>3. After(line, c) = IF c # LineFeed THEN <<more>> ELSE <<kept, none>>
    BY DEF After
  <1> HIDE DEF none, kept, more
  <1>4. Last(<<more>>) = more /\ Last(<<kept, none>>) = none
    BY DEF Last
  <1>5. QED
    BY <1>1, <1>2, <1>3, <1>4

\* What no character has broken is one line.
LEMMA SplitOne == \A line \in Unbroken : Split(line) = <<line>>
  <1> DEFINE T == {line \in Seq(Nat) : line \in Unbroken => Split(line) = <<line>>}
  <1>1. <<>> \in T
    <2>1. Split(<<>>) = << <<>> >>
      BY SplitStep DEF NoLine
    <2>2. QED
      BY <2>1
  <1>2. ASSUME NEW line \in Seq(Nat), NEW c \in Nat, line \in T
        PROVE  Append(line, c) \in T
    <2> DEFINE more == Append(line, c)
    <2>1. /\ more \in Seq(Nat) /\ Len(more) = Len(line) + 1 /\ more[Len(line) + 1] = c
          /\ \A i \in 1..Len(line) : more[i] = line[i]
      BY AppendProperties
    <2>2. Split(more) = NextCharacter(Split(line), c)
      BY SplitStep
    <2>a. After(line, c) = IF c # LineFeed THEN <<more>> ELSE After(line, c)
      BY DEF After
    <2> HIDE DEF more
    <2> SUFFICES (more \in Unbroken => Split(more) = <<more>>)
      BY <2>1 DEF more
    <2>3. SUFFICES ASSUME more \in Unbroken PROVE Split(more) = <<more>>
      OBVIOUS
    <2>4. \A i \in 1..Len(line) : i \in 1..Len(more)
      BY <2>1
    <2>5. line \in Unbroken
      BY <2>1, <2>3, <2>4 DEF Unbroken
    <2>6. c # LineFeed
      <3>1. Len(line) + 1 \in 1..Len(more)
        BY <2>1
      <3>2. QED
        BY <2>1, <2>3, <3>1 DEF Unbroken
    <2>7. Split(line) = <<line>>
      BY <1>2, <2>5
    <2>8. Split(more) = Front(<<line>>) \o <<more>>
      <3>1. Last(<<line>>) = line
        BY DEF Last
      <3>2. NextCharacter(<<line>>, c) = Front(<<line>>) \o After(Last(<<line>>), c)
        BY DEF NextCharacter, After
      <3>3. QED
        BY <2>2, <2>6, <2>7, <2>a, <3>1, <3>2
    <2>9. Front(<<line>>) = <<>>
      BY DEF Front
    <2>10. <<more>> \in Seq(Seq(Nat))
      BY <2>1
    <2> DEFINE one == <<more>>
    <2> HIDE DEF one
    <2>11. <<>> \o one = one
      BY <2>10, ConcatEmptySeq DEF one
    <2>12. QED
      BY <2>8, <2>9, <2>11 DEF one
  <1> HIDE DEF T
  <1>3. \A line \in Seq(Nat) : line \in T
    BY <1>1, <1>2, SequenceInduction
  <1>4. QED
    BY <1>3 DEF T, Unbroken

LEMMA SplitLast == \A all \in Seq(Nat) : Last(Split(all)) \in Unbroken
  <1> DEFINE T == {all \in Seq(Nat) : Last(Split(all)) \in Unbroken}
  <1>1. <<>> \in T
    <2>1. Split(<<>>) = << <<>> >>
      BY SplitStep DEF NoLine
    <2>2. Last(Split(<<>>)) = <<>>
      BY <2>1 DEF Last
    <2>3. <<>> \in Unbroken
      BY DEF Unbroken
    <2>4. QED
      BY <2>2, <2>3
  <1>2. ASSUME NEW all \in Seq(Nat), NEW c \in Nat, all \in T
        PROVE  Append(all, c) \in T
    <2>1. Append(all, c) \in Seq(Nat)
      BY AppendProperties
    <2>2. Split(Append(all, c)) = NextCharacter(Split(all), c) /\ Split(all) \in LineLists
      BY SplitStep
    <2>3. Last(NextCharacter(Split(all), c)) = Last(After(Last(Split(all)), c))
      BY <2>2, NextIs
    <2>4. Last(After(Last(Split(all)), c)) \in Unbroken
      BY <1>2, AfterUnbroken
    <2>5. QED
      BY <2>1, <2>2, <2>3, <2>4
  <1> HIDE DEF T
  <1>3. \A all \in Seq(Nat) : all \in T
    BY <1>1, <1>2, SequenceInduction
  <1>4. QED
    BY <1>3 DEF T

LEMMA LinesAssociate ==
  \A x, y, z \in Lines : (x \o y) \o z = x \o (y \o z)
  BY DEF Lines

\* Lines of two pieces: those of the first, and those of what its last line
\* becomes with the second.
LEMMA SplitComposes ==
  ASSUME NEW x \in Seq(Nat), NEW y \in Seq(Nat)
  PROVE  Split(x \o y) = Front(Split(x)) \o Split(Last(Split(x)) \o y)
  <1> DEFINE F == Front(Split(x))
             p == Last(Split(x))
             M(t) == Split(p \o t)
             T == {t \in Seq(Nat) : Split(x \o t) = F \o M(t)}
  <1>1. Split(x) \in LineLists /\ F \in Lines /\ p \in Seq(Nat) /\ p \in Unbroken
        /\ Split(x) = F \o <<p>>
    <2>1. Split(x) \in LineLists /\ p \in Unbroken
      BY SplitStep, SplitLast
    <2>2. QED
      BY <2>1, FrontLast DEF LineLists, Lines
  <1> HIDE DEF F, p
  <1>2. <<>> \in T
    <2> DEFINE none == <<>>
    <2>1. none \in Seq(Nat) /\ x \o none = x /\ p \o none = p
      BY <1>1, ConcatEmptySeq
    <2> HIDE DEF none
    <2>2. Split(p) = <<p>>
      BY <1>1, SplitOne
    <2>3. Split(x \o none) = F \o M(none)
      BY <1>1, <2>1, <2>2
    <2>4. none \in T
      BY <2>1, <2>3
    <2>5. QED
      BY <2>4 DEF none
  <1>3. ASSUME NEW t \in Seq(Nat), NEW c \in Nat, t \in T
        PROVE  Append(t, c) \in T
    <2> DEFINE more == Append(t, c)
               xt == x \o t
               pt == p \o t
    <2>1. /\ more \in Seq(Nat) /\ xt \in Seq(Nat) /\ pt \in Seq(Nat)
          /\ x \o more = Append(xt, c) /\ p \o more = Append(pt, c)
      <3>1. more \in Seq(Nat) /\ xt \in Seq(Nat) /\ pt \in Seq(Nat)
        BY <1>1, AppendProperties, ConcatProperties
      <3>2. x \o more = Append(xt, c)
        OBVIOUS
      <3>3. p \o more = Append(pt, c)
        BY <1>1
      <3>4. QED
        BY <3>1, <3>2, <3>3
    <2>2. Split(xt) = F \o Split(pt)
      BY <1>3
    <2> HIDE DEF more, xt, pt
    <2> DEFINE lines == Split(pt)
               whole == Split(xt)
               added == After(Last(lines), c)
    <2>3. lines \in LineLists /\ whole \in LineLists
      BY <2>1, SplitStep
    <2>4. Split(Append(xt, c)) = NextCharacter(whole, c)
          /\ Split(Append(pt, c)) = NextCharacter(lines, c)
      BY <2>1, SplitStep
    <2>5. whole = F \o lines
      BY <2>2
    <2> HIDE DEF lines, whole
    <2>6. lines \in Seq(Seq(Nat)) /\ lines # <<>> /\ F \in Seq(Seq(Nat))
      BY <1>1, <2>3 DEF LineLists, Lines
    <2>7. Front(whole) = F \o Front(lines) /\ Last(whole) = Last(lines)
          /\ Front(lines) \in Lines /\ Last(lines) \in Seq(Nat)
      BY <2>5, <2>6, FrontLastConcat, FrontLast DEF Lines
    <2>8. added \in Lines
      BY <2>7, AfterType DEF LineLists
    <2>9. NextCharacter(whole, c) = Front(whole) \o added
          /\ NextCharacter(lines, c) = Front(lines) \o added
      BY <2>3, <2>7, NextIs
    <2> HIDE DEF added
    <2> DEFINE fr == Front(lines)
    <2>10. (F \o fr) \o added = F \o (fr \o added)
      <3>1. fr \in Lines
        BY <2>7
      <3> HIDE DEF fr, T
      <3>2. QED
        BY <1>1, <2>8, <3>1, LinesAssociate
    <2>11. Split(x \o more) = F \o Split(p \o more)
      BY <2>1, <2>4, <2>7, <2>9, <2>10
    <2>12. more \in T
      BY <2>1, <2>11
    <2>13. QED
      BY <2>12 DEF more
  <1> HIDE DEF T
  <1>4. y \in T
    BY <1>2, <1>3, SequenceInduction
  <1>5. QED
    BY <1>4 DEF T, F, p

KeptConcat(a, b) == NonEmpty(a \o b) = NonEmpty(a) \o NonEmpty(b)
LEMMA NonEmptyConcat == \A a, b \in Lines : KeptConcat(a, b)
  <1>1. SUFFICES ASSUME NEW a \in Lines PROVE \A b \in Lines : KeptConcat(a, b)
    OBVIOUS
  <1> DEFINE T == {b \in Lines : KeptConcat(a, b)}
  <1>a. a \in Seq(Seq(Nat))
    BY DEF Lines
  <1>2. <<>> \in T
    <2> DEFINE none == <<>>
    <2>1. none \in Seq(Seq(Nat))
      OBVIOUS
    <2>2. NonEmpty(none) = none
      BY NonEmptyStep DEF NothingKept
    <2>3. NonEmpty(a) \in Seq(Seq(Nat))
      BY <1>a, NonEmptyStep DEF Lines
    <2>4. a \o none = a /\ NonEmpty(a) \o none = NonEmpty(a)
      BY <1>a, <2>3, ConcatEmptySeq
    <2> HIDE DEF none
    <2>5. none \in T
      BY <2>1, <2>2, <2>4 DEF KeptConcat, Lines
    <2>6. QED
      BY <2>5 DEF none
  <1>3. ASSUME NEW b \in Lines, NEW e \in Seq(Nat), b \in T
        PROVE  Append(b, e) \in T
    <2> DEFINE more == Append(b, e)
               ab == a \o b
               na == NonEmpty(a)
               nb == NonEmpty(b)
    <2>1. more \in Seq(Seq(Nat)) /\ ab \in Seq(Seq(Nat)) /\ b \in Seq(Seq(Nat))
      BY <1>a, AppendProperties, ConcatProperties DEF Lines
    <2>2. a \o more = Append(ab, e)
      BY <1>a, <2>1
    <2>3. NonEmpty(more) = Kept(nb, e)
      BY <2>1, NonEmptyStep
    <2> HIDE DEF more, ab
    <2>4. NonEmpty(Append(ab, e)) = Kept(NonEmpty(ab), e)
      BY <2>1, NonEmptyStep
    <2>5. NonEmpty(ab) = na \o nb
      BY <1>3 DEF ab, KeptConcat
    <2>6. na \in Seq(Seq(Nat)) /\ nb \in Seq(Seq(Nat))
      BY <1>a, <2>1, NonEmptyStep DEF Lines
    <2> HIDE DEF na, nb
    <2>7. Kept(na \o nb, e) = na \o Kept(nb, e)
      <3>1. Append(na \o nb, e) = na \o Append(nb, e)
        BY <2>6
      <3>2. QED
        BY <3>1 DEF Kept
    <2>8. KeptConcat(a, more)
      BY <2>2, <2>3, <2>4, <2>5, <2>7 DEF KeptConcat, na
    <2>9. more \in T
      BY <2>1, <2>8 DEF Lines
    <2>10. QED
      BY <2>9 DEF more
  <1> HIDE DEF T
  <1>4. \A b \in Seq(Seq(Nat)) : b \in T
    BY <1>2, <1>3, SequenceInduction DEF Lines
  <1>5. QED
    BY <1>4 DEF T, Lines

ByteLists == Seq(Bytes)
Texts == Seq(Nat)
Decoders == [buffered : ByteLists, pending : Texts, lead : BOOLEAN, lines : Lines,
             ended : BOOLEAN]

\* The decoder has taken these bytes, whatever they were cut into.
Holds(d, bytes) ==
    LET u == Utf8Written(FALSE, bytes) IN
    /\ d.lead = u.lead
    /\ d.pending = Last(Split(u.text))
    /\ d.lines = NonEmpty(Front(Split(u.text)))

\* What a text brings to the decoder.
LEMMA EmitTextIs ==
  ASSUME NEW d \in Decoders, NEW text \in Seq(Nat)
  PROVE  LET lines == Split(d.pending \o text) IN
         /\ lines \in LineLists
         /\ EmitText(d, text) \in Decoders
         /\ EmitText(d, text).buffered = d.buffered
         /\ EmitText(d, text).lead = d.lead
         /\ EmitText(d, text).ended = d.ended
         /\ EmitText(d, text).pending = Last(lines)
         /\ EmitText(d, text).lines = d.lines \o NonEmpty(Front(lines))
  <1> DEFINE lines == Split(d.pending \o text)
             last == Last(lines)
             more == d.lines \o NonEmpty(Front(lines))
             e == EmitText(d, text)
  <1>1. d.pending \in Seq(Nat) /\ d.lines \in Lines
    BY DEF Decoders, Texts
  <1>2. lines \in LineLists
    BY <1>1, SplitStep, ConcatProperties
  <1>3. e = [d EXCEPT !.pending = last, !.lines = more]
    BY DEF EmitText
  <1> HIDE DEF lines
  <1>4. Front(lines) \in Seq(Seq(Nat)) /\ last \in Texts
    BY <1>2, FrontLast DEF LineLists, Lines, Texts
  <1>5. NonEmpty(Front(lines)) \in Lines
    BY <1>4, NonEmptyStep
  <1>6. more \in Lines
    BY <1>1, <1>5, ConcatProperties DEF Lines
  <1> HIDE DEF last, more, e
  <1>7. e \in Decoders /\ e.buffered = d.buffered /\ e.lead = d.lead
        /\ e.ended = d.ended /\ e.pending = last /\ e.lines = more
    BY <1>3, <1>4, <1>6 DEF Decoders
  <1>8. QED
    BY <1>2, <1>7 DEF lines, last, more, e

LEMMA WriteMore ==
  ASSUME NEW d \in Decoders, NEW bytes \in Seq(Bytes)
  PROVE  /\ Write(d, bytes) \in Decoders
         /\ Write(d, bytes).buffered = d.buffered
         /\ Write(d, bytes).ended = d.ended
         /\ \A W \in Seq(Bytes) : Holds(d, W) => Holds(Write(d, bytes), W \o bytes)
  <1> DEFINE s == Utf8Written(d.lead, bytes)
             lead == s.lead
             text == s.text
             with == [d EXCEPT !.lead = lead]
             w == Write(d, bytes)
  <1>1. d.lead \in BOOLEAN /\ d.pending \in Seq(Nat) /\ d.lines \in Lines
    BY DEF Decoders, Texts
  <1>2. s \in Decodings
    BY <1>1, Utf8WrittenStep
  <1>3. lead \in BOOLEAN /\ text \in Seq(Nat)
    BY <1>2, DecodingIs
  <1>4. w = EmitText(with, text)
    BY DEF Write
  <1> HIDE DEF s, lead, text, w
  <1>5. with \in Decoders /\ with.buffered = d.buffered /\ with.ended = d.ended
        /\ with.lead = lead /\ with.pending = d.pending /\ with.lines = d.lines
    BY <1>3 DEF Decoders
  <1> HIDE DEF with
  <1> DEFINE lines == Split(d.pending \o text)
  <1>6. /\ w \in Decoders /\ w.buffered = d.buffered /\ w.ended = d.ended
        /\ w.lead = lead /\ w.pending = Last(lines)
        /\ w.lines = d.lines \o NonEmpty(Front(lines)) /\ lines \in LineLists
    <2> DEFINE given == Split(with.pending \o text)
               t == EmitText(with, text)
    <2>1. given = lines
      BY <1>5
    <2>2. /\ t \in Decoders /\ t.buffered = with.buffered /\ t.ended = with.ended
          /\ t.lead = with.lead /\ t.pending = Last(given)
          /\ t.lines = with.lines \o NonEmpty(Front(given)) /\ given \in LineLists
      BY <1>3, <1>5, EmitTextIs
    <2> HIDE DEF given, t, lines
    <2>3. QED
      BY <1>4, <1>5, <2>1, <2>2 DEF t
  <1> HIDE DEF lines
  <1>7. ASSUME NEW W \in Seq(Bytes), Holds(d, W) PROVE Holds(w, W \o bytes)
    <2> DEFINE u == Utf8Written(FALSE, W)
               was == u.text
               v == Utf8Written(FALSE, W \o bytes)
    <2>1. d.lead = u.lead /\ d.pending = Last(Split(was))
          /\ d.lines = NonEmpty(Front(Split(was)))
      BY <1>7 DEF Holds
    <2>2. v.lead = Utf8Written(u.lead, bytes).lead
          /\ v.text = u.text \o Utf8Written(u.lead, bytes).text
      BY Utf8Composes
    <2>3. v.lead = lead /\ v.text = was \o text
      BY <2>1, <2>2 DEF lead, text, s
    <2>4. u \in Decodings
      BY Utf8WrittenStep
    <2>5. was \in Seq(Nat)
      BY <2>4, DecodingIs
    <2> DEFINE before == Split(was)
               F == Front(before)
    <2>6. before \in LineLists
      BY <2>5, SplitStep
    <2> HIDE DEF was
    <2>7. Split(was \o text) = F \o lines
      BY <1>3, <2>1, <2>5, SplitComposes DEF lines
    <2> HIDE DEF before
    <2>8. F \in Seq(Seq(Nat)) /\ lines \in Seq(Seq(Nat)) /\ lines # <<>>
      BY <1>6, <2>6, FrontLast DEF LineLists, Lines
    <2>9. d.lines = NonEmpty(F)
      BY <2>1 DEF before
    <2> HIDE DEF F
    <2>10. /\ Last(F \o lines) = Last(lines) /\ Front(F \o lines) = F \o Front(lines)
           /\ Front(lines) \in Seq(Seq(Nat))
      BY <2>8, FrontLastConcat, FrontLast
    <2>11. NonEmpty(F \o Front(lines)) = NonEmpty(F) \o NonEmpty(Front(lines))
      BY <2>8, <2>10, NonEmptyConcat DEF KeptConcat, Lines
    <2> HIDE DEF v
    <2>12. /\ w.lead = v.lead /\ w.pending = Last(Split(v.text))
           /\ w.lines = NonEmpty(Front(Split(v.text)))
      BY <1>6, <2>3, <2>7, <2>9, <2>10, <2>11
    <2>13. QED
      BY <2>12 DEF Holds, v
  <1>8. QED
    BY <1>6, <1>7 DEF w

\* The end: what waits is text as well.
LEMMA EndedIs ==
  ASSUME NEW d \in Decoders
  PROVE  /\ Ended(d) \in Decoders /\ Ended(d).buffered = <<>> /\ Ended(d).ended
         /\ \A W \in Seq(Bytes) : Holds(d, W) =>
               Ended(d).lines = NonEmpty(ToLogLines(TextOf(W \o d.buffered)))
  <1> DEFINE b == d.buffered
             w == Write(d, b)
             rest == IF w.lead THEN <<Unknown>> ELSE <<>>
             t == EmitText(w, rest)
             z == IF t.pending = <<>> THEN <<>> ELSE <<t.pending>>
             all == t.lines \o z
             e == Ended(d)
             lines == Split(w.pending \o rest)
  <1>1. b \in Seq(Bytes)
    BY DEF Decoders, ByteLists
  <1>2. w \in Decoders
    BY <1>1, WriteMore
  <1>3. e = [NewDecoder EXCEPT !.ended = TRUE, !.lines = all]
    BY DEF Ended
  <1>r. rest \in Seq(Nat)
    <2>1. <<Unknown>> \in Seq(Nat) /\ <<>> \in Seq(Nat)
      BY DEF Unknown
    <2>2. QED
      BY <2>1
  <1>w. w.pending \in Seq(Nat) /\ w.lines \in Lines /\ w.lead \in BOOLEAN
    BY <1>2 DEF Decoders, Texts
  <1> HIDE DEF w
  <1>4. /\ lines \in LineLists /\ t \in Decoders /\ t.pending = Last(lines)
        /\ t.lines = w.lines \o NonEmpty(Front(lines))
    <2> HIDE DEF rest, lines, t
    <2>1. QED
      BY <1>2, <1>r, EmitTextIs DEF lines, t
  <1> HIDE DEF rest, t, lines
  <1>5. t.lines \in Lines /\ t.pending \in Seq(Nat)
    BY <1>4 DEF Decoders, Texts
  <1>6. all = Kept(t.lines, t.pending)
    <2>1. t.pending = <<>> => all = t.lines
      <3> DEFINE l == t.lines
      <3>1. l \in Seq(Seq(Nat))
        BY <1>5 DEF Lines
      <3> HIDE DEF l
      <3>2. l \o <<>> = l
        BY <3>1, ConcatEmptySeq
      <3>3. QED
        BY <3>2 DEF l
    <2>2. t.pending # <<>> => all = Append(t.lines, t.pending)
      <3> DEFINE l == t.lines
                 p == t.pending
      <3>1. l \in Seq(Seq(Nat)) /\ p \in Seq(Nat)
        BY <1>5 DEF Lines
      <3> HIDE DEF l, p
      <3>2. l \o <<p>> = Append(l, p)
        BY <3>1
      <3>3. QED
        BY <3>2 DEF l, p
    <2>3. QED
      BY <2>1, <2>2 DEF Kept
  <1>7. all \in Lines
    BY <1>5, <1>6, KeptType
  <1>8. e \in Decoders /\ e.buffered = <<>> /\ e.ended /\ e.lines = all
    <2> DEFINE none == <<>>
               nd == NewDecoder
    <2>1. none \in ByteLists /\ none \in Texts /\ none \in Lines
      BY DEF ByteLists, Texts, Lines
    <2>2. nd = [buffered |-> none, pending |-> none, lead |-> FALSE,
                lines |-> none, ended |-> FALSE]
      BY DEF NewDecoder
    <2> HIDE DEF none, nd, e, all
    <2>3. e = [buffered |-> none, pending |-> none, lead |-> FALSE,
               lines |-> all, ended |-> TRUE]
      BY <1>3, <2>2 DEF nd
    <2>4. e \in Decoders /\ e.buffered = none /\ e.ended /\ e.lines = all
      BY <1>7, <2>1, <2>3 DEF Decoders
    <2>5. QED
      BY <2>4 DEF none
  <1>9. ASSUME NEW W \in Seq(Bytes), Holds(d, W)
        PROVE  all = NonEmpty(ToLogLines(TextOf(W \o b)))
    <2> DEFINE V == W \o b
               u == Utf8Written(FALSE, V)
               was == u.text
               before == Split(was)
               F == Front(before)
               text == TextOf(V)
    <2>1. Holds(w, V)
      BY <1>1, <1>9, WriteMore DEF w
    <2>2. V \in Seq(Bytes)
      BY <1>1, ConcatProperties
    <2> HIDE DEF V
    <2>3. w.lead = u.lead /\ w.pending = Last(before) /\ w.lines = NonEmpty(F)
      BY <2>1 DEF Holds
    <2>4. u \in Decodings
      BY <2>2, Utf8WrittenStep
    <2>5. was \in Seq(Nat) /\ u.lead \in BOOLEAN
      BY <2>4, DecodingIs
    <2>6. text = was \o rest
      <3>1. text = was \o (IF u.lead THEN <<Unknown>> ELSE <<>>)
        BY DEF TextOf, Utf8End
      <3>2. QED
        BY <2>3, <3>1 DEF rest
    <2>7. before \in LineLists
      BY <2>5, SplitStep
    <2> HIDE DEF was, text
    <2>8. Split(text) = F \o lines
      BY <1>r, <2>3, <2>5, <2>6, SplitComposes DEF lines
    <2> HIDE DEF before
    <2>9. F \in Seq(Seq(Nat)) /\ lines \in Seq(Seq(Nat)) /\ lines # <<>>
      BY <1>4, <2>7, FrontLast DEF LineLists, Lines
    <2> HIDE DEF F
    <2> DEFINE fl == Front(lines)
               last == Last(lines)
               whole == F \o lines
               fw == Front(whole)
    <2>10. /\ Last(whole) = last /\ fw = F \o fl /\ whole # <<>>
           /\ fl \in Seq(Seq(Nat)) /\ last \in Seq(Nat) /\ whole \in Seq(Seq(Nat))
      BY <2>9, FrontLastConcat, FrontLast
    <2> HIDE DEF whole
    <2>11. fw \in Seq(Seq(Nat)) /\ whole = fw \o <<last>>
      BY <2>10, FrontLast
    <2> HIDE DEF fl, last, fw
    <2>12. whole = Append(fw, last)
      BY <2>10, <2>11
    <2>13. NonEmpty(F \o fl) = NonEmpty(F) \o NonEmpty(fl)
      BY <2>9, <2>10, NonEmptyConcat DEF KeptConcat, Lines
    <2>14. t.lines = NonEmpty(fw) /\ t.pending = last
      BY <1>4, <2>3, <2>10, <2>13 DEF fl, last
    <2>15. NonEmpty(whole) = Kept(NonEmpty(fw), last)
      BY <2>10, <2>11, <2>12, NonEmptyStep
    <2>16. NonEmpty(whole) = NonEmpty(IF last = <<>> THEN fw ELSE whole)
      BY <2>15 DEF Kept
    <2>17. ToLogLines(text) = IF last = <<>> THEN fw ELSE whole
      BY <2>8, <2>10 DEF ToLogLines, whole, fw
    <2>18. all = NonEmpty(whole)
      BY <1>6, <2>14, <2>15
    <2>19. QED
      BY <2>16, <2>17, <2>18 DEF text, V
  <1>10. QED
    BY <1>8, <1>9 DEF e, b

Unwraps == [rest : ByteLists, payload : ByteLists]

LEMMA BytesAssociate ==
  \A x, y, z \in Seq(Bytes) : (x \o y) \o z = x \o (y \o z)
  OBVIOUS

\* What a whole frame is cut into.
LEMMA FrameIs ==
  ASSUME NEW bytes \in Seq(Bytes), HasFrame(bytes)
  PROVE  /\ PayloadEnd(bytes) \in Nat /\ PayloadEnd(bytes) >= 8
         /\ PayloadEnd(bytes) <= Len(bytes)
         /\ Rest(bytes) \in Seq(Bytes) /\ Payload(bytes) \in Seq(Bytes)
         /\ Len(Rest(bytes)) = Len(bytes) - PayloadEnd(bytes)
         /\ Len(bytes) >= 8 /\ HasHeader(bytes) /\ bytes # <<>>
  <1> DEFINE n == Len(bytes)
             e == PayloadEnd(bytes)
  <1>1. n \in Nat /\ n >= 8 /\ n >= e /\ HasHeader(bytes)
    BY DEF HasFrame
  <1>2. /\ bytes[5] \in Bytes /\ bytes[6] \in Bytes /\ bytes[7] \in Bytes
        /\ bytes[8] \in Bytes
    BY <1>1
  <1>3. e \in Nat /\ e >= 8
    <2> DEFINE a == bytes[5]
               b == bytes[6]
               c == bytes[7]
               d == bytes[8]
    <2>0. a \in Bytes /\ b \in Bytes /\ c \in Bytes /\ d \in Bytes
      BY <1>2
    <2>2. e = 8 + 16777216 * a + 65536 * b + 256 * c + d
      BY DEF PayloadEnd
    <2> HIDE DEF a, b, c, d, e
    <2>1. a \in Nat /\ b \in Nat /\ c \in Nat /\ d \in Nat
      <3>1. \A x \in Bytes : x \in Nat
        BY DEF Bytes
      <3>2. QED
        BY <2>0, <3>1
    <2>3. QED
      BY <2>1, <2>2
  <1> HIDE DEF e
  <1>4. Rest(bytes) = SubSeq(bytes, e + 1, n) /\ Payload(bytes) = SubSeq(bytes, 9, e)
    BY DEF Rest, Payload, e
  <1>5. SubSeq(bytes, e + 1, n) \in Seq(Bytes)
        /\ Len(SubSeq(bytes, e + 1, n)) = n - e
    BY <1>1, <1>3
  <1>6. SubSeq(bytes, 9, e) \in Seq(Bytes)
    BY <1>1, <1>3
  <1>7. bytes # <<>>
    BY <1>1
  <1>8. QED
    BY <1>1, <1>3, <1>4, <1>5, <1>6, <1>7 DEF e

\* The same frame with more bytes behind it.
LEMMA FrameGrows ==
  ASSUME NEW bytes \in Seq(Bytes), NEW more \in Seq(Bytes), HasFrame(bytes)
  PROVE  /\ Payload(bytes \o more) = Payload(bytes)
         /\ Rest(bytes \o more) = Rest(bytes) \o more
  <1> DEFINE n == Len(bytes)
             m == Len(more)
             e == PayloadEnd(bytes)
             all == bytes \o more
  <1>1. n \in Nat /\ m \in Nat /\ e \in Nat /\ e >= 8 /\ e <= n /\ n >= 8
    BY FrameIs
  <1>2. /\ all \in Seq(Bytes) /\ Len(all) = n + m
        /\ \A i \in 1..n : all[i] = bytes[i]
        /\ \A i \in 1..m : all[n + i] = more[i]
    BY ConcatIs
  <1>3. PayloadEnd(all) = e
    <2>1. all[5] = bytes[5] /\ all[6] = bytes[6] /\ all[7] = bytes[7] /\ all[8] = bytes[8]
      BY <1>1, <1>2
    <2>2. QED
      BY <2>1 DEF PayloadEnd
  <1> HIDE DEF e, all, n, m
  <1>4. SubSeq(all, 9, e) = SubSeq(bytes, 9, e)
    <2> DEFINE x == SubSeq(all, 9, e)
               y == SubSeq(bytes, 9, e)
    <2>1. /\ x \in Seq(Bytes) /\ Len(x) = e - 8
          /\ \A i \in 1..(e - 8) : x[i] = all[9 + i - 1]
      BY <1>1, <1>2
    <2>2. /\ y \in Seq(Bytes) /\ Len(y) = e - 8
          /\ \A i \in 1..(e - 8) : y[i] = bytes[9 + i - 1]
      BY <1>1 DEF n
    <2> HIDE DEF x, y
    <2>3. \A i \in 1..(e - 8) : 9 + i - 1 \in 1..n
      BY <1>1
    <2>4. \A i \in 1..Len(x) : x[i] = y[i]
      BY <1>2, <2>1, <2>2, <2>3
    <2>5. x = y
      BY <2>1, <2>2, <2>4, SeqEqual
    <2>6. QED
      BY <2>5 DEF x, y
  <1>5. SubSeq(all, e + 1, n + m) = SubSeq(bytes, e + 1, n) \o more
    <2> DEFINE x == SubSeq(all, e + 1, n + m)
               r == SubSeq(bytes, e + 1, n)
               y == r \o more
    <2>1. /\ x \in Seq(Bytes) /\ Len(x) = n + m - e
          /\ \A i \in 1..(n + m - e) : x[i] = all[e + 1 + i - 1]
      BY <1>1, <1>2
    <2>2. /\ r \in Seq(Bytes) /\ Len(r) = n - e
          /\ \A i \in 1..(n - e) : r[i] = bytes[e + 1 + i - 1]
      BY <1>1 DEF n
    <2>2a. r \in Seq(Bytes)
      BY <2>2
    <2> HIDE DEF x, r
    <2>3. /\ y \in Seq(Bytes) /\ Len(y) = Len(r) + Len(more)
          /\ \A i \in 1..Len(r) : y[i] = r[i]
          /\ \A i \in 1..Len(more) : y[Len(r) + i] = more[i]
      BY <2>2a, ConcatIs
    <2> HIDE DEF y
    <2>4. ASSUME NEW i \in 1..Len(x) PROVE x[i] = y[i]
      <3>1. i \in 1..(n + m - e) /\ i \in Int
        BY <2>1
      <3>2. CASE i <= n - e
        <4>1. i \in 1..(n - e) /\ e + 1 + i - 1 \in 1..n
          BY <1>1, <3>1, <3>2
        <4>2. y[i] = bytes[e + 1 + i - 1]
          BY <2>2, <2>3, <4>1
        <4>3. x[i] = bytes[e + 1 + i - 1]
          BY <1>2, <2>1, <3>1, <4>1
        <4>4. QED
          BY <4>2, <4>3
      <3>3. CASE i > n - e
        <4> DEFINE j == i - (n - e)
        <4>1. j \in 1..m /\ (n - e) + j = i /\ e + 1 + i - 1 = n + j
          BY <1>1, <3>1, <3>3
        <4> HIDE DEF j
        <4>2. y[i] = more[j]
          BY <2>2, <2>3, <4>1 DEF m
        <4>3. x[i] = more[j]
          BY <1>2, <2>1, <3>1, <4>1
        <4>4. QED
          BY <4>2, <4>3
      <3>4. QED
        BY <1>1, <3>1, <3>2, <3>3
    <2>5. x = y
      <3>1. Len(y) = n + m - e
        BY <1>1, <2>2, <2>3 DEF m
      <3>2. QED
        BY <2>1, <2>3, <2>4, <3>1, SeqEqual
    <2>6. QED
      BY <2>5 DEF x, y, r
  <1>6. QED
    BY <1>2, <1>3, <1>4, <1>5 DEF Payload, Rest, e, all, n, m

\* The header at the beginning of some bytes.
LEMMA HeaderGrows ==
  ASSUME NEW bytes \in Seq(Bytes), NEW more \in Seq(Bytes), Len(bytes) >= 4
  PROVE  HasHeader(bytes \o more) <=> HasHeader(bytes)
  <1> DEFINE n == Len(bytes)
             all == bytes \o more
  <1>1. n \in Nat /\ n >= 4 /\ Len(more) \in Nat
    OBVIOUS
  <1>2. /\ all \in Seq(Bytes) /\ Len(all) = n + Len(more)
        /\ \A i \in 1..n : all[i] = bytes[i]
    BY ConcatIs
  <1> HIDE DEF all, n
  <1>3. SubSeq(all, 2, 4) = SubSeq(bytes, 2, 4)
    <2> DEFINE x == SubSeq(all, 2, 4)
               y == SubSeq(bytes, 2, 4)
    <2>1. /\ x \in Seq(Bytes) /\ Len(x) = 3 /\ \A i \in 1..3 : x[i] = all[2 + i - 1]
      BY <1>1, <1>2
    <2>2. /\ y \in Seq(Bytes) /\ Len(y) = 3 /\ \A i \in 1..3 : y[i] = bytes[2 + i - 1]
      BY <1>1 DEF n
    <2> HIDE DEF x, y
    <2>3. \A i \in 1..3 : 2 + i - 1 \in 1..n
      BY <1>1
    <2>4. \A i \in 1..Len(x) : x[i] = y[i]
      BY <1>2, <2>1, <2>2, <2>3
    <2>5. x = y
      BY <2>1, <2>2, <2>4, SeqEqual
    <2>6. QED
      BY <2>5 DEF x, y
  <1>4. all[1] = bytes[1] /\ Len(all) >= 4
    BY <1>1, <1>2
  <1>5. QED
    BY <1>1, <1>3, <1>4 DEF HasHeader, all, n

\* A decoder that has taken some bytes of its buffer.
Taken(d, bytes, rest) == [Write(d, bytes) EXCEPT !.buffered = rest]
LEMMA TakenIs ==
  ASSUME NEW d \in Decoders, NEW bytes \in Seq(Bytes), NEW rest \in Seq(Bytes)
  PROVE  /\ Taken(d, bytes, rest) \in Decoders
         /\ Taken(d, bytes, rest).buffered = rest
         /\ Taken(d, bytes, rest).ended = d.ended
         /\ \A W \in Seq(Bytes) : Holds(d, W) => Holds(Taken(d, bytes, rest), W \o bytes)
  <1> DEFINE w == Write(d, bytes)
             t == Taken(d, bytes, rest)
  <1>1. /\ w \in Decoders /\ w.ended = d.ended
        /\ \A W \in Seq(Bytes) : Holds(d, W) => Holds(w, W \o bytes)
    BY WriteMore
  <1>2. t = [w EXCEPT !.buffered = rest]
    BY DEF Taken
  <1> HIDE DEF w, t
  <1>3. rest \in ByteLists
    BY DEF ByteLists
  <1>4. /\ t \in Decoders /\ t.buffered = rest /\ t.ended = w.ended
        /\ t.lead = w.lead /\ t.pending = w.pending /\ t.lines = w.lines
    BY <1>1, <1>2, <1>3 DEF Decoders
  <1>5. \A V : Holds(w, V) => Holds(t, V)
    BY <1>4 DEF Holds
  <1>6. QED
    BY <1>1, <1>4, <1>5 DEF t

\* The turns of the loop of push.
LEMMA DrainIs ==
  ASSUME NEW d \in Decoders
  PROVE  /\ d.buffered \in Seq(Bytes)
         /\ \/ (d.buffered = <<>> \/ (HasHeader(d.buffered) /\ ~HasFrame(d.buffered)))
               /\ Drain(d) = d
            \/ d.buffered # <<>> /\ ~HasHeader(d.buffered)
               /\ Drain(d) = Taken(d, d.buffered, <<>>)
            \/ d.buffered # <<>> /\ HasFrame(d.buffered)
               /\ Drain(d) = Taken(d, Payload(d.buffered), Rest(d.buffered))
  <1>1. d.buffered \in Seq(Bytes)
    BY DEF Decoders, ByteLists
  <1>2. HasFrame(d.buffered) => HasHeader(d.buffered) /\ d.buffered # <<>>
    BY <1>1, FrameIs
  <1>3. Drain(d) = IF d.buffered = <<>> THEN d
                   ELSE IF ~HasHeader(d.buffered) THEN Taken(d, d.buffered, <<>>)
                   ELSE IF ~HasFrame(d.buffered) THEN d
                   ELSE Taken(d, Payload(d.buffered), Rest(d.buffered))
    BY DEF Drain, Taken
  <1>4. QED
    BY <1>1, <1>2, <1>3

LEMMA DrainShortens ==
  ASSUME NEW d \in Decoders
  PROVE  /\ Drain(d) \in Decoders /\ Drain(d).ended = d.ended
         /\ Len(d.buffered) \in Nat /\ Len(Drain(d).buffered) \in Nat
         /\ Drain(d) = d \/ Len(Drain(d).buffered) < Len(d.buffered)
         /\ d.buffered = <<>> => Drain(d) = d
  <1> DEFINE b == d.buffered
             e == Drain(d)
             none == <<>>
  <1>1. b \in Seq(Bytes) /\ none \in Seq(Bytes) /\ Len(none) = 0 /\ Len(b) \in Nat
    BY DrainIs
  <1>2. b # none => Len(b) > 0
    BY <1>1, EmptySeq
  <1>3. \/ (b = none \/ ~HasFrame(b)) /\ e = d
        \/ b # none /\ e = Taken(d, b, none)
        \/ b # none /\ HasFrame(b) /\ e = Taken(d, Payload(b), Rest(b))
    BY DrainIs
  <1>4. b = none => e = d
    BY DrainIs, FrameIs
  <1> HIDE DEF e, none
  <1>5. CASE e = d
    BY <1>1, <1>5 DEF e, none
  <1>6. CASE b # none /\ e = Taken(d, b, none)
    <2>1. e \in Decoders /\ e.ended = d.ended /\ e.buffered = none
      BY <1>1, <1>6, TakenIs
    <2>2. QED
      BY <1>1, <1>2, <1>4, <1>6, <2>1 DEF e, none
  <1>7. CASE b # none /\ HasFrame(b) /\ e = Taken(d, Payload(b), Rest(b))
    <2>1. /\ Payload(b) \in Seq(Bytes) /\ Rest(b) \in Seq(Bytes)
          /\ Len(Rest(b)) < Len(b) /\ Len(Rest(b)) \in Nat
      BY <1>1, <1>7, FrameIs
    <2>2. e \in Decoders /\ e.ended = d.ended /\ e.buffered = Rest(b)
      BY <1>7, <2>1, TakenIs
    <2>3. QED
      BY <1>1, <1>4, <1>7, <2>1, <2>2 DEF e, none
  <1>8. QED
    BY <1>3, <1>5, <1>6, <1>7

\* What the turns keep, they keep together, and they end.
LEMMA DrainedKeeps ==
  ASSUME NEW d \in Decoders, NEW T, d \in T,
         \A x \in Decoders : x \in T => Drain(x) \in T
  PROVE  /\ Drained(d) \in Decoders /\ Drained(d) \in T
         /\ Drain(Drained(d)) = Drained(d)
  <1> DEFINE n == Len(d.buffered)
             h == [p \in Decoders \X (1..n) |-> Drain(p[1])]
             D(f) == [i \in 0..n |-> IF i = 0 THEN d ELSE Drain(f[i - 1])]
             g == CHOOSE f : f = D(f)
  <1>1. n \in Nat
    BY DrainShortens
  <1>2. \A x \in Decoders, i \in 1..n : h[<<x, i>>] = Drain(x)
    OBVIOUS
  <1>2a. h \in Moves(Decoders, n)
    BY DrainShortens DEF Moves
  <1>3. Drained(d) = g[n]
    BY DEF Drained
  <1> HIDE DEF h, n
  <1>4. PICK f \in Recursions(Decoders, d, n, h) : TRUE
    BY <1>1, <1>2a, Recursion
  <1>5. /\ f \in [0..n -> Decoders]
        /\ \A i \in 0..n : f[i] = IF i = 0 THEN d ELSE h[<<f[i - 1], i>>]
    BY <1>1, <1>4, RecursionIs
  <1>6. \A i \in 1..n : h[<<f[i - 1], i>>] = Drain(f[i - 1])
    BY <1>1, <1>2, <1>5
  <1>7. f = D(f)
    <2>1. \A i \in 0..n : i # 0 => i \in 1..n
      BY <1>1
    <2>2. \A i \in 0..n : f[i] = IF i = 0 THEN d ELSE Drain(f[i - 1])
      BY <1>5, <1>6, <2>1
    <2>3. QED
      BY <1>5, <2>2
  <1>8. g = D(g)
    BY <1>7
  <1> HIDE DEF g
  <1>9. g[0] = d /\ \A i \in 1..n : g[i] = Drain(g[i - 1])
    <2>1. \A i \in 0..n : g[i] = IF i = 0 THEN d ELSE Drain(g[i - 1])
      BY <1>8
    <2>2. 0 \in 0..n /\ \A i \in 1..n : i \in 0..n /\ i # 0
      BY <1>1
    <2> HIDE DEF D
    <2>3. QED
      BY <2>1, <2>2
  <1> HIDE DEF D
  <1> DEFINE Fits(i, x) == x \in Decoders /\ x \in T
                           /\ (Drain(x) = x \/ Len(x.buffered) <= n - i)
             P == {i \in Nat : i <= n => Fits(i, g[i])}
  <1>10. 0 \in P
    <2>1. Fits(0, d)
      BY <1>1 DEF n
    <2>2. QED
      BY <1>9, <2>1
  <1>11. ASSUME NEW i \in Nat, i \in P PROVE i + 1 \in P
    <2>1. SUFFICES ASSUME i + 1 <= n PROVE Fits(i + 1, g[i + 1])
      OBVIOUS
    <2>2. i + 1 \in 1..n /\ (i + 1) - 1 = i /\ i <= n
      BY <1>1, <2>1
    <2> DEFINE x == g[i]
               y == g[i + 1]
    <2>3. y = Drain(x)
      BY <1>9, <2>2
    <2>4. Fits(i, x)
      BY <1>11, <2>2
    <2> HIDE DEF x, y
    <2>5. /\ y \in Decoders /\ Len(x.buffered) \in Nat /\ Len(y.buffered) \in Nat
          /\ y = x \/ Len(y.buffered) < Len(x.buffered)
      BY <2>3, <2>4, DrainShortens
    <2>6. y \in T
      BY <2>3, <2>4
    <2>7. CASE Drain(x) = x
      BY <2>3, <2>4, <2>7 DEF y
    <2>8. CASE y # x /\ Len(x.buffered) <= n - i
      <3>1. Len(y.buffered) <= n - (i + 1)
        BY <1>1, <2>5, <2>8
      <3>2. QED
        BY <2>5, <2>6, <3>1 DEF y
    <2>9. QED
      BY <2>3, <2>4, <2>7, <2>8
  <1>12. Nat \subseteq P
    <2> HIDE DEF P
    <2>1. QED
      BY <1>10, <1>11, NumberInduction
  <1>13. Fits(n, g[n])
    <2>1. n \in P
      BY <1>1, <1>12
    <2>2. QED
      BY <1>1, <2>1
  <1> DEFINE z == g[n]
  <1>14. Drain(z) = z
    <2>1. z \in Decoders
      BY <1>13
    <2>2. CASE Len(z.buffered) <= n - n
      <3>1. z.buffered \in Seq(Bytes) /\ Len(z.buffered) \in Nat
        BY <2>1, DrainIs
      <3>2. Len(z.buffered) = 0
        BY <1>1, <2>2, <3>1
      <3>3. z.buffered = <<>>
        BY <3>1, <3>2, EmptySeq
      <3>4. QED
        BY <2>1, <3>3, DrainShortens
    <2>3. QED
      BY <1>13, <2>2
  <1>15. QED
    BY <1>3, <1>13, <1>14

\* The turns of the loop over the frames of a log that is read at once.
UnwrapState(rest, payload) == [rest |-> rest, payload |-> payload]
LEMMA UnwrapIs ==
  ASSUME NEW s \in Unwraps
  PROVE  /\ Unwrap(s) \in Unwraps /\ s.rest \in Seq(Bytes) /\ s.payload \in Seq(Bytes)
         /\ ~HasFrame(s.rest) => Unwrap(s) = s
         /\ HasFrame(s.rest) =>
               Unwrap(s) = UnwrapState(Rest(s.rest), s.payload \o Payload(s.rest))
  <1> DEFINE r == s.rest
             p == s.payload
  <1>1. r \in Seq(Bytes) /\ p \in Seq(Bytes)
    BY DEF Unwraps, ByteLists
  <1>2. /\ ~HasFrame(r) => Unwrap(s) = s
        /\ HasFrame(r) => Unwrap(s) = UnwrapState(Rest(r), p \o Payload(r))
    BY DEF Unwrap, UnwrapState
  <1> HIDE DEF r, p
  <1>3. ASSUME HasFrame(r) PROVE UnwrapState(Rest(r), p \o Payload(r)) \in Unwraps
    <2> DEFINE a == Rest(r)
               b == Payload(r)
               c == p \o b
    <2>1. a \in Seq(Bytes) /\ b \in Seq(Bytes)
      BY <1>1, <1>3, FrameIs
    <2> HIDE DEF a, b
    <2>2. c \in Seq(Bytes)
      BY <1>1, <2>1, ConcatIs
    <2> HIDE DEF c
    <2>3. UnwrapState(a, c) \in Unwraps
      BY <2>1, <2>2 DEF Unwraps, ByteLists, UnwrapState
    <2>4. QED
      BY <2>3 DEF a, b, c
  <1>4. QED
    BY <1>1, <1>2, <1>3 DEF r, p

LEMMA UnwrappedIs ==
  ASSUME NEW bytes \in Seq(Bytes)
  PROVE  LET U == Unwrapped(bytes)
             n == Len(bytes)
         IN  /\ n \in Nat /\ U \in [0..n -> Unwraps]
             /\ U[0] = UnwrapState(bytes, <<>>)
             /\ \A i \in 1..n : U[i] = Unwrap(U[i - 1])
  <1> DEFINE n == Len(bytes)
             start == UnwrapState(bytes, <<>>)
             h == [p \in Unwraps \X (1..n) |-> Unwrap(p[1])]
             D(f) == [i \in 0..n |-> IF i = 0 THEN start ELSE Unwrap(f[i - 1])]
             g == CHOOSE f : f = D(f)
  <1>1. n \in Nat
    OBVIOUS
  <1>s. start \in Unwraps
    <2> DEFINE none == <<>>
    <2>1. none \in Seq(Bytes)
      OBVIOUS
    <2> HIDE DEF none
    <2>2. UnwrapState(bytes, none) \in Unwraps
      BY <2>1 DEF Unwraps, ByteLists, UnwrapState
    <2>3. QED
      BY <2>2 DEF none
  <1>2. h \in Moves(Unwraps, n)
    BY UnwrapIs DEF Moves
  <1>2a. \A x \in Unwraps, i \in 1..n : h[<<x, i>>] = Unwrap(x)
    OBVIOUS
  <1>3. Unwrapped(bytes) = g
    BY DEF Unwrapped, UnwrapState
  <1> HIDE DEF h, n, start
  <1>4. PICK f \in Recursions(Unwraps, start, n, h) : TRUE
    BY <1>1, <1>s, <1>2, Recursion
  <1>5. /\ f \in [0..n -> Unwraps]
        /\ \A i \in 0..n : f[i] = IF i = 0 THEN start ELSE h[<<f[i - 1], i>>]
    BY <1>1, <1>s, <1>4, RecursionIs
  <1>6. \A i \in 1..n : h[<<f[i - 1], i>>] = Unwrap(f[i - 1])
    BY <1>1, <1>2a, <1>5
  <1>7. f = D(f)
    <2>1. \A i \in 0..n : i # 0 => i \in 1..n
      BY <1>1
    <2>2. \A i \in 0..n : f[i] = IF i = 0 THEN start ELSE Unwrap(f[i - 1])
      BY <1>5, <1>6, <2>1
    <2>3. QED
      BY <1>5, <2>2
  <1>8. g = D(g)
    BY <1>7
  <1> HIDE DEF g
  <1>9. /\ g = [i \in 0..n |-> g[i]] /\ g[0] = start
        /\ \A i \in 1..n : g[i] = Unwrap(g[i - 1])
    <2>1. \A i \in 0..n : g[i] = IF i = 0 THEN start ELSE Unwrap(g[i - 1])
      BY <1>8
    <2>2. 0 \in 0..n /\ \A i \in 1..n : i \in 0..n /\ i # 0
      BY <1>1
    <2>3. g = [i \in 0..n |-> g[i]]
      BY <1>8
    <2> HIDE DEF D
    <2>4. QED
      BY <2>1, <2>2, <2>3
  <1> HIDE DEF D
  <1>10. \A i \in 1..n : g[i - 1] \in Unwraps => g[i] = h[<<g[i - 1], i>>]
    BY <1>2a, <1>9
  <1>11. g \in Recursions(Unwraps, start, n, h)
    BY <1>1, <1>s, <1>2, <1>9, <1>10, IsRecursion
  <1>12. g \in [0..n -> Unwraps]
    BY <1>1, <1>s, <1>11, RecursionIs
  <1>13. QED
    BY <1>1, <1>3, <1>9, <1>12 DEF start, n

\* A frame that is not there stops it.
LEMMA UnwrappedStops ==
  ASSUME NEW bytes \in Seq(Bytes), NEW k \in 0..Len(bytes),
         ~HasFrame(Unwrapped(bytes)[k].rest)
  PROVE  Unwrapped(bytes)[Len(bytes)] = Unwrapped(bytes)[k]
  <1> DEFINE U == Unwrapped(bytes)
             n == Len(bytes)
             s == U[k]
             P == {j \in Nat : k + j <= n => U[k + j] = s}
  <1>1. /\ n \in Nat /\ U \in [0..n -> Unwraps]
        /\ \A i \in 1..n : U[i] = Unwrap(U[i - 1])
    BY UnwrappedIs
  <1>2. k \in 0..n /\ k \in Nat /\ s \in Unwraps
    BY <1>1
  <1> HIDE DEF U, n
  <1>3. Unwrap(s) = s
    BY <1>2, UnwrapIs DEF U
  <1>4. 0 \in P
    BY <1>2
  <1>5. ASSUME NEW j \in Nat, j \in P PROVE j + 1 \in P
    <2>1. SUFFICES ASSUME k + (j + 1) <= n PROVE U[k + (j + 1)] = s
      OBVIOUS
    <2>2. k + (j + 1) \in 1..n /\ (k + (j + 1)) - 1 = k + j /\ k + j <= n
      BY <1>1, <1>2, <2>1
    <2>3. U[k + j] = s
      BY <1>5, <2>2
    <2>4. U[k + (j + 1)] = Unwrap(U[(k + (j + 1)) - 1])
      BY <1>1, <2>2
    <2>5. QED
      BY <1>3, <2>2, <2>3, <2>4
  <1>6. Nat \subseteq P
    <2> HIDE DEF P
    <2>1. QED
      BY <1>4, <1>5, NumberInduction
  <1>7. n - k \in Nat /\ k + (n - k) = n
    BY <1>1, <1>2
  <1>8. n - k \in P
    BY <1>6, <1>7
  <1>9. U[k + (n - k)] = s
    BY <1>1, <1>7, <1>8
  <1>10. QED
    BY <1>7, <1>9 DEF U, n

\* Of a log of frames: the text of some of them is taken, and what waits is
\* the beginning of the next one.
FollowsFrames(log, d, left) ==
    \E k \in 0..Len(log) :
        /\ Holds(d, Unwrapped(log)[k].payload)
        /\ Unwrapped(log)[k].rest = d.buffered \o left
        /\ Len(Unwrapped(log)[k].rest) <= Len(log) - k
\* No chunk that leaves so much to come ends within a header's first bytes.
Clear(log, left) ==
    \A start \in Starts(log) : Len(log) - Len(left) - start \notin 1..3
\* Of any other log: all that has come is taken.
FollowsText(log, d, n) == d.buffered = <<>> /\ Holds(d, SubSeq(log, 1, n))

\* In frames from end to end, what is left is nothing or begins with one.
LEMMA FramedRest ==
  ASSUME NEW log \in Seq(Bytes), Framed(log), NEW k \in 0..Len(log)
  PROVE  LET r == Unwrapped(log)[k].rest IN
         /\ r \in Seq(Bytes) /\ Unwrapped(log)[k].payload \in Seq(Bytes)
         /\ r # <<>> => HasFrame(r) /\ Len(log) - Len(r) \in Starts(log)
  <1> DEFINE U == Unwrapped(log)
             n == Len(log)
             s == U[k]
             r == s.rest
  <1>1. n \in Nat /\ U \in [0..n -> Unwraps] /\ s \in Unwraps
    BY UnwrappedIs
  <1>2. r \in Seq(Bytes) /\ s.payload \in Seq(Bytes)
    BY <1>1 DEF Unwraps, ByteLists
  <1>3. ASSUME r # <<>> PROVE HasFrame(r) /\ n - Len(r) \in Starts(log)
    <2>1. HasFrame(r)
      <3>1. SUFFICES ASSUME ~HasFrame(r) PROVE FALSE
        OBVIOUS
      <3>2. U[n] = s
        BY <3>1, UnwrappedStops
      <3>3. U[n].rest = <<>>
        BY DEF Framed
      <3>4. QED
        BY <1>3, <3>2, <3>3
    <2>2. s \in Range(U)
      BY <1>1 DEF Range
    <2>3. s \in {x \in Range(U) : HasFrame(x.rest)}
      BY <2>1, <2>2
    <2>4. QED
      BY <2>1, <2>3 DEF Starts
  <1>4. QED
    BY <1>2, <1>3

\* One turn of the loop of push, of frames whose headers are whole.
LEMMA DrainFollows ==
  ASSUME NEW log \in Seq(Bytes), Framed(log), NEW left \in Seq(Bytes), Clear(log, left),
         NEW d \in Decoders, FollowsFrames(log, d, left)
  PROVE  FollowsFrames(log, Drain(d), left)
  <1> DEFINE U == Unwrapped(log)
             n == Len(log)
             b == d.buffered
  <1>1. /\ n \in Nat /\ U \in [0..n -> Unwraps]
        /\ \A i \in 1..n : U[i] = Unwrap(U[i - 1])
    BY UnwrappedIs
  <1>2. PICK k \in 0..n : /\ Holds(d, U[k].payload) /\ U[k].rest = b \o left
                          /\ Len(U[k].rest) <= n - k
    BY DEF FollowsFrames
  <1> DEFINE s == U[k]
             r == s.rest
             p == s.payload
  <1>3. /\ r \in Seq(Bytes) /\ p \in Seq(Bytes)
        /\ r # <<>> => HasFrame(r) /\ n - Len(r) \in Starts(log)
    BY FramedRest
  <1>4. /\ b \in Seq(Bytes)
        /\ \/ Drain(d) = d
           \/ b # <<>> /\ ~HasHeader(b)
           \/ b # <<>> /\ HasFrame(b) /\ Drain(d) = Taken(d, Payload(b), Rest(b))
    BY DrainIs
  <1>5. s \in Unwraps
    BY <1>1
  <1>6. Holds(d, p) /\ r = b \o left /\ Len(r) <= n - k
    BY <1>2
  <1>7. ASSUME b # <<>> PROVE HasHeader(b) /\ HasFrame(r)
    <2> DEFINE l == Len(left)
               m == Len(b)
    <2>1. l \in Nat /\ m \in Nat /\ m > 0 /\ Len(r) = m + l /\ r \in Seq(Bytes)
      BY <1>3, <1>4, <1>6, <1>7, ConcatIs, EmptySeq
    <2>2. r # <<>>
      <3>1. r = <<>> => Len(r) = 0
        OBVIOUS
      <3> HIDE DEF r
      <3>2. QED
        BY <2>1, <3>1
    <2>3. HasFrame(r) /\ n - Len(r) \in Starts(log)
      BY <1>3, <2>2
    <2>4. n - l - (n - Len(r)) \notin 1..3
      BY <2>3 DEF Clear
    <2>5. n - l - (n - Len(r)) = m
      BY <1>1, <2>1
    <2>6. m >= 4
      <3>1. m \notin 1..3
        BY <2>4, <2>5
      <3> HIDE DEF m
      <3>2. QED
        BY <2>1, <3>1
    <2>7. HasHeader(r)
      BY <1>3, <2>3, FrameIs
    <2>8. HasHeader(b)
      BY <1>4, <1>6, <2>6, <2>7, HeaderGrows
    <2>9. QED
      BY <2>3, <2>8
  <1> HIDE DEF b, r, p, s, U
  <1>8. CASE Drain(d) = d
    BY <1>8
  <1>9. CASE HasFrame(b) /\ Drain(d) = Taken(d, Payload(b), Rest(b))
    <2> DEFINE e == Drain(d)
               pb == Payload(b)
               rb == Rest(b)
               q == p \o pb
               rest == rb \o left
    <2>1. pb \in Seq(Bytes) /\ rb \in Seq(Bytes) /\ Len(rb) \in Nat
          /\ Len(rb) + 8 <= Len(b) /\ Len(b) \in Nat /\ b # <<>>
      BY <1>4, <1>9, FrameIs
    <2>2. Payload(r) = pb /\ Rest(r) = rest
      BY <1>4, <1>6, <1>9, FrameGrows
    <2>3. HasFrame(r)
      BY <1>7, <2>1
    <2> HIDE DEF pb, rb
    <2>4. e = Taken(d, pb, rb)
      BY <1>9 DEF pb, rb
    <2>5. e.buffered = rb /\ Holds(e, q)
      <3> HIDE DEF e, q
      <3>1. e.buffered = rb /\ Holds(e, p \o pb)
        BY <1>3, <1>6, <2>1, <2>4, TakenIs
      <3>2. QED
        BY <3>1 DEF q
    <2>6. Unwrap(s) = UnwrapState(rest, q)
      <3>1. Unwrap(s) = UnwrapState(Rest(s.rest), s.payload \o Payload(s.rest))
        BY <1>5, <2>3, UnwrapIs DEF r
      <3>2. QED
        BY <2>2, <3>1 DEF r, p
    <2>7. /\ Len(rest) = Len(rb) + Len(left) /\ Len(r) = Len(b) + Len(left)
          /\ Len(left) \in Nat
      BY <1>4, <1>6, <2>1, ConcatIs
    <2> HIDE DEF e, q, rest
    <2>8. /\ k + 1 \in 1..n /\ k + 1 \in 0..n /\ (k + 1) - 1 = k
          /\ Len(rest) <= n - (k + 1)
      BY <1>1, <1>6, <2>1, <2>7
    <2>9. U[k + 1] = UnwrapState(rest, q)
      BY <1>1, <2>6, <2>8 DEF s
    <2>10. U[k + 1].rest = rest /\ U[k + 1].payload = q
      BY <2>9 DEF UnwrapState
    <2>11. /\ Holds(e, U[k + 1].payload) /\ U[k + 1].rest = e.buffered \o left
           /\ Len(U[k + 1].rest) <= n - (k + 1)
      BY <2>5, <2>8, <2>10 DEF rest
    <2>12. QED
      BY <2>8, <2>11 DEF FollowsFrames, e, U
  <1>10. QED
    BY <1>4, <1>7, <1>8, <1>9

\* What is left of a log when one more chunk has come.
LEMMA ChunkIs ==
  ASSUME NEW log \in Seq(Bytes), NEW o \in Nat, NEW n \in Nat, o + n <= Len(log)
  PROVE  LET left == SubSeq(log, o + 1, Len(log))
             chunk == SubSeq(log, o + 1, o + n)
             next == SubSeq(log, o + n + 1, Len(log))
         IN  /\ chunk \in Seq(Bytes) /\ next \in Seq(Bytes) /\ Len(chunk) = n
             /\ Len(next) = Len(log) - (o + n) /\ left = chunk \o next
             /\ SubSeq(log, 1, o) \in Seq(Bytes)
             /\ SubSeq(log, 1, o) \o chunk = SubSeq(log, 1, o + n)
  <1> DEFINE m == Len(log)
             left == SubSeq(log, o + 1, m)
             chunk == SubSeq(log, o + 1, o + n)
             next == SubSeq(log, o + n + 1, m)
             was == SubSeq(log, 1, o)
             now == SubSeq(log, 1, o + n)
  <1>1. m \in Nat /\ o + n \in Nat /\ o + n <= m /\ o <= m
    OBVIOUS
  <1> HIDE DEF m
  <1>2. /\ chunk \in Seq(Bytes) /\ Len(chunk) = n
        /\ \A i \in 1..n : chunk[i] = log[o + 1 + i - 1]
    BY <1>1 DEF m
  <1>3. /\ next \in Seq(Bytes) /\ Len(next) = m - (o + n)
        /\ \A i \in 1..(m - (o + n)) : next[i] = log[o + n + 1 + i - 1]
    BY <1>1 DEF m
  <1>4. /\ left \in Seq(Bytes) /\ Len(left) = m - o
        /\ \A i \in 1..(m - o) : left[i] = log[o + 1 + i - 1]
    BY <1>1 DEF m
  <1>5. /\ was \in Seq(Bytes) /\ Len(was) = o
        /\ \A i \in 1..o : was[i] = log[1 + i - 1]
    BY <1>1 DEF m
  <1>6. /\ now \in Seq(Bytes) /\ Len(now) = o + n
        /\ \A i \in 1..(o + n) : now[i] = log[1 + i - 1]
    BY <1>1 DEF m
  <1> HIDE DEF left, chunk, next, was, now
  <1> DEFINE x == chunk \o next
             y == was \o chunk
  <1>7. /\ x \in Seq(Bytes) /\ Len(x) = Len(chunk) + Len(next)
        /\ \A i \in 1..Len(chunk) : x[i] = chunk[i]
        /\ \A i \in 1..Len(next) : x[Len(chunk) + i] = next[i]
    <2>1. chunk \in Seq(Bytes) /\ next \in Seq(Bytes)
      BY <1>2, <1>3
    <2>2. QED
      BY <2>1, ConcatIs
  <1>8. /\ y \in Seq(Bytes) /\ Len(y) = Len(was) + Len(chunk)
        /\ \A i \in 1..Len(was) : y[i] = was[i]
        /\ \A i \in 1..Len(chunk) : y[Len(was) + i] = chunk[i]
    <2>1. chunk \in Seq(Bytes) /\ was \in Seq(Bytes)
      BY <1>2, <1>5
    <2>2. QED
      BY <2>1, ConcatIs
  <1> HIDE DEF x, y
  <1>9. left = x
    <2>1. Len(x) = m - o
      BY <1>1, <1>2, <1>3, <1>7
    <2>2. ASSUME NEW i \in 1..Len(left) PROVE left[i] = x[i]
      <3>1. i \in 1..(m - o) /\ i \in Int
        BY <1>4
      <3>2. CASE i <= n
        <4>1. i \in 1..n
          BY <3>1, <3>2
        <4>2. QED
          BY <1>2, <1>4, <1>7, <3>1, <4>1
      <3>3. CASE i > n
        <4> DEFINE j == i - n
        <4>1. /\ j \in 1..(m - (o + n)) /\ n + j = i
              /\ o + n + 1 + j - 1 = o + 1 + i - 1
          BY <1>1, <3>1, <3>3
        <4> HIDE DEF j
        <4>2. x[i] = next[j]
          BY <1>2, <1>3, <1>7, <4>1
        <4>3. next[j] = log[o + 1 + i - 1]
          BY <1>3, <4>1
        <4>4. QED
          BY <1>4, <3>1, <4>2, <4>3
      <3>4. QED
        BY <3>1, <3>2, <3>3
    <2>3. QED
      BY <1>4, <1>7, <2>1, <2>2, SeqEqual
  <1>10. y = now
    <2>1. Len(y) = o + n
      BY <1>2, <1>5, <1>8
    <2>2. ASSUME NEW i \in 1..Len(y) PROVE y[i] = now[i]
      <3>1. i \in 1..(o + n) /\ i \in Int
        BY <2>1
      <3>2. CASE i <= o
        <4>1. i \in 1..o
          BY <3>1, <3>2
        <4>2. QED
          BY <1>5, <1>6, <1>8, <3>1, <4>1
      <3>3. CASE i > o
        <4> DEFINE j == i - o
        <4>1. j \in 1..n /\ o + j = i /\ o + 1 + j - 1 = 1 + i - 1
          BY <1>1, <3>1, <3>3
        <4> HIDE DEF j
        <4>2. y[i] = chunk[j]
          BY <1>2, <1>5, <1>8, <4>1
        <4>3. chunk[j] = log[1 + i - 1]
          BY <1>2, <4>1
        <4>4. QED
          BY <1>6, <3>1, <4>2, <4>3
      <3>4. QED
        BY <3>1, <3>2, <3>3
    <2>3. QED
      BY <1>6, <1>8, <2>1, <2>2, SeqEqual
  <1>11. QED
    BY <1>2, <1>3, <1>5, <1>9, <1>10 DEF left, chunk, next, was, now, x, y, m

\* The decoder of a log that is followed.  What it has taken of it is `Follows`;
\* no turn of its loop waits to be made.
Follows ==
    /\ Framed(output) => FollowsFrames(output, decoder,
                                       SubSeq(output, offset + 1, Len(output)))
    /\ Plain(output) => FollowsText(output, decoder, offset)
DecoderInv ==
    /\ output \in Logs \cup {<<>>} /\ offset \in 0..Len(output)
    /\ headerCut \in BOOLEAN
    /\ decoder \in Decoders /\ Len(decoder.buffered) <= offset
    /\ Drain(decoder) = decoder
    /\ decoder.ended => offset = Len(output)
    /\ ~headerCut => IF decoder.ended THEN LinesSurviveCuts ELSE Follows

LEMMA LogIs ==
  ASSUME NEW log, log \in Logs \cup {<<>>}
  PROVE  log \in Seq(Bytes) /\ (Framed(log) \/ Plain(log))
  <1>1. CASE log \in Logs
    <2>1. log \in Seq(Bytes)
      BY <1>1, LogsAssumption DEF Bytes
    <2>2. Framed(log) \/ Plain(log)
      BY <1>1, DockerAssumption
    <2>3. QED
      BY <2>1, <2>2
  <1>2. CASE log = <<>>
    <2>1. log \in Seq(Bytes) /\ Len(log) = 0
      BY <1>2
    <2>2. Plain(log)
      BY <2>1 DEF Plain
    <2>3. QED
      BY <2>1, <2>2
  <1>3. QED
    BY <1>1, <1>2

\* A decoder that has taken nothing.
LEMMA NewDecoderIs ==
  /\ NewDecoder \in Decoders /\ NewDecoder.buffered = <<>> /\ ~NewDecoder.ended
  /\ Holds(NewDecoder, <<>>)
  <1> DEFINE none == <<>>
             nd == NewDecoder
  <1>1. /\ none \in ByteLists /\ none \in Texts /\ none \in Lines
        /\ none \in Seq(Bytes) /\ none \in Seq(Nat)
    BY DEF ByteLists, Texts, Lines
  <1>2. nd = [buffered |-> none, pending |-> none, lead |-> FALSE,
              lines |-> none, ended |-> FALSE]
    BY DEF NewDecoder
  <1>3. Utf8Written(FALSE, none) = Undecoded(FALSE)
    BY Utf8WrittenStep
  <1>4. Undecoded(FALSE).lead = FALSE /\ Undecoded(FALSE).text = none
    BY DEF Undecoded
  <1>5. Split(none) = <<none>>
    BY SplitStep DEF NoLine
  <1>6. Last(<<none>>) = none /\ Front(<<none>>) = none
    BY DEF Last, Front
  <1>7. NonEmpty(none) = none
    BY NonEmptyStep DEF NothingKept
  <1> HIDE DEF none, nd
  <1>8. /\ nd \in Decoders /\ nd.buffered = none /\ ~nd.ended /\ nd.lead = FALSE
        /\ nd.pending = none /\ nd.lines = none
    BY <1>1, <1>2 DEF Decoders
  <1>9. Holds(nd, none)
    BY <1>3, <1>4, <1>5, <1>6, <1>7, <1>8 DEF Holds
  <1>10. QED
    BY <1>8, <1>9 DEF none, nd

LEMMA DecoderInitInv == DecoderInit \/ DecoderIdle => DecoderInv
  <1>1. SUFFICES ASSUME DecoderInit \/ DecoderIdle PROVE DecoderInv
    OBVIOUS
  <1>2. /\ output \in Logs \cup {<<>>} /\ offset = 0 /\ decoder = NewDecoder
        /\ headerCut = FALSE
    BY <1>1 DEF DecoderInit, DecoderIdle
  <1> DEFINE n == Len(output)
             none == <<>>
             left == SubSeq(output, offset + 1, Len(output))
             was == SubSeq(output, 1, offset)
  <1>3. output \in Seq(Bytes) /\ n \in Nat
    BY <1>2, LogIs
  <1>4. decoder \in Decoders /\ decoder.buffered = none /\ ~decoder.ended
        /\ Holds(decoder, none)
    BY <1>2, NewDecoderIs
  <1>5. none \in Seq(Bytes) /\ Len(none) = 0
    OBVIOUS
  <1>6. Drain(decoder) = decoder
    BY <1>4, DrainShortens
  <1>7. left = output /\ was = none
    <2>1. left = SubSeq(output, 1, Len(output)) /\ was = SubSeq(output, 1, 0)
      BY <1>2
    <2>2. SubSeq(output, 1, Len(output)) = output
      BY <1>3, SubSeqFull
    <2>3. SubSeq(output, 1, 0) = none
      BY <1>3, SubSeqEmpty
    <2>4. QED
      BY <2>1, <2>2, <2>3
  <1> HIDE DEF left, was
  <1>8. FollowsFrames(output, decoder, left)
    <2> DEFINE U == Unwrapped(output)
    <2>1. U[0] = UnwrapState(output, none)
      BY <1>3, UnwrappedIs
    <2> HIDE DEF U
    <2>2. U[0].payload = none /\ U[0].rest = output
      BY <2>1 DEF UnwrapState
    <2>3. decoder.buffered \o left = output
      BY <1>3, <1>4, <1>7, ConcatEmptySeq
    <2>4. 0 \in 0..n /\ Len(output) <= n - 0
      BY <1>3
    <2> HIDE DEF none
    <2>5. Holds(decoder, U[0].payload) /\ U[0].rest = decoder.buffered \o left
          /\ Len(U[0].rest) <= n - 0
      BY <1>4, <2>2, <2>3, <2>4
    <2>6. QED
      BY <2>4, <2>5 DEF FollowsFrames, U
  <1>9. FollowsText(output, decoder, offset)
    BY <1>4, <1>7 DEF FollowsText, was
  <1>10. Follows
    BY <1>8, <1>9 DEF Follows, left
  <1>11. offset \in 0..n /\ Len(decoder.buffered) <= offset
    BY <1>2, <1>3, <1>4, <1>5
  <1>12. QED
    BY <1>2, <1>4, <1>6, <1>10, <1>11 DEF DecoderInv

\* A chunk: the decoder with it, before the turns of its loop and after.
LEMMA PushedIs ==
  ASSUME NEW d \in Decoders, NEW chunk \in Seq(Bytes)
  PROVE  LET e == [d EXCEPT !.buffered = d.buffered \o chunk] IN
         /\ e \in Decoders /\ e.ended = d.ended /\ d.buffered \in Seq(Bytes)
         /\ e.buffered = d.buffered \o chunk
         /\ Len(e.buffered) = Len(d.buffered) + Len(chunk)
         /\ \A W : Holds(d, W) => Holds(e, W)
         /\ Pushed(d, chunk) = Drained(e)
  <1> DEFINE b == d.buffered \o chunk
             e == [d EXCEPT !.buffered = b]
  <1>1. d.buffered \in Seq(Bytes)
    BY DrainIs
  <1>2. b \in Seq(Bytes) /\ Len(b) = Len(d.buffered) + Len(chunk)
    BY <1>1, ConcatIs
  <1>3. Pushed(d, chunk) = Drained(e)
    BY DEF Pushed
  <1> HIDE DEF b
  <1>4. b \in ByteLists
    BY <1>2 DEF ByteLists
  <1>5. /\ e \in Decoders /\ e.ended = d.ended /\ e.buffered = b /\ e.lead = d.lead
        /\ e.pending = d.pending /\ e.lines = d.lines
    BY <1>4 DEF Decoders
  <1> HIDE DEF e
  <1>6. \A W : Holds(d, W) => Holds(e, W)
    BY <1>5 DEF Holds
  <1>7. QED
    BY <1>1, <1>2, <1>3, <1>5, <1>6 DEF b, e

\* Frames: the chunk goes before what is left, and the turns follow.
LEMMA DataFollowsFrames ==
  ASSUME NEW log \in Seq(Bytes), Framed(log), NEW d \in Decoders,
         NEW o \in Nat, NEW n \in Nat, o + n <= Len(log),
         FollowsFrames(log, d, SubSeq(log, o + 1, Len(log))),
         \A start \in Starts(log) :
            ~(o + n > start /\ o + n - start \in 1..3)
  PROVE  FollowsFrames(log, Pushed(d, SubSeq(log, o + 1, o + n)),
                       SubSeq(log, o + n + 1, Len(log)))
  <1> DEFINE chunk == SubSeq(log, o + 1, o + n)
             left == SubSeq(log, o + 1, Len(log))
             next == SubSeq(log, o + n + 1, Len(log))
             b == d.buffered \o chunk
             e == [d EXCEPT !.buffered = b]
             T == {x \in Decoders : FollowsFrames(log, x, next)}
             pos == o + n
  <1>1. /\ chunk \in Seq(Bytes) /\ next \in Seq(Bytes)
        /\ Len(next) = Len(log) - (o + n) /\ left = chunk \o next
    BY ChunkIs
  <1>f. FollowsFrames(log, d, left)
    OBVIOUS
  <1> HIDE DEF chunk, left, next
  <1>2. /\ e \in Decoders /\ d.buffered \in Seq(Bytes) /\ e.buffered = b
        /\ \A W : Holds(d, W) => Holds(e, W)
        /\ Pushed(d, chunk) = Drained(e)
    BY <1>1, PushedIs
  <1>3. d.buffered \o left = b \o next
    <2> DEFINE bb == d.buffered
    <2>1. bb \in Seq(Bytes)
      BY <1>2
    <2> HIDE DEF bb, T
    <2>2. (bb \o chunk) \o next = bb \o (chunk \o next)
      BY <1>1, <2>1, BytesAssociate
    <2>3. QED
      BY <1>1, <2>2 DEF bb
  <1> HIDE DEF e, b
  <1>4. FollowsFrames(log, e, next)
    BY <1>f, <1>2, <1>3 DEF FollowsFrames
  <1>5. Clear(log, next)
    <2>1. ASSUME NEW start \in Starts(log)
          PROVE  Len(log) - Len(next) - start \notin 1..3
      <3>1. start \in Int
        <4>1. PICK s \in Range(Unwrapped(log)) : start = Len(log) - Len(s.rest)
          BY DEF Starts
        <4>2. s \in Unwraps
          BY <4>1, UnwrappedIs DEF Range
        <4>3. s.rest \in Seq(Bytes)
          BY <4>2 DEF Unwraps, ByteLists
        <4>4. Len(s.rest) \in Nat /\ Len(log) \in Nat
          BY <4>3
        <4>5. QED
          BY <4>1, <4>4
      <3> DEFINE l == Len(log)
      <3>2. l \in Nat /\ pos \in Nat /\ Len(next) = l - pos
        BY <1>1
      <3>g. ~(o + n > start /\ o + n - start \in 1..3)
        BY <2>1
      <3>h. o + n - start = pos - start
        BY <3>1
      <3> HIDE DEF T, l
      <3>3. ~(pos > start /\ pos - start \in 1..3)
        <4> DEFINE a == o + n - start
        <4>1. ~(o + n > start /\ a \in 1..3) /\ a = pos - start
          BY <3>g, <3>h
        <4> HIDE DEF a
        <4>2. QED
          BY <4>1
      <3> HIDE DEF pos
      <3>4. l - Len(next) - start = pos - start
        BY <3>1, <3>2
      <3>5. pos - start \in 1..3 => pos > start
        BY <3>1, <3>2
      <3>6. QED
        BY <3>3, <3>4, <3>5 DEF l
    <2>2. QED
      BY <2>1 DEF Clear
  <1>6. \A x \in Decoders : x \in T => Drain(x) \in T
    <2>1. SUFFICES ASSUME NEW x \in Decoders, FollowsFrames(log, x, next)
                   PROVE  Drain(x) \in Decoders /\ FollowsFrames(log, Drain(x), next)
      OBVIOUS
    <2>2. Drain(x) \in Decoders
      BY DrainShortens
    <2>3. FollowsFrames(log, Drain(x), next)
      BY <1>1, <1>5, <2>1, DrainFollows
    <2>4. QED
      BY <2>2, <2>3
  <1>7. e \in T
    BY <1>2, <1>4
  <1> HIDE DEF T
  <1>8. Drained(e) \in T
    BY <1>2, <1>6, <1>7, DrainedKeeps
  <1>9. FollowsFrames(log, Pushed(d, chunk), next)
    BY <1>2, <1>8 DEF T
  <1>10. QED
    BY <1>9 DEF chunk, next

\* Text without headers: a chunk is taken as it comes.
LEMMA DataFollowsText ==
  ASSUME NEW log \in Seq(Bytes), Plain(log), NEW d \in Decoders,
         NEW o \in Nat, NEW n \in Nat, o + n <= Len(log), n # 0,
         FollowsText(log, d, o)
  PROVE  FollowsText(log, Pushed(d, SubSeq(log, o + 1, o + n)), o + n)
  <1> DEFINE chunk == SubSeq(log, o + 1, o + n)
             was == SubSeq(log, 1, o)
             now == SubSeq(log, 1, o + n)
             left == SubSeq(log, o + 1, Len(log))
             next == SubSeq(log, o + n + 1, Len(log))
             b == d.buffered \o chunk
             e == [d EXCEPT !.buffered = b]
             none == <<>>
             t == Taken(e, chunk, none)
             T == {e, t}
  <1>1. /\ chunk \in Seq(Bytes) /\ next \in Seq(Bytes) /\ Len(chunk) = n
        /\ left = chunk \o next /\ was \in Seq(Bytes) /\ was \o chunk = now
    BY ChunkIs
  <1>2. d.buffered = none /\ Holds(d, was) /\ none \in Seq(Bytes)
    BY DEF FollowsText
  <1>3. ~HasHeader(left)
    <2>1. o + 1 \in 1..Len(log)
      OBVIOUS
    <2>2. QED
      BY <2>1 DEF Plain
  <1> HIDE DEF chunk, was, now, left, next
  <1>4. chunk # none
    BY <1>1
  <1>5. ~HasHeader(chunk)
    <2>1. CASE Len(chunk) >= 4
      BY <1>1, <1>3, <2>1, HeaderGrows
    <2>2. CASE ~(Len(chunk) >= 4)
      BY <2>2 DEF HasHeader
    <2>3. QED
      BY <2>1, <2>2
  <1>6. b = chunk
    BY <1>1, <1>2, ConcatEmptySeq
  <1>7. /\ e \in Decoders /\ e.buffered = b
        /\ \A W : Holds(d, W) => Holds(e, W)
        /\ Pushed(d, chunk) = Drained(e)
    BY <1>1, PushedIs
  <1> HIDE DEF e, b, t, none
  <1>8. t \in Decoders /\ t.buffered = none /\ Holds(t, now)
    <2>1. Holds(e, was)
      BY <1>2, <1>7
    <2>2. Holds(Taken(e, chunk, none), was \o chunk)
      BY <1>1, <1>2, <1>7, <2>1, TakenIs
    <2>3. t \in Decoders /\ t.buffered = none
      BY <1>1, <1>2, <1>7, TakenIs DEF t
    <2>4. QED
      BY <1>1, <2>2, <2>3 DEF t
  <1>9. Drain(e) = t
    <2>1. \/ e.buffered = none \/ HasHeader(e.buffered)
          \/ Drain(e) = Taken(e, e.buffered, none)
      BY <1>7, DrainIs, FrameIs DEF none
    <2>2. QED
      BY <1>4, <1>5, <1>6, <1>7, <2>1 DEF t
  <1>10. Drain(t) = t
    BY <1>8, DrainShortens DEF none
  <1>11. \A x \in Decoders : x \in T => Drain(x) \in T
    BY <1>9, <1>10
  <1>12. e # t
    BY <1>4, <1>6, <1>7, <1>8
  <1>13. e \in T
    OBVIOUS
  <1>14. Drained(e) \in T /\ Drain(Drained(e)) = Drained(e)
    <2> HIDE DEF T
    <2>1. QED
      BY <1>7, <1>11, <1>13, DrainedKeeps
  <1>15. Drained(e) = t
    BY <1>9, <1>12, <1>14
  <1>16. FollowsText(log, Pushed(d, chunk), o + n)
    BY <1>7, <1>8, <1>15 DEF FollowsText, none, now
  <1>17. QED
    BY <1>16 DEF chunk

\* What a chunk may do to the buffer, whatever it holds.
LEMMA PushedFits ==
  ASSUME NEW d \in Decoders, NEW chunk \in Seq(Bytes)
  PROVE  /\ Pushed(d, chunk) \in Decoders /\ Pushed(d, chunk).ended = d.ended
         /\ Len(Pushed(d, chunk).buffered) <= Len(d.buffered) + Len(chunk)
         /\ Drain(Pushed(d, chunk)) = Pushed(d, chunk)
  <1> DEFINE b == d.buffered \o chunk
             e == [d EXCEPT !.buffered = b]
             n == Len(d.buffered) + Len(chunk)
             T == {x \in Decoders : x.ended = d.ended /\ Len(x.buffered) <= n}
  <1>1. /\ e \in Decoders /\ e.ended = d.ended /\ Len(e.buffered) = n
        /\ Pushed(d, chunk) = Drained(e)
    BY PushedIs
  <1>2. Len(d.buffered) \in Nat /\ Len(chunk) \in Nat /\ n \in Nat
    BY DrainShortens
  <1> HIDE DEF e, n
  <1>3. \A x \in Decoders : x \in T => Drain(x) \in T
    <2>1. SUFFICES ASSUME NEW x \in Decoders, x.ended = d.ended, Len(x.buffered) <= n
                   PROVE  /\ Drain(x) \in Decoders /\ Drain(x).ended = d.ended
                          /\ Len(Drain(x).buffered) <= n
      OBVIOUS
    <2> DEFINE y == Drain(x)
    <2>2. /\ y \in Decoders /\ y.ended = x.ended
          /\ Len(x.buffered) \in Nat /\ Len(y.buffered) \in Nat
          /\ y = x \/ Len(y.buffered) < Len(x.buffered)
      BY DrainShortens
    <2> HIDE DEF y
    <2>3. Len(y.buffered) <= n
      BY <1>2, <2>1, <2>2
    <2>4. QED
      BY <2>1, <2>2, <2>3 DEF y
  <1>4. e \in T
    BY <1>1, <1>2
  <1> DEFINE z == Drained(e)
  <1>5. z \in T /\ Drain(z) = z
    <2> HIDE DEF T
    <2>1. QED
      BY <1>1, <1>3, <1>4, DrainedKeeps
  <1>6. QED
    BY <1>1, <1>5 DEF n

LEMMA DecoderNextInv == DecoderInv /\ [DecoderNext]_decoderVars => DecoderInv'
  <1>1. SUFFICES ASSUME DecoderInv, [DecoderNext]_decoderVars PROVE DecoderInv'
    OBVIOUS
  <1> DEFINE d == decoder
  <1>2. /\ output \in Logs \cup {<<>>} /\ offset \in 0..Len(output)
        /\ headerCut \in BOOLEAN
        /\ decoder \in Decoders /\ Len(decoder.buffered) <= offset
        /\ Drain(decoder) = decoder
        /\ decoder.ended => offset = Len(output)
        /\ ~headerCut => IF decoder.ended THEN LinesSurviveCuts ELSE Follows
    BY <1>1 DEF DecoderInv
  <1>3. output \in Seq(Bytes) /\ (Framed(output) \/ Plain(output))
    BY <1>2, LogIs
  <1>4. ASSUME NEW n \in 1..Len(output), Data(n) PROVE DecoderInv'
    <2> DEFINE chunk == SubSeq(output, offset + 1, offset + n)
               left == SubSeq(output, offset + 1, Len(output))
               next == SubSeq(output, offset + n + 1, Len(output))
               e == Pushed(decoder, chunk)
    <2>1. /\ offset + n <= Len(output) /\ offset' = offset + n
          /\ decoder' = e /\ output' = output
          /\ headerCut' = (headerCut \/ \E start \in Starts(output) :
                                offset + n > start /\ offset + n - start \in 1..3)
      BY <1>4 DEF Data
    <2>2. /\ offset \in Nat /\ n \in Nat /\ n # 0 /\ Len(output) \in Nat
          /\ offset # Len(output)
      BY <1>2, <2>1
    <2>3. chunk \in Seq(Bytes) /\ Len(chunk) = n
      BY <1>3, <2>1, <2>2, ChunkIs
    <2> HIDE DEF chunk
    <2>4. /\ e \in Decoders /\ e.ended = decoder.ended
          /\ Len(e.buffered) <= Len(decoder.buffered) + Len(chunk) /\ Drain(e) = e
      BY <1>2, <2>3, PushedFits
    <2>5. /\ Len(e.buffered) \in Nat /\ Len(decoder.buffered) \in Nat
      BY <1>2, <2>4, DrainShortens
    <2>6. ~decoder.ended
      BY <1>2, <2>2
    <2>7. ASSUME ~headerCut' PROVE Follows'
      <3>1. /\ ~headerCut
            /\ \A start \in Starts(output) :
                  ~(offset + n > start /\ offset + n - start \in 1..3)
        BY <2>1, <2>7
      <3>2. Follows
        BY <1>2, <2>6, <3>1
      <3> HIDE DEF e
      <3>3. Framed(output) => FollowsFrames(output, e, next)
        <4>1. SUFFICES ASSUME Framed(output) PROVE FollowsFrames(output, e, next)
          OBVIOUS
        <4>2. FollowsFrames(output, decoder, SubSeq(output, offset + 1, Len(output)))
          BY <3>2, <4>1 DEF Follows
        <4>3. QED
          BY <1>2, <1>3, <2>1, <2>2, <3>1, <4>1, <4>2, DataFollowsFrames DEF e, chunk
      <3>4. Plain(output) => FollowsText(output, e, offset + n)
        <4>1. SUFFICES ASSUME Plain(output) PROVE FollowsText(output, e, offset + n)
          OBVIOUS
        <4>2. FollowsText(output, decoder, offset)
          BY <3>2, <4>1 DEF Follows
        <4>3. QED
          BY <1>2, <1>3, <2>1, <2>2, <4>1, <4>2, DataFollowsText DEF e, chunk
      <3>5. SubSeq(output', offset' + 1, Len(output')) = next
        BY <2>1
      <3> HIDE DEF next
      <3>6. QED
        BY <2>1, <3>3, <3>4, <3>5 DEF Follows
    <2>8. headerCut' \in BOOLEAN
      <3> DEFINE cut == \E start \in Starts(output) :
                                offset + n > start /\ offset + n - start \in 1..3
      <3>1. cut \in BOOLEAN
        OBVIOUS
      <3>2. headerCut' = (headerCut \/ cut)
        BY <2>1
      <3> HIDE DEF cut
      <3>3. QED
        BY <1>2, <3>1, <3>2
    <2>9. /\ output' \in Logs \cup {<<>>} /\ offset' \in 0..Len(output')
          /\ Len(decoder'.buffered) <= offset'
      BY <1>2, <2>1, <2>2, <2>3, <2>4, <2>5
    <2>10. decoder' \in Decoders /\ Drain(decoder') = decoder' /\ ~decoder'.ended
      BY <2>1, <2>4, <2>6
    <2>11. QED
      BY <2>7, <2>8, <2>9, <2>10 DEF DecoderInv
  <1>5. CASE End
    <2> DEFINE e == Ended(decoder)
               n == Len(output)
               b == decoder.buffered
               none == <<>>
    <2>1. /\ offset = n /\ ~decoder.ended /\ decoder' = e
          /\ output' = output /\ offset' = offset /\ headerCut' = headerCut
      BY <1>5 DEF End
    <2>2. /\ e \in Decoders /\ e.buffered = none /\ e.ended
          /\ \A W \in Seq(Bytes) : Holds(decoder, W) =>
                e.lines = NonEmpty(ToLogLines(TextOf(W \o b)))
      BY <1>2, EndedIs
    <2>3. Drain(e) = e
      BY <2>2, DrainShortens
    <2> HIDE DEF e
    <2>4. n \in Nat /\ none \in Seq(Bytes) /\ Len(none) = 0
      BY <1>3
    <2>5. ASSUME ~headerCut PROVE e.lines = NonEmpty(DecodeDockerLogOutput(output))
      <3> DEFINE U == Unwrapped(output)
                 V == IF Framed(output) THEN U[n].payload ELSE output
      <3>1. Follows
        BY <1>2, <2>1, <2>5
      <3>2. DecodeDockerLogOutput(output) = ToLogLines(TextOf(V))
        BY DEF DecodeDockerLogOutput
      <3>3. CASE Framed(output)
        <4> DEFINE left == SubSeq(output, offset + 1, Len(output))
        <4>1. FollowsFrames(output, decoder, left)
          BY <3>1, <3>3 DEF Follows
        <4>2. left = none
          <5>1. left = SubSeq(output, n + 1, n)
            BY <2>1
          <5>2. n \in Int /\ n + 1 \in Int /\ n < n + 1
            BY <2>4
          <5> HIDE DEF n, left
          <5>3. SubSeq(output, n + 1, n) = <<>>
            BY <5>2, SubSeqEmpty
          <5>4. QED
            BY <5>1, <5>3
        <4> HIDE DEF left
        <4>3. PICK k \in 0..n : Holds(decoder, U[k].payload) /\ U[k].rest = b \o left
          BY <4>1 DEF FollowsFrames
        <4> DEFINE r == U[k].rest
                   p == U[k].payload
        <4>4. r \in Seq(Bytes) /\ p \in Seq(Bytes) /\ (r # none => HasFrame(r))
          BY <1>3, <3>3, FramedRest
        <4>5. b \in Seq(Bytes)
          BY <1>2, DrainIs
        <4>6. r = b
          BY <4>2, <4>3, <4>5, ConcatEmptySeq
        <4>7. b = none
          <5>1. SUFFICES ASSUME b # none PROVE FALSE
            OBVIOUS
          <5>2. HasFrame(b)
            BY <4>4, <4>6, <5>1
          <5>3. HasHeader(b) /\ Rest(b) \in Seq(Bytes) /\ Payload(b) \in Seq(Bytes)
                /\ Len(Rest(b)) < Len(b) /\ Len(Rest(b)) \in Nat /\ Len(b) \in Nat
            BY <4>5, <5>2, FrameIs
          <5>4. decoder = Taken(decoder, Payload(b), Rest(b))
            BY <1>2, <5>1, <5>2, <5>3, DrainIs
          <5>5. Taken(decoder, Payload(b), Rest(b)).buffered = Rest(b)
            BY <1>2, <5>3, TakenIs
          <5>6. QED
            BY <5>3, <5>4, <5>5
        <4>8. ~HasFrame(r)
          BY <2>4, <4>5, <4>6, <4>7, FrameIs
        <4>9. U[n] = U[k]
          BY <1>3, <4>8, UnwrappedStops
        <4>10. V = p
          BY <3>3, <4>9
        <4> HIDE DEF V, U, p
        <4>11. p \o b = p
          BY <4>4, <4>7, ConcatEmptySeq
        <4>12. e.lines = NonEmpty(ToLogLines(TextOf(p \o b)))
          BY <2>2, <4>3, <4>4 DEF p
        <4>13. QED
          BY <3>2, <4>10, <4>11, <4>12
      <3>4. CASE ~Framed(output)
        <4>1. FollowsText(output, decoder, n)
          BY <1>3, <2>1, <3>1, <3>4 DEF Follows
        <4>2. SubSeq(output, 1, n) = output
          BY <1>3, SubSeqFull
        <4>3. b = none /\ Holds(decoder, output)
          BY <4>1, <4>2 DEF FollowsText
        <4>4. output \o b = output
          BY <1>3, <4>3, ConcatEmptySeq
        <4>5. e.lines = NonEmpty(ToLogLines(TextOf(output \o b)))
          BY <1>3, <2>2, <4>3
        <4>6. QED
          BY <3>2, <3>4, <4>4, <4>5
      <3>5. QED
        BY <3>3, <3>4
    <2>6. ~headerCut' => LinesSurviveCuts'
      BY <2>1, <2>5 DEF LinesSurviveCuts
    <2>7. /\ output' \in Logs \cup {<<>>} /\ offset' \in 0..Len(output')
          /\ offset' = Len(output') /\ headerCut' \in BOOLEAN
      BY <1>2, <2>1
    <2>8. /\ decoder' \in Decoders /\ Drain(decoder') = decoder' /\ decoder'.ended
          /\ Len(decoder'.buffered) <= offset'
      <3>1. Len(e.buffered) <= offset
        BY <1>2, <2>1, <2>2, <2>4
      <3>2. QED
        BY <2>1, <2>2, <2>3, <3>1
    <2>9. QED
      BY <2>6, <2>7, <2>8 DEF DecoderInv
  <1>6. CASE UNCHANGED decoderVars
    BY <1>1, <1>6 DEF decoderVars, DecoderInv, Follows, LinesSurviveCuts
  <1>7. QED
    BY <1>1, <1>4, <1>5, <1>6 DEF DecoderNext

LEMMA DecoderKeeps == DecoderInv => DecoderTypeOK /\ LinesSurviveOtherCuts
  <1>1. DecoderInv /\ ~headerCut => LinesSurviveCuts
    BY DEF DecoderInv, LinesSurviveCuts
  <1>2. QED
    BY <1>1 DEF DecoderInv, DecoderTypeOK, LinesSurviveOtherCuts

------------------------------------------------------------------------------
(* The page that follows a log.                                           *)

LogPages ==
    [mounted : BOOLEAN, paused : BOOLEAN, connecting : BOOLEAN,
     configuration : {"loading", "ready", "failed"},
     socket : 1..MaxSockets \cup {NoSocket},
     filters : 0..MaxChanges, lateConfiguration : BOOLEAN]
LogSockets ==
    [browser : {"connecting", "open", "closing", "closed"},
     asked : 0..MaxChanges \cup {NoSocket}, closed : BOOLEAN,
     handler : {"waiting", "starting", "following", "over"}]

\* A socket may open or be open only while it is the page's, and then its
\* filters are the page's; nothing is followed for a browser seen leaving.
Heard(own, asked, i) ==
    /\ own[i].browser = "connecting" => i = asked.socket
    /\ own[i].browser = "open" => i = asked.socket /\ own[i].asked = asked.filters
    /\ own[i].handler = "following" => ~own[i].closed

\* The page has no socket while it is paused, before it knows its limit of
\* lines, and after it was left, unless the limit came then.
Resting(now, own, shown) ==
    /\ now.paused => now.socket = NoSocket
    /\ now.configuration # "ready" => own = <<>> /\ shown = NoSocket
    /\ ~now.mounted /\ ~now.lateConfiguration => now.socket = NoSocket
    /\ shown # NoSocket /\ ~now.paused => shown = now.filters

LogInv ==
    /\ logPage \in LogPages
    /\ sockets \in Seq(LogSockets) /\ Len(sockets) <= MaxSockets
    /\ logShown \in 0..MaxChanges \cup {NoSocket}
    /\ logPage.socket \in DOMAIN sockets \cup {NoSocket}
    /\ \A i \in DOMAIN sockets : Heard(sockets, logPage, i)
    /\ Resting(logPage, sockets, logShown)

LEMMA LogInitInv == LogInit \/ LogIdle => LogInv
  <1> SUFFICES ASSUME LogInit \/ LogIdle PROVE LogInv
    OBVIOUS
  <1> DEFINE e == <<>>
  <1>1. /\ sockets = e /\ e \in Seq(LogSockets) /\ Len(e) = 0 /\ DOMAIN e = {}
        /\ logShown = NoSocket
    BY DEF LogInit, LogIdle
  <1>2. /\ logPage \in LogPages /\ logPage.socket = NoSocket
    <2>1. 0 \in 0..MaxChanges
      BY LogStreamAssumption
    <2>2. NewPage \in LogPages /\ NewPage.socket = NoSocket
      BY <2>1 DEF NewPage, LogPages
    <2>3. QED
      BY <2>2 DEF LogInit, LogIdle, LogPages
  <1>3. Resting(logPage, sockets, logShown)
    BY <1>1, <1>2 DEF Resting
  <1> HIDE DEF e
  <1>4. Len(sockets) <= MaxSockets
    BY <1>1, LogStreamAssumption
  <1>5. QED
    BY <1>1, <1>2, <1>3, <1>4 DEF LogInv

\* closeSocket leaves no socket that may open or be open.
LEMMA AllClosed ==
  ASSUME LogInv, NEW own, own = ClosedInBrowser(logPage.socket)
  PROVE  /\ own \in Seq(LogSockets) /\ Len(own) = Len(sockets)
         /\ DOMAIN own = DOMAIN sockets
         /\ \A i \in DOMAIN own :
               /\ own[i].browser \in {"closing", "closed"}
               /\ own[i].handler = "following" => ~own[i].closed
         /\ sockets = <<>> => own = <<>>
  <1>1. /\ sockets \in Seq(LogSockets) /\ logPage.socket \in DOMAIN sockets \cup {NoSocket}
        /\ \A i \in DOMAIN sockets : Heard(sockets, logPage, i)
        /\ DOMAIN sockets = 1..Len(sockets) /\ Len(sockets) \in Nat
    BY DEF LogInv
  <1>2. \A i \in DOMAIN sockets : sockets[i] \in LogSockets
    BY <1>1, ElementOfSeq
  <1>3. CASE logPage.socket = NoSocket
    <2>1. own = sockets
      BY <1>3 DEF ClosedInBrowser
    <2>2. \A i \in DOMAIN sockets : i # NoSocket
      BY <1>1, LogStreamAssumption
    <2>3. ASSUME NEW i \in DOMAIN own
          PROVE  /\ own[i].browser \in {"closing", "closed"}
                 /\ own[i].handler = "following" => ~own[i].closed
      BY <1>1, <1>2, <1>3, <2>1, <2>2 DEF Heard, LogSockets
    <2>4. QED
      BY <1>1, <2>1, <2>3
  <1>4. CASE logPage.socket # NoSocket
    <2> DEFINE k == logPage.socket
               s == [sockets[k] EXCEPT !.browser = IF @ = "closed" THEN @ ELSE "closing"]
    <2>1. k \in 1..Len(sockets) /\ own = [sockets EXCEPT ![k] = s]
      BY <1>1, <1>4 DEF ClosedInBrowser
    <2>2. /\ s \in LogSockets /\ s.browser \in {"closing", "closed"}
          /\ s.handler = sockets[k].handler /\ s.closed = sockets[k].closed
      BY <1>1, <1>2, <2>1 DEF LogSockets
    <2> HIDE DEF s
    <2>3. /\ own \in Seq(LogSockets) /\ Len(own) = Len(sockets)
          /\ \A j \in 1..Len(sockets) : own[j] = IF j = k THEN s ELSE sockets[j]
      BY <1>1, <2>1, <2>2, ExceptSeq
    <2>4. DOMAIN own = DOMAIN sockets
      BY <1>1, <2>3
    <2>5. ASSUME NEW i \in DOMAIN own
          PROVE  /\ own[i].browser \in {"closing", "closed"}
                 /\ own[i].handler = "following" => ~own[i].closed
      BY <1>1, <1>2, <2>1, <2>2, <2>3, <2>4 DEF Heard, LogSockets
    <2>6. sockets # <<>>
      BY <1>1, <2>1
    <2>7. QED
      BY <2>3, <2>4, <2>5, <2>6
  <1>5. QED
    BY <1>3, <1>4

\* Nothing is open, and the page has no socket.
LEMMA ClosingStep ==
  ASSUME LogInv, NEW now \in LogPages, Closing(now),
         now.filters = logPage.filters,
         now.configuration = logPage.configuration,
         ~now.paused => ~logPage.paused
  PROVE  LogInv'
  <1> DEFINE own == ClosedInBrowser(logPage.socket)
  <1>1. /\ own \in Seq(LogSockets) /\ Len(own) = Len(sockets)
        /\ DOMAIN own = DOMAIN sockets
        /\ \A i \in DOMAIN own :
               /\ own[i].browser \in {"closing", "closed"}
               /\ own[i].handler = "following" => ~own[i].closed
        /\ sockets = <<>> => own = <<>>
    BY AllClosed
  <1>2. sockets' = own /\ logShown' = logShown
        /\ logPage' = [now EXCEPT !.socket = NoSocket]
    BY DEF Closing
  <1> HIDE DEF own
  <1>3. /\ logPage' \in LogPages /\ logPage'.socket = NoSocket
        /\ logPage'.filters = logPage.filters
        /\ logPage'.configuration = logPage.configuration
        /\ ~logPage'.paused => ~logPage.paused
    BY <1>2 DEF LogPages
  <1>4. \A i \in DOMAIN sockets' : Heard(sockets', logPage', i)
    BY <1>1, <1>2 DEF Heard
  <1>5. Resting(logPage', sockets', logShown')
    BY <1>1, <1>2, <1>3 DEF LogInv, Resting
  <1>6. QED
    BY <1>1, <1>2, <1>3, <1>4, <1>5 DEF LogInv

\* One socket more, which is the page's.
LEMMA ReconnectStep ==
  ASSUME LogInv, NEW now \in LogPages, Reconnect(now),
         now.socket = logPage.socket,
         now.mounted \/ now.lateConfiguration,
         now.configuration # "ready" => logPage.configuration # "ready",
         now.paused => logPage.paused,
         \/ now.filters = logPage.filters
         \/ now.configuration = logPage.configuration
  PROVE  LogInv'
  <1>0. /\ logPage \in LogPages /\ sockets \in Seq(LogSockets) /\ Len(sockets) \in Nat
        /\ DOMAIN sockets = 1..Len(sockets)
        /\ Resting(logPage, sockets, logShown)
        /\ logPage.socket \in DOMAIN sockets \cup {NoSocket}
    BY DEF LogInv
  <1>1. CASE now.paused \/ now.configuration # "ready"
    <2>1. logPage' = now /\ UNCHANGED <<sockets, logShown>>
      BY <1>1 DEF Reconnect
    <2>2. logPage.paused \/ sockets = <<>>
      BY <1>0, <1>1 DEF Resting
    <2>3. logPage.socket = NoSocket
      BY <1>0, <2>2 DEF Resting
    <2>4. \A i \in DOMAIN sockets : i # NoSocket
      BY <1>0, LogStreamAssumption
    <2>5. \A i \in DOMAIN sockets : Heard(sockets, now, i)
      BY <2>3, <2>4 DEF Heard, LogInv
    <2>6. Resting(now, sockets, logShown)
      BY <1>0, <1>1, <2>3 DEF Resting
    <2>7. QED
      BY <2>1, <2>3, <2>5, <2>6 DEF LogInv
  <1>2. CASE ~(now.paused \/ now.configuration # "ready")
    <2> DEFINE own == ClosedInBrowser(logPage.socket)
               n == Len(sockets)
    <2>1. /\ own \in Seq(LogSockets) /\ Len(own) = n
          /\ DOMAIN own = DOMAIN sockets
          /\ \A i \in DOMAIN own :
               /\ own[i].browser \in {"closing", "closed"}
               /\ own[i].handler = "following" => ~own[i].closed
      BY AllClosed
    <2>2. /\ sockets' = Append(own, NewSocket) /\ logShown' = NoSocket
          /\ logPage' = [now EXCEPT !.connecting = TRUE, !.socket = n + 1]
          /\ n < MaxSockets
      BY <1>2 DEF Reconnect, Reconnected
    <2> HIDE DEF own
    <2>3. /\ NewSocket \in LogSockets /\ NewSocket.browser = "connecting"
          /\ NewSocket.handler = "waiting"
      BY DEF NewSocket, LogSockets
    <2>4. /\ sockets' \in Seq(LogSockets) /\ Len(sockets') = n + 1
          /\ sockets'[n + 1] = NewSocket
          /\ \A i \in 1..n : sockets'[i] = own[i]
      BY <2>1, <2>2, <2>3, AppendProperties
    <2>5. DOMAIN sockets' = 1..(n + 1)
      BY <2>4
    <2>6. n + 1 \in 1..MaxSockets
      BY <1>0, <2>2, LogStreamAssumption
    <2>7. /\ logPage' \in LogPages /\ logPage'.socket = n + 1
          /\ ~logPage'.paused /\ logPage'.configuration = "ready"
          /\ logPage'.mounted = now.mounted
          /\ logPage'.lateConfiguration = now.lateConfiguration
      BY <1>2, <2>2, <2>6 DEF LogPages
    <2>8. ASSUME NEW i \in DOMAIN sockets' PROVE Heard(sockets', logPage', i)
      <3>1. CASE i = n + 1
        BY <2>3, <2>4, <2>7, <3>1 DEF Heard
      <3>2. CASE i # n + 1
        <4>1. i \in 1..n
          BY <1>0, <2>5, <3>2
        <4>2. QED
          BY <1>0, <2>1, <2>4, <4>1 DEF Heard
      <3>3. QED
        BY <3>1, <3>2
    <2>9. Resting(logPage', sockets', logShown')
      BY <2>2, <2>7 DEF Resting
    <2>10. QED
      BY <1>0, <2>2, <2>4, <2>5, <2>6, <2>7, <2>8, <2>9, LogStreamAssumption DEF LogInv
  <1>3. QED
    BY <1>1, <1>2

\* A step of socket i: its new state is s, and the others stay.
LEMMA SocketStep ==
  ASSUME LogInv, NEW i \in DOMAIN sockets, NEW s \in LogSockets,
         sockets' = [sockets EXCEPT ![i] = s],
         logPage' \in LogPages, logPage'.filters = logPage.filters,
         logPage'.socket \in {logPage.socket, NoSocket},
         logPage'.socket # logPage.socket =>
            logPage.socket = i /\ s.browser = "closed",
         logPage'.mounted = logPage.mounted,
         logPage'.paused = logPage.paused,
         logPage'.configuration = logPage.configuration,
         logPage'.lateConfiguration = logPage.lateConfiguration,
         s.browser = "connecting" => sockets[i].browser = "connecting",
         s.browser = "open" =>
            \/ sockets[i].browser = "connecting" /\ s.asked = logPage.filters
            \/ sockets[i].browser = "open" /\ s.asked = sockets[i].asked,
         s.handler = "following" => ~s.closed,
         logShown' = logShown
  PROVE  LogInv'
  <1>1. /\ logPage \in LogPages /\ sockets \in Seq(LogSockets) /\ Len(sockets) \in Nat
        /\ DOMAIN sockets = 1..Len(sockets)
        /\ Resting(logPage, sockets, logShown)
        /\ logPage.socket \in DOMAIN sockets \cup {NoSocket}
        /\ \A j \in DOMAIN sockets : Heard(sockets, logPage, j)
    BY DEF LogInv
  <1>2. /\ sockets' \in Seq(LogSockets) /\ Len(sockets') = Len(sockets)
        /\ \A j \in 1..Len(sockets) : sockets'[j] = IF j = i THEN s ELSE sockets[j]
    BY <1>1, ExceptSeq
  <1>3. DOMAIN sockets' = DOMAIN sockets
    BY <1>1, <1>2
  <1>4. ASSUME NEW j \in DOMAIN sockets' PROVE Heard(sockets', logPage', j)
    <2>1. CASE j = i
      <3>1. sockets'[j] = s
        BY <1>1, <1>2, <2>1
      <3>2. s.browser \in {"connecting", "open"} => logPage'.socket = logPage.socket
        OBVIOUS
      <3>3. QED
        BY <1>1, <2>1, <3>1, <3>2 DEF Heard
    <2>2. CASE j # i
      <3>1. sockets'[j] = sockets[j] /\ j \in DOMAIN sockets
        BY <1>1, <1>2, <1>3, <2>2
      <3>2. logPage.socket = j => logPage'.socket = j
        BY <2>2
      <3>3. QED
        BY <1>1, <3>1, <3>2 DEF Heard
    <2>3. QED
      BY <2>1, <2>2
  <1>5. Resting(logPage', sockets', logShown')
    <2>1. sockets # <<>>
      BY <1>1
    <2>2. QED
      BY <1>1, <2>1 DEF Resting
  <1>6. QED
    BY <1>1, <1>2, <1>3, <1>4, <1>5 DEF LogInv

\* What is known of a socket and of the page.
LEMMA LogFacts ==
  ASSUME LogInv
  PROVE  /\ logPage \in LogPages
         /\ \A i \in DOMAIN sockets :
               /\ sockets[i] \in LogSockets /\ Heard(sockets, logPage, i)
               /\ i # NoSocket
  <1>1. /\ sockets \in Seq(LogSockets) /\ DOMAIN sockets = 1..Len(sockets)
        /\ Len(sockets) \in Nat
    BY DEF LogInv
  <1>2. \A i \in DOMAIN sockets : sockets[i] \in LogSockets
    BY <1>1, ElementOfSeq
  <1>3. QED
    BY <1>1, <1>2, LogStreamAssumption DEF LogInv

\* What the page does without its sockets.
LEMMA LogPageStep ==
  ASSUME LogInv,
         ConfigurationRead \/ ConfigurationFails \/ ChangeFilters \/ TogglePause
         \/ LeavePage
  PROVE  LogInv'
  <1>0. logPage \in LogPages
    BY LogFacts
  <1>1. CASE ConfigurationRead
    <2> DEFINE now == [logPage EXCEPT !.configuration = "ready",
                                      !.lateConfiguration = ~logPage.mounted]
    <2>1. Reconnect(now) /\ logPage.configuration = "loading"
      BY <1>1 DEF ConfigurationRead
    <2>2. /\ now \in LogPages /\ now.socket = logPage.socket
          /\ now.paused = logPage.paused /\ now.configuration = "ready"
          /\ now.filters = logPage.filters
      BY <1>0 DEF LogPages
    <2>3. now.mounted \/ now.lateConfiguration
      BY <1>0 DEF LogPages
    <2> HIDE DEF now
    <2>4. QED
      BY <2>1, <2>2, <2>3, ReconnectStep
  <1>2. CASE ConfigurationFails
    <2>1. /\ logPage' \in LogPages /\ sockets' = sockets /\ logShown' = logShown
          /\ logPage'.socket = logPage.socket /\ logPage'.filters = logPage.filters
          /\ logPage'.paused = logPage.paused /\ logPage'.mounted = logPage.mounted
          /\ logPage'.lateConfiguration = logPage.lateConfiguration
          /\ logPage.configuration # "ready"
      BY <1>0, <1>2 DEF ConfigurationFails, LogPages
    <2>2. \A i \in DOMAIN sockets' : Heard(sockets', logPage', i)
      BY <2>1, LogFacts DEF Heard
    <2>3. Resting(logPage', sockets', logShown')
      BY <2>1 DEF LogInv, Resting
    <2>4. QED
      BY <2>1, <2>2, <2>3 DEF LogInv
  <1>3. CASE ChangeFilters
    <2> DEFINE now == [logPage EXCEPT !.filters = @ + 1]
    <2>1. Reconnect(now) /\ logPage.mounted /\ logPage.filters < MaxChanges
      BY <1>3 DEF ChangeFilters
    <2>2. logPage.filters + 1 \in 0..MaxChanges
      BY <1>0, <2>1, LogStreamAssumption DEF LogPages
    <2>3. /\ now \in LogPages /\ now.socket = logPage.socket
          /\ now.paused = logPage.paused /\ now.mounted
          /\ now.configuration = logPage.configuration
      BY <1>0, <2>1, <2>2 DEF LogPages
    <2> HIDE DEF now
    <2>4. QED
      BY <2>1, <2>3, ReconnectStep
  <1>4. CASE TogglePause /\ logPage.paused
    <2> DEFINE now == [logPage EXCEPT !.paused = FALSE]
    <2>1. Reconnect(now) /\ logPage.mounted
      BY <1>4 DEF TogglePause
    <2>2. /\ now \in LogPages /\ now.socket = logPage.socket
          /\ now.paused = FALSE /\ now.mounted /\ now.filters = logPage.filters
          /\ now.configuration = logPage.configuration
      BY <1>0, <2>1 DEF LogPages
    <2> HIDE DEF now
    <2>3. QED
      BY <2>1, <2>2, ReconnectStep
  <1>5. CASE TogglePause /\ ~logPage.paused
    <2> DEFINE now == [logPage EXCEPT !.paused = TRUE]
    <2>1. Closing(now)
      BY <1>5 DEF TogglePause
    <2>2. /\ now \in LogPages /\ now.paused = TRUE /\ now.filters = logPage.filters
          /\ now.configuration = logPage.configuration
      BY <1>0 DEF LogPages
    <2> HIDE DEF now
    <2>3. QED
      BY <2>1, <2>2, ClosingStep
  <1>6. CASE LeavePage
    <2> DEFINE now == [logPage EXCEPT !.mounted = FALSE]
    <2>1. Closing(now)
      BY <1>6 DEF LeavePage, Left
    <2>2. /\ now \in LogPages /\ now.paused = logPage.paused
          /\ now.filters = logPage.filters
          /\ now.configuration = logPage.configuration
      BY <1>0 DEF LogPages
    <2> HIDE DEF now
    <2>3. QED
      BY <2>1, <2>2, ClosingStep
  <1>7. QED
    BY <1>1, <1>2, <1>3, <1>4, <1>5, <1>6

\* What happens at the two ends of a socket.
LEMMA LogSocketStep ==
  ASSUME LogInv, NEW i \in DOMAIN sockets,
         \/ SocketOpens(i) \/ SocketCloses(i) \/ MessageArrives(i)
         \/ StreamStarts(i) \/ StreamFails(i) \/ StreamEnds(i)
         \/ HandlerSeesClose(i) \/ LineArrives(i)
  PROVE  LogInv'
  <1> DEFINE old == sockets[i]
  <1>0. /\ logPage \in LogPages /\ sockets[i] \in LogSockets /\ i # NoSocket
        /\ Heard(sockets, logPage, i)
    BY LogFacts
  <1>1. CASE SocketOpens(i)
    <2> DEFINE s == [old EXCEPT !.browser = "open", !.asked = logPage.filters]
    <2>1. /\ sockets' = [sockets EXCEPT ![i] = s] /\ old.browser = "connecting"
          /\ logPage' = [logPage EXCEPT !.connecting = FALSE] /\ logShown' = logShown
      BY <1>1 DEF SocketOpens
    <2>2. /\ s \in LogSockets /\ s.browser = "open" /\ s.asked = logPage.filters
          /\ s.handler = old.handler /\ s.closed = old.closed
      BY <1>0 DEF LogSockets, LogPages
    <2>3. /\ logPage' \in LogPages /\ logPage'.filters = logPage.filters
          /\ logPage'.socket = logPage.socket /\ logPage'.mounted = logPage.mounted
          /\ logPage'.paused = logPage.paused
          /\ logPage'.configuration = logPage.configuration
          /\ logPage'.lateConfiguration = logPage.lateConfiguration
      BY <1>0, <2>1 DEF LogPages
    <2>4. s.handler = "following" => ~s.closed
      BY <1>0, <2>2 DEF Heard
    <2> HIDE DEF s
    <2>5. QED
      BY <2>1, <2>2, <2>3, <2>4, SocketStep
  <1>2. CASE SocketCloses(i)
    <2> DEFINE s == [old EXCEPT !.browser = "closed"]
    <2>1. /\ sockets' = [sockets EXCEPT ![i] = s] /\ logShown' = logShown
          /\ logPage' = IF logPage.socket = i
                        THEN [logPage EXCEPT !.connecting = FALSE, !.socket = NoSocket]
                        ELSE logPage
      BY <1>2 DEF SocketCloses
    <2>2. /\ s \in LogSockets /\ s.browser = "closed"
          /\ s.handler = old.handler /\ s.closed = old.closed
      BY <1>0 DEF LogSockets
    <2>3. /\ logPage' \in LogPages /\ logPage'.filters = logPage.filters
          /\ logPage'.socket \in {logPage.socket, NoSocket}
          /\ logPage'.socket # logPage.socket => logPage.socket = i
          /\ logPage'.mounted = logPage.mounted
          /\ logPage'.paused = logPage.paused
          /\ logPage'.configuration = logPage.configuration
          /\ logPage'.lateConfiguration = logPage.lateConfiguration
      BY <1>0, <2>1 DEF LogPages
    <2>4. s.handler = "following" => ~s.closed
      BY <1>0, <2>2 DEF Heard
    <2> HIDE DEF s
    <2>5. QED
      BY <2>1, <2>2, <2>3, <2>4, SocketStep
  <1>3. CASE MessageArrives(i) \/ StreamStarts(i)
    <2> DEFINE step == IF MessageArrives(i) THEN "starting"
                       ELSE IF old.closed THEN "over" ELSE "following"
               s == [old EXCEPT !.handler = step]
    <2>1. /\ sockets' = [sockets EXCEPT ![i] = s] /\ logShown' = logShown
          /\ logPage' = logPage
      BY <1>3 DEF MessageArrives, StreamStarts, StoppedIfLeft
    <2>2. /\ step \in {"starting", "over", "following"}
          /\ step = "following" => ~old.closed
      OBVIOUS
    <2> HIDE DEF step
    <2>3. /\ s \in LogSockets /\ s.browser = old.browser /\ s.asked = old.asked
          /\ s.handler = "following" => ~s.closed
      BY <1>0, <2>2 DEF LogSockets
    <2> HIDE DEF s
    <2>4. QED
      BY <1>0, <2>1, <2>3, SocketStep
  <1>4. CASE StreamFails(i) \/ StreamEnds(i)
    <2> DEFINE s == [old EXCEPT !.handler = "over",
                                !.browser = IF @ = "open" THEN "closing" ELSE @]
    <2>1. /\ sockets' = [sockets EXCEPT ![i] = s] /\ logShown' = logShown
          /\ logPage' = logPage
      BY <1>4 DEF StreamFails, StreamEnds, ServerEnds
    <2>2. /\ s \in LogSockets /\ s.handler = "over" /\ s.browser # "open"
          /\ s.browser = "connecting" => old.browser = "connecting"
      BY <1>0 DEF LogSockets
    <2> HIDE DEF s
    <2>3. QED
      BY <1>0, <2>1, <2>2, SocketStep
  <1>5. CASE HandlerSeesClose(i)
    <2> DEFINE s == [old EXCEPT !.closed = TRUE,
                                !.handler = IF @ = "following" THEN "over" ELSE @]
    <2>1. /\ sockets' = [sockets EXCEPT ![i] = s] /\ logShown' = logShown
          /\ logPage' = logPage
      BY <1>5 DEF HandlerSeesClose
    <2>2. /\ s \in LogSockets /\ s.handler # "following" /\ s.browser = old.browser
          /\ s.asked = old.asked
      BY <1>0 DEF LogSockets
    <2> HIDE DEF s
    <2>3. QED
      BY <1>0, <2>1, <2>2, SocketStep
  <1>6. CASE LineArrives(i)
    <2>1. /\ logPage' = logPage /\ sockets' = sockets /\ logShown' = old.asked
          /\ old.browser = "open"
      BY <1>6 DEF LineArrives
    <2>2. logPage.socket = i /\ old.asked = logPage.filters
      BY <1>0, <2>1 DEF Heard
    <2>3. Resting(logPage, sockets, logShown')
      BY <1>0, <2>1, <2>2 DEF LogInv, Resting
    <2>4. logShown' \in 0..MaxChanges
      BY <1>0, <2>1, <2>2 DEF LogPages
    <2>5. QED
      BY <2>1, <2>3, <2>4 DEF LogInv
  <1>7. QED
    BY <1>1, <1>2, <1>3, <1>4, <1>5, <1>6

LEMMA LogNextInv == ASSUME LogInv, LogNext PROVE LogInv'
  BY LogPageStep, LogSocketStep DEF LogNext

\* Once the page was left it has no socket, so none of them changes it.
LEMMA LogRests == ASSUME LogInv, LogNext PROVE LeftLogRests
  <1> SUFFICES ASSUME ~logPage.mounted, ~logPage'.lateConfiguration
               PROVE  /\ logPage' = [logPage EXCEPT
                                        !.configuration = logPage'.configuration]
                      /\ Len(sockets') = Len(sockets) /\ logShown' = logShown
    BY DEF LeftLogRests
  <1>1. /\ logPage \in LogPages /\ sockets \in Seq(LogSockets)
        /\ \A i \in DOMAIN sockets : Heard(sockets, logPage, i) /\ i # NoSocket
        /\ ~logPage.lateConfiguration => logPage.socket = NoSocket
    <2>1. DOMAIN sockets \subseteq Nat
      BY DEF LogInv
    <2>2. QED
      BY <2>1, LogStreamAssumption DEF LogInv, Resting
  <1>2. logPage' = logPage =>
          logPage' = [logPage EXCEPT !.configuration = logPage'.configuration]
    BY <1>1 DEF LogPages
  <1>3. CASE ConfigurationRead
    <2>1. logPage'.lateConfiguration
      BY <1>1, <1>3 DEF ConfigurationRead, Reconnect, Reconnected, LogPages
    <2>2. QED
      BY <2>1
  <1>4. CASE ConfigurationFails
    BY <1>1, <1>4 DEF ConfigurationFails, LogPages
  <1>5. ASSUME NEW i \in DOMAIN sockets, SocketOpens(i) \/ SocketCloses(i)
        PROVE  logPage' = logPage /\ Len(sockets') = Len(sockets)
               /\ logShown' = logShown
    <2>1. Len(sockets') = Len(sockets) /\ logShown' = logShown
      BY <1>1, <1>5 DEF SocketOpens, SocketCloses
    <2>2. logPage'.lateConfiguration = logPage.lateConfiguration
      BY <1>1, <1>5 DEF SocketOpens, SocketCloses, LogPages
    <2>3. logPage.socket # i
      BY <1>1, <2>2
    <2>4. ~SocketOpens(i)
      BY <1>1, <2>3 DEF SocketOpens, Heard
    <2>5. QED
      BY <1>5, <2>1, <2>3, <2>4 DEF SocketCloses
  <1>6. ASSUME NEW i \in DOMAIN sockets, LineArrives(i) PROVE FALSE
    <2>1. logPage.socket = i /\ logPage' = logPage
      BY <1>1, <1>6 DEF LineArrives, Heard
    <2>2. QED
      BY <1>1, <2>1
  <1>7. ASSUME NEW i \in DOMAIN sockets,
               \/ MessageArrives(i) \/ StreamStarts(i) \/ StreamFails(i)
               \/ StreamEnds(i) \/ HandlerSeesClose(i)
        PROVE  logPage' = logPage /\ Len(sockets') = Len(sockets)
               /\ logShown' = logShown
    BY <1>1, <1>7 DEF MessageArrives, StreamStarts, StreamFails, StreamEnds,
                      ServerEnds, HandlerSeesClose
  <1>8. QED
    BY <1>2, <1>3, <1>4, <1>5, <1>6, <1>7
       DEF LogNext, ChangeFilters, TogglePause, LeavePage

LEMMA LogsAreHeeded ==
  LogInv => LogTypeOK /\ LogsFollowTheFilters /\ NoLogIsFollowedForNobody
  <1> SUFFICES ASSUME LogInv
               PROVE  LogTypeOK /\ LogsFollowTheFilters /\ NoLogIsFollowedForNobody
    OBVIOUS
  <1>1. LogTypeOK
    BY LogFacts DEF LogInv, LogTypeOK, LogPages, LogSockets
  <1>2. LogsFollowTheFilters
    BY LogFacts DEF LogInv, LogsFollowTheFilters, Heard, Resting
  <1>3. \A i \in DOMAIN sockets : sockets[i].handler = "following" => ~sockets[i].closed
    BY LogFacts DEF Heard
  <1>4. ASSUME ~logPage.mounted, ~logPage.lateConfiguration, NEW i \in DOMAIN sockets
        PROVE  sockets[i].browser \in {"closing", "closed"}
    <2>1. logPage.socket = NoSocket
      BY <1>4 DEF LogInv, Resting
    <2>2. sockets[i].browser \notin {"connecting", "open"}
      BY <2>1, LogFacts DEF Heard
    <2>3. QED
      BY <2>2, LogFacts DEF LogSockets
  <1>5. QED
    BY <1>1, <1>2, <1>3, <1>4 DEF NoLogIsFollowedForNobody

------------------------------------------------------------------------------
(* The pages of a task.                                                   *)

\* Requests are told by their numbers; the last one, and none but it, may be of
\* the page as it is, which is busy exactly while it waits for it.
Numbered(now, asked) ==
    /\ asked \subseteq [nr : 1..MaxRequests, task : Tasks,
                        of : {"task", "service", "stats"}]
    /\ \A one, other \in asked : one.nr = other.nr => one = other
    /\ \A request \in asked :
          /\ request.nr <= now.requestSequence
          /\ request.nr = now.requestSequence =>
                now.mounted /\ request.task = now.task
    /\ now.mounted => (now.loading <=> \E request \in asked :
                                          request.nr = now.requestSequence)

\* What may stand for the service of a task.
NamesOf(task) == {<<>>, <<"id", task>>, <<"name", task>>}
ServiceNames == UNION {NamesOf(task) : task \in Tasks}

InspectPages ==
    [mounted : BOOLEAN, task : Tasks, requestSequence : Nat, loading : BOOLEAN,
     failed : BOOLEAN, inspection : Tasks \cup {NoTask},
     serviceName : ServiceNames]

\* What is shown is of the task in the address.
OfItsTask(now) ==
    /\ now.inspection \in {NoTask, now.task}
    /\ now.serviceName \in NamesOf(now.task)

InspectInv ==
    /\ statisticsPage = NoStatistics
    /\ inspectPage \in InspectPages
    /\ Numbered(inspectPage, requests) /\ OfItsTask(inspectPage)

\* A load: one number more, and one request with it.
LEMMA NumberedLoad ==
  ASSUME NEW old, NEW now, NEW asked, NEW what \in {"task", "service", "stats"},
         NEW all,
         Numbered(old, asked),
         old.requestSequence \in Nat, old.requestSequence < MaxRequests,
         now.requestSequence = old.requestSequence + 1,
         now.mounted, now.loading, now.task \in Tasks,
         all = asked \cup {Request(now, what)}
  PROVE  Numbered(now, all)
  <1> DEFINE r == Request(now, what)
  <1>0. MaxRequests \in Nat
    BY TaskPagesAssumption
  <1>1. /\ r.nr = now.requestSequence /\ r.task = now.task /\ r.of = what
        /\ r \in [nr : 1..MaxRequests, task : Tasks, of : {"task", "service", "stats"}]
    BY <1>0 DEF Request
  <1> HIDE DEF r
  <1>2. \A other \in asked : other.nr \in 1..MaxRequests /\ other.nr < r.nr
    BY <1>0, <1>1 DEF Numbered
  <1>3. all \subseteq [nr : 1..MaxRequests, task : Tasks, of : {"task", "service", "stats"}]
    BY <1>1 DEF Numbered, r
  <1>4. \A x \in all : x = r \/ x \in asked
    BY DEF r
  <1>5. \A one, other \in all : one.nr = other.nr => one = other
    BY <1>1, <1>2, <1>4 DEF Numbered
  <1>6. \A request \in all :
          /\ request.nr <= now.requestSequence
          /\ request.nr = now.requestSequence => now.mounted /\ request.task = now.task
    BY <1>1, <1>2, <1>4
  <1>7. \E request \in all : request.nr = now.requestSequence
    BY <1>1 DEF r
  <1>8. QED
    BY <1>3, <1>5, <1>6, <1>7 DEF Numbered

\* An answer that is not the last request's: the page stays.
LEMMA NumberedLate ==
  ASSUME NEW now, NEW asked, NEW request \in asked, Numbered(now, asked),
         ~Current(request, now)
  PROVE  Numbered(now, asked \ {request})
  BY DEF Numbered, Current

\* The last request is answered, and the page is not busy any more.
LEMMA NumberedDone ==
  ASSUME NEW old, NEW now, NEW asked, NEW request \in asked, Numbered(old, asked),
         Current(request, old), now.requestSequence = old.requestSequence,
         now.mounted = old.mounted, now.task = old.task, ~now.loading
  PROVE  Numbered(now, asked \ {request})
  BY DEF Numbered, Current

\* Another question takes its place.
LEMMA NumberedOn ==
  ASSUME NEW old, NEW now, NEW asked, NEW request \in asked, Numbered(old, asked),
         Current(request, old), now.requestSequence = old.requestSequence,
         now.mounted = old.mounted, now.task = old.task,
         now.loading = old.loading,
         NEW next, next = [request EXCEPT !.of = "service"]
  PROVE  Numbered(now, (asked \ {request}) \cup {next})
  <1>1. request \in [nr : 1..MaxRequests, task : Tasks, of : {"task", "service", "stats"}]
    BY DEF Numbered
  <1>2. /\ next \in [nr : 1..MaxRequests, task : Tasks, of : {"task", "service", "stats"}]
        /\ next.nr = request.nr /\ next.task = request.task
    BY <1>1
  <1>3. QED
    BY <1>2 DEF Numbered, Current

\* A page that is left has asked for nothing more.
LEMMA NumberedLeft ==
  ASSUME NEW old, NEW now, NEW asked, Numbered(old, asked),
         old.requestSequence \in Nat,
         now.requestSequence = old.requestSequence + 1, ~now.mounted
  PROVE  Numbered(now, asked)
  <1>0. MaxRequests \in Nat
    BY TaskPagesAssumption
  <1>1. \A request \in asked : request.nr \in 1..MaxRequests
                               /\ request.nr <= old.requestSequence
    BY DEF Numbered
  <1>2. \A request \in asked : request.nr <= now.requestSequence
                               /\ request.nr # now.requestSequence
    BY <1>0, <1>1
  <1>3. QED
    BY <1>2 DEF Numbered

-----------------------------------------------------------------------------
\* The first load of a page.
LEMMA NumberedFirst ==
  ASSUME NEW now, NEW what \in {"task", "service", "stats"},
         now.requestSequence = 1, now.mounted, now.loading, now.task \in Tasks
  PROVE  Numbered(now, {Request(now, what)})
  <1> DEFINE r == Request(now, what)
  <1>0. MaxRequests \in Nat /\ 1 \in 1..MaxRequests
    BY TaskPagesAssumption
  <1>1. /\ r.nr = now.requestSequence /\ r.task = now.task
        /\ r \in [nr : 1..MaxRequests, task : Tasks, of : {"task", "service", "stats"}]
    BY <1>0 DEF Request
  <1> HIDE DEF r
  <1>2. QED
    BY <1>1 DEF Numbered, r

LEMMA NamesFacts ==
  ASSUME NEW task \in Tasks
  PROVE  /\ NamesOf(task) \subseteq ServiceNames
         /\ <<>> \in NamesOf(task) /\ <<"id", task>> \in NamesOf(task)
         /\ <<"name", task>> \in NamesOf(task)
  <1>1. NamesOf(task) \subseteq ServiceNames
    BY DEF ServiceNames
  <1>2. /\ <<>> \in NamesOf(task) /\ <<"id", task>> \in NamesOf(task)
        /\ <<"name", task>> \in NamesOf(task)
    BY DEF NamesOf
  <1>3. QED
    BY <1>1, <1>2

LEMMA InspectInitInv == InspectInit => InspectInv
  <1> SUFFICES ASSUME InspectInit PROVE InspectInv
    OBVIOUS
  <1>1. PICK task \in Tasks :
           /\ inspectPage = Asked(NewInspect(task))
           /\ requests = {Request(Asked(NewInspect(task)), "task")}
    BY DEF InspectInit
  <1>2. /\ inspectPage \in InspectPages /\ inspectPage.requestSequence = 1
        /\ inspectPage.mounted /\ inspectPage.loading /\ inspectPage.task = task
        /\ OfItsTask(inspectPage)
    <2> DEFINE none == <<>>
               start == NewInspect(task)
    <2>1. none \in NamesOf(task) /\ none \in ServiceNames
      BY NamesFacts
    <2>2. start = [mounted |-> TRUE, task |-> task, requestSequence |-> 0,
                   loading |-> FALSE, failed |-> FALSE, inspection |-> NoTask,
                   serviceName |-> none]
      BY DEF NewInspect, none
    <2>3. inspectPage = [start EXCEPT !.requestSequence = start.requestSequence + 1,
                                      !.loading = TRUE, !.failed = FALSE]
      BY <1>1 DEF Asked
    <2> HIDE DEF none, start
    <2>4. start \in InspectPages /\ OfItsTask(start) /\ start.mounted
          /\ start.task = task /\ start.requestSequence + 1 = 1
      BY <2>1, <2>2 DEF InspectPages, OfItsTask
    <2>5. inspectPage = [start EXCEPT !.requestSequence = 1, !.loading = TRUE,
                                      !.failed = FALSE]
      BY <2>3, <2>4
    <2>6. /\ inspectPage \in InspectPages /\ inspectPage.requestSequence = 1
          /\ inspectPage.mounted /\ inspectPage.loading /\ inspectPage.task = task
          /\ inspectPage.inspection = start.inspection
          /\ inspectPage.serviceName = start.serviceName
      BY <2>4, <2>5 DEF InspectPages
    <2>7. QED
      BY <2>4, <2>6 DEF OfItsTask
  <1>3. Numbered(inspectPage, requests)
    BY <1>1, <1>2, NumberedFirst
  <1>4. QED
    BY <1>2, <1>3 DEF InspectInv, InspectInit

LEMMA LoadInspectStep ==
  ASSUME InspectInv, NEW now \in InspectPages, OfItsTask(now), now.mounted,
         now.requestSequence = inspectPage.requestSequence, LoadInspect(now)
  PROVE  InspectInv'
  <1>1. /\ inspectPage' = Asked(now) /\ statisticsPage' = statisticsPage
        /\ requests' = requests \cup {Request(inspectPage', "task")}
        /\ now.requestSequence < MaxRequests /\ now.requestSequence \in Nat
    BY DEF LoadInspect, InspectPages
  <1>2. /\ inspectPage' \in InspectPages /\ inspectPage'.mounted /\ inspectPage'.loading
        /\ inspectPage'.requestSequence = now.requestSequence + 1
        /\ inspectPage'.task \in Tasks /\ OfItsTask(inspectPage')
    <2>1. inspectPage' = [now EXCEPT !.requestSequence = @ + 1, !.loading = TRUE,
                                     !.failed = FALSE]
      BY <1>1 DEF Asked
    <2>2. now.requestSequence + 1 \in Nat
      BY <1>1
    <2>3. /\ inspectPage' \in InspectPages /\ inspectPage'.mounted /\ inspectPage'.loading
          /\ inspectPage'.requestSequence = now.requestSequence + 1
          /\ inspectPage'.task = now.task /\ now.task \in Tasks
          /\ inspectPage'.inspection = now.inspection
          /\ inspectPage'.serviceName = now.serviceName
      BY <2>1, <2>2 DEF InspectPages
    <2>4. QED
      BY <2>3 DEF OfItsTask
  <1>3. Numbered(inspectPage, requests)
    BY DEF InspectInv
  <1>4. Numbered(inspectPage', requests')
    BY <1>1, <1>2, <1>3, NumberedLoad
  <1>5. QED
    BY <1>1, <1>2, <1>4 DEF InspectInv

LEMMA InspectAnswerStep ==
  ASSUME InspectInv, NEW request \in requests,
         \/ TaskRead(request) \/ TaskNotRead(request)
         \/ \E found \in BOOLEAN : ServiceRead(request, found)
  PROVE  InspectInv'
  <1>1. /\ inspectPage \in InspectPages /\ Numbered(inspectPage, requests)
        /\ OfItsTask(inspectPage) /\ statisticsPage' = statisticsPage
        /\ request.task \in Tasks
    BY DEF InspectInv, TaskRead, TaskNotRead, ServiceRead, InspectAnswered, Numbered
  <1>2. CASE ~Current(request, inspectPage)
    <2>1. inspectPage' = inspectPage /\ requests' = requests \ {request}
      BY <1>2 DEF TaskRead, TaskNotRead, ServiceRead, InspectAnswered
    <2>2. QED
      BY <1>1, <1>2, <2>1, NumberedLate DEF InspectInv
  <1>3. CASE Current(request, inspectPage)
    <2>0. inspectPage.task = request.task
      BY <1>1, <1>3 DEF Numbered, Current
    <2> DEFINE read == [inspectPage EXCEPT !.inspection = request.task,
                                           !.serviceName = <<"id", request.task>>]
    <2>1. ASSUME TaskRead(request) PROVE InspectInv'
      <3>1. \/ InspectAnswered(request, read, {[request EXCEPT !.of = "service"]})
            \/ InspectAnswered(request, [read EXCEPT !.serviceName = <<>>,
                                                     !.loading = FALSE], {})
        BY <1>3, <2>1 DEF TaskRead
      <3>2. /\ read \in InspectPages /\ OfItsTask(read)
            /\ read.requestSequence = inspectPage.requestSequence
            /\ read.mounted = inspectPage.mounted /\ read.task = inspectPage.task
            /\ read.loading = inspectPage.loading
        <4> DEFINE name == <<"id", request.task>>
        <4>1. /\ name \in NamesOf(inspectPage.task) /\ name \in ServiceNames
          BY <1>1, <2>0, NamesFacts
        <4>2. read = [inspectPage EXCEPT !.inspection = request.task,
                                         !.serviceName = name]
          OBVIOUS
        <4> HIDE DEF name, read
        <4>3. /\ read \in InspectPages
              /\ read.inspection = request.task /\ read.serviceName = name
              /\ read.requestSequence = inspectPage.requestSequence
              /\ read.mounted = inspectPage.mounted /\ read.task = inspectPage.task
              /\ read.loading = inspectPage.loading
          BY <1>1, <4>1, <4>2 DEF InspectPages
        <4>4. QED
          BY <2>0, <4>1, <4>3 DEF OfItsTask
      <3> HIDE DEF read
      <3>3. CASE InspectAnswered(request, read, {[request EXCEPT !.of = "service"]})
        <4>1. /\ inspectPage' = read
              /\ requests' = (requests \ {request}) \cup {[request EXCEPT !.of = "service"]}
          BY <3>3 DEF InspectAnswered
        <4>2. Numbered(read, requests')
          BY <1>1, <1>3, <3>2, <4>1, NumberedOn
        <4>3. QED
          BY <1>1, <3>2, <4>1, <4>2 DEF InspectInv
      <3>4. CASE InspectAnswered(request, [read EXCEPT !.serviceName = <<>>,
                                                       !.loading = FALSE], {})
        <4>1. /\ inspectPage' = [read EXCEPT !.serviceName = <<>>, !.loading = FALSE]
              /\ requests' = requests \ {request}
          BY <3>4 DEF InspectAnswered
        <4>2. /\ inspectPage' \in InspectPages /\ OfItsTask(inspectPage')
              /\ inspectPage'.requestSequence = inspectPage.requestSequence
              /\ inspectPage'.mounted = inspectPage.mounted
              /\ inspectPage'.task = inspectPage.task /\ ~inspectPage'.loading
          <5> DEFINE none == <<>>
          <5>1. none \in NamesOf(read.task) /\ none \in ServiceNames
            BY <1>1, <2>0, <3>2, NamesFacts
          <5>2. inspectPage' = [read EXCEPT !.serviceName = none, !.loading = FALSE]
            BY <4>1
          <5> HIDE DEF none
          <5>3. QED
            BY <3>2, <5>1, <5>2 DEF InspectPages, OfItsTask
        <4>3. Numbered(inspectPage', requests')
          BY <1>1, <1>3, <4>1, <4>2, NumberedDone
        <4>4. QED
          BY <1>1, <4>2, <4>3 DEF InspectInv
      <3>5. QED
        BY <3>1, <3>3, <3>4
    <2>2. ASSUME TaskNotRead(request) \/ \E found \in BOOLEAN : ServiceRead(request, found)
          PROVE  InspectInv'
      <3> DEFINE name == <<"name", request.task>>
      <3>0. /\ name \in NamesOf(inspectPage.task)
            /\ inspectPage.serviceName \in NamesOf(inspectPage.task)
        BY <1>1, <2>0, NamesFacts DEF OfItsTask
      <3>1. /\ requests' = requests \ {request}
            /\ \E said \in NamesOf(inspectPage.task), bad \in BOOLEAN :
                  inspectPage' = [inspectPage EXCEPT !.failed = bad, !.loading = FALSE,
                                                     !.serviceName = said]
        <4>1. CASE TaskNotRead(request)
          <5>1. /\ requests' = requests \ {request}
                /\ inspectPage' = [inspectPage EXCEPT !.failed = TRUE, !.loading = FALSE]
            BY <1>3, <4>1 DEF TaskNotRead, InspectAnswered
          <5>2. inspectPage' = [inspectPage EXCEPT !.failed = TRUE, !.loading = FALSE,
                                  !.serviceName = inspectPage.serviceName]
            BY <1>1, <5>1 DEF InspectPages
          <5>3. QED
            BY <3>0, <5>1, <5>2
        <4>2. ASSUME NEW found \in BOOLEAN, ServiceRead(request, found)
              PROVE  /\ requests' = requests \ {request}
                     /\ \E said \in NamesOf(inspectPage.task), bad \in BOOLEAN :
                           inspectPage' = [inspectPage EXCEPT !.failed = bad,
                                             !.loading = FALSE, !.serviceName = said]
          <5> DEFINE said == IF found THEN name ELSE inspectPage.serviceName
          <5>1. /\ requests' = requests \ {request}
                /\ inspectPage' = [inspectPage EXCEPT !.loading = FALSE,
                                                      !.serviceName = said]
            BY <1>3, <4>2 DEF ServiceRead, InspectAnswered
          <5>2. said \in NamesOf(inspectPage.task) /\ inspectPage.failed \in BOOLEAN
            BY <1>1, <3>0 DEF InspectPages
          <5> HIDE DEF said
          <5>3. inspectPage' = [inspectPage EXCEPT !.failed = inspectPage.failed,
                                  !.loading = FALSE, !.serviceName = said]
            BY <1>1, <5>1 DEF InspectPages
          <5>4. QED
            BY <5>1, <5>2, <5>3
        <4>4. QED
          BY <2>2, <4>1, <4>2
      <3>2. /\ inspectPage' \in InspectPages /\ OfItsTask(inspectPage')
            /\ inspectPage'.requestSequence = inspectPage.requestSequence
            /\ inspectPage'.mounted = inspectPage.mounted
            /\ inspectPage'.task = inspectPage.task /\ ~inspectPage'.loading
        <4>1. PICK said \in NamesOf(inspectPage.task), bad \in BOOLEAN :
                 inspectPage' = [inspectPage EXCEPT !.failed = bad, !.loading = FALSE,
                                                    !.serviceName = said]
          BY <3>1
        <4>2. said \in ServiceNames
          BY <1>1, <2>0, NamesFacts
        <4>3. QED
          BY <1>1, <4>1, <4>2 DEF InspectPages, OfItsTask
      <3>3. Numbered(inspectPage', requests')
        BY <1>1, <1>3, <3>1, <3>2, NumberedDone
      <3>4. QED
        BY <1>1, <3>2, <3>3 DEF InspectInv
    <2>3. QED
      BY <2>1, <2>2
  <1>4. QED
    BY <1>2, <1>3

LEMMA InspectNextInv == ASSUME InspectInv, InspectNext PROVE InspectInv'
  <1>0. inspectPage \in InspectPages /\ OfItsTask(inspectPage)
        /\ Numbered(inspectPage, requests)
    BY DEF InspectInv
  <1>1. CASE RefreshInspect
    BY <1>0, <1>1, LoadInspectStep DEF RefreshInspect
  <1>2. ASSUME NEW task \in Tasks, OtherTaskInspect(task) PROVE InspectInv'
    <2> DEFINE none == <<>>
               now == [inspectPage EXCEPT !.task = task, !.inspection = NoTask,
                                          !.serviceName = none]
    <2>1. LoadInspect(now) /\ inspectPage.mounted
      BY <1>2 DEF OtherTaskInspect
    <2>2. /\ now \in InspectPages /\ OfItsTask(now) /\ now.mounted
          /\ now.requestSequence = inspectPage.requestSequence
      <3>1. none \in NamesOf(task) /\ none \in ServiceNames
        BY NamesFacts
      <3> HIDE DEF none
      <3>2. QED
        BY <1>0, <2>1, <3>1 DEF InspectPages, OfItsTask
    <2> HIDE DEF now
    <2>3. QED
      BY <2>1, <2>2, LoadInspectStep
  <1>3. CASE LeaveInspect
    <2>1. /\ inspectPage' = [inspectPage EXCEPT !.mounted = FALSE, !.requestSequence = @ + 1]
          /\ requests' = requests /\ statisticsPage' = statisticsPage
      BY <1>3 DEF LeaveInspect, InspectLeft
    <2>2. /\ inspectPage' \in InspectPages /\ OfItsTask(inspectPage')
          /\ inspectPage'.requestSequence = inspectPage.requestSequence + 1
          /\ ~inspectPage'.mounted /\ inspectPage.requestSequence \in Nat
      <3>1. inspectPage.requestSequence + 1 \in Nat /\ inspectPage.requestSequence \in Nat
        BY <1>0 DEF InspectPages
      <3>2. /\ inspectPage' \in InspectPages
            /\ inspectPage'.requestSequence = inspectPage.requestSequence + 1
            /\ ~inspectPage'.mounted /\ inspectPage'.task = inspectPage.task
            /\ inspectPage'.inspection = inspectPage.inspection
            /\ inspectPage'.serviceName = inspectPage.serviceName
        BY <1>0, <2>1, <3>1 DEF InspectPages
      <3>3. QED
        BY <1>0, <3>1, <3>2 DEF OfItsTask
    <2>3. Numbered(inspectPage', requests)
      BY <1>0, <2>2, NumberedLeft
    <2>4. QED
      BY <2>1, <2>2, <2>3 DEF InspectInv
  <1>4. QED
    BY <1>1, <1>2, <1>3, InspectAnswerStep DEF InspectNext

\* An inspection page that was left changes no more.
LEMMA InspectRests ==
  ASSUME InspectInv, InspectNext PROVE LeftPagesRest
  <1>1. UNCHANGED statisticsPage
    BY DEF InspectNext, RefreshInspect, OtherTaskInspect, LoadInspect, TaskRead,
           TaskNotRead, ServiceRead, InspectAnswered, LeaveInspect
  <1>2. ASSUME ~inspectPage.mounted PROVE inspectPage' = inspectPage
    <2>1. ASSUME NEW request \in requests PROVE ~Current(request, inspectPage)
      BY <1>2, <2>1 DEF InspectInv, Numbered, Current
    <2>2. QED
      BY <1>2, <2>1 DEF InspectNext, RefreshInspect, OtherTaskInspect, TaskRead,
                        TaskNotRead, ServiceRead, InspectAnswered, LeaveInspect
  <1>3. QED
    BY <1>1, <1>2 DEF LeftPagesRest

-----------------------------------------------------------------------------
\* The samples a page of a task may show.
SamplesOf(task) ==
    {s \in Seq(Tasks) : Len(s) <= SampleLimit /\ \A i \in 1..Len(s) : s[i] = task}

StatisticsPages ==
    [mounted : BOOLEAN, task : Tasks, requestSequence : Nat, loading : BOOLEAN,
     failed : BOOLEAN, samples : Seq(Tasks), autoRefresh : BOOLEAN,
     pollTimer : BOOLEAN]

\* A page that refreshes itself waits for an answer or for its timer.
Polls(now) ==
    IF now.mounted /\ now.autoRefresh THEN now.pollTimer <=> ~now.loading
    ELSE ~now.pollTimer

StatisticsInv ==
    /\ inspectPage = NoInspect
    /\ statisticsPage \in StatisticsPages
    /\ statisticsPage.samples \in SamplesOf(statisticsPage.task)
    /\ Numbered(statisticsPage, requests) /\ Polls(statisticsPage)

LEMMA NoSamples ==
  ASSUME NEW task PROVE <<>> \in SamplesOf(task) /\ <<>> \in Seq(Tasks)
  <1> DEFINE e == <<>>
  <1>1. e \in Seq(Tasks) /\ Len(e) = 0 /\ SampleLimit \in Nat
    BY TaskPagesAssumption
  <1> HIDE DEF e
  <1>2. e \in SamplesOf(task)
    BY <1>1 DEF SamplesOf
  <1>3. QED
    BY <1>1, <1>2 DEF e

\* appendStatisticsSample keeps to the limit.
LEMMA SampleAppended ==
  ASSUME NEW task \in Tasks, NEW samples \in SamplesOf(task)
  PROVE  Appended(samples, task) \in SamplesOf(task)
  <1> DEFINE n == Len(samples)
             all == Append(samples, task)
  <1>1. /\ samples \in Seq(Tasks) /\ n \in Nat /\ n <= SampleLimit
        /\ \A i \in 1..n : samples[i] = task
        /\ SampleLimit \in Nat \ {0}
    BY TaskPagesAssumption DEF SamplesOf
  <1>2. /\ all \in Seq(Tasks) /\ Len(all) = n + 1 /\ all[n + 1] = task
        /\ \A i \in 1..n : all[i] = samples[i]
    BY <1>1, AppendProperties
  <1>3. \A i \in 1..(n + 1) : all[i] = task
    BY <1>1, <1>2
  <1> HIDE DEF all
  <1>4. CASE Len(all) > SampleLimit
    <2>1. all # <<>>
      BY <1>1, <1>2
    <2>2. /\ Tail(all) \in Seq(Tasks) /\ Len(Tail(all)) = Len(all) - 1
          /\ \A i \in 1..Len(Tail(all)) : Tail(all)[i] = all[i + 1]
      BY <1>2, <2>1, HeadTailProperties
    <2>3. Len(Tail(all)) = n /\ \A i \in 1..n : i + 1 \in 1..(n + 1)
      BY <1>1, <1>2, <2>2
    <2>4. Tail(all) \in SamplesOf(task)
      BY <1>1, <1>3, <2>2, <2>3 DEF SamplesOf
    <2>5. QED
      BY <1>4, <2>4 DEF Appended, all
  <1>5. CASE ~(Len(all) > SampleLimit)
    <2>1. Len(all) <= SampleLimit
      BY <1>1, <1>2, <1>5
    <2>2. all \in SamplesOf(task)
      BY <1>2, <1>3, <2>1 DEF SamplesOf
    <2>3. QED
      BY <1>5, <2>2 DEF Appended, all
  <1>6. QED
    BY <1>4, <1>5

LEMMA StatisticsInitInv == StatisticsInit => StatisticsInv
  <1> SUFFICES ASSUME StatisticsInit PROVE StatisticsInv
    OBVIOUS
  <1>1. PICK task \in Tasks :
           /\ statisticsPage = Asked(NewStatistics(task))
           /\ requests = {Request(Asked(NewStatistics(task)), "stats")}
    BY DEF StatisticsInit
  <1> DEFINE none == <<>>
             start == NewStatistics(task)
  <1>2. none \in SamplesOf(task) /\ none \in Seq(Tasks)
    BY NoSamples
  <1>3. start = [mounted |-> TRUE, task |-> task, requestSequence |-> 0,
                 loading |-> FALSE, failed |-> FALSE, samples |-> none,
                 autoRefresh |-> TRUE, pollTimer |-> FALSE]
    BY DEF NewStatistics, none
  <1>4. statisticsPage = [start EXCEPT !.requestSequence = start.requestSequence + 1,
                                       !.loading = TRUE, !.failed = FALSE]
    BY <1>1 DEF Asked
  <1> HIDE DEF none, start
  <1>5. /\ start \in StatisticsPages /\ start.samples = none /\ start.mounted
        /\ start.task = task /\ start.requestSequence + 1 = 1
        /\ start.autoRefresh /\ ~start.pollTimer
    BY <1>2, <1>3 DEF StatisticsPages
  <1>6. statisticsPage = [start EXCEPT !.requestSequence = 1, !.loading = TRUE,
                                       !.failed = FALSE]
    BY <1>4, <1>5
  <1>7. /\ statisticsPage \in StatisticsPages /\ statisticsPage.requestSequence = 1
        /\ statisticsPage.mounted /\ statisticsPage.loading
        /\ statisticsPage.task = task /\ statisticsPage.samples = none
        /\ statisticsPage.autoRefresh /\ ~statisticsPage.pollTimer
    BY <1>5, <1>6 DEF StatisticsPages
  <1>8. Numbered(statisticsPage, requests)
    BY <1>1, <1>7, NumberedFirst
  <1>9. QED
    BY <1>2, <1>7, <1>8 DEF StatisticsInv, StatisticsInit, Polls

LEMMA LoadStatisticsStep ==
  ASSUME StatisticsInv, NEW now \in StatisticsPages, now.samples \in SamplesOf(now.task),
         now.mounted, now.requestSequence = statisticsPage.requestSequence,
         LoadStatistics(now)
  PROVE  StatisticsInv'
  <1>1. /\ statisticsPage' = [now EXCEPT !.requestSequence = now.requestSequence + 1,
                                !.loading = TRUE, !.failed = FALSE, !.pollTimer = FALSE]
        /\ inspectPage' = inspectPage
        /\ requests' = requests \cup {Request(statisticsPage', "stats")}
        /\ now.requestSequence < MaxRequests /\ now.requestSequence \in Nat
    BY DEF LoadStatistics, Asked, StatisticsPages
  <1>2. now.requestSequence + 1 \in Nat
    BY <1>1
  <1>3. /\ statisticsPage' \in StatisticsPages
        /\ statisticsPage'.mounted /\ statisticsPage'.loading
        /\ statisticsPage'.requestSequence = now.requestSequence + 1
        /\ statisticsPage'.task = now.task /\ now.task \in Tasks
        /\ statisticsPage'.samples = now.samples /\ ~statisticsPage'.pollTimer
    BY <1>1, <1>2 DEF StatisticsPages
  <1>4. Numbered(statisticsPage, requests)
    BY DEF StatisticsInv
  <1>5. Numbered(statisticsPage', requests')
    BY <1>1, <1>3, <1>4, NumberedLoad
  <1>6. QED
    BY <1>1, <1>3, <1>5 DEF StatisticsInv, Polls

LEMMA StatisticsAnswerStep ==
  ASSUME StatisticsInv, NEW request \in requests, NEW ok \in BOOLEAN, NEW samples,
         \/ samples = statisticsPage.samples
         \/ samples = Appended(statisticsPage.samples, request.task),
         StatisticsAnswered(request, samples, ok)
  PROVE  StatisticsInv'
  <1>1. /\ statisticsPage \in StatisticsPages /\ Numbered(statisticsPage, requests)
        /\ statisticsPage.samples \in SamplesOf(statisticsPage.task)
        /\ inspectPage' = inspectPage /\ request.task \in Tasks
        /\ requests' = requests \ {request}
    BY DEF StatisticsInv, StatisticsAnswered, Numbered
  <1>2. CASE ~Current(request, statisticsPage)
    <2>1. statisticsPage' = statisticsPage
      BY <1>2 DEF StatisticsAnswered
    <2>2. QED
      BY <1>1, <1>2, <2>1, NumberedLate DEF StatisticsInv
  <1>3. CASE Current(request, statisticsPage)
    <2>1. statisticsPage.task = request.task /\ statisticsPage.mounted
      BY <1>1, <1>3 DEF Numbered, Current
    <2>2. samples \in SamplesOf(statisticsPage.task) /\ samples \in Seq(Tasks)
      <3>1. Appended(statisticsPage.samples, request.task) \in SamplesOf(statisticsPage.task)
        BY <1>1, <2>1, SampleAppended
      <3>2. QED
        BY <1>1, <3>1 DEF SamplesOf
    <2> DEFINE shown == [statisticsPage EXCEPT !.loading = FALSE, !.failed = ~ok,
                                               !.samples = samples]
    <2>3. statisticsPage' = [shown EXCEPT !.pollTimer = shown.autoRefresh]
      BY <1>3 DEF StatisticsAnswered, Polled
    <2>4. /\ shown \in StatisticsPages /\ ~shown.loading /\ shown.samples = samples
          /\ shown.requestSequence = statisticsPage.requestSequence
          /\ shown.mounted = statisticsPage.mounted /\ shown.task = statisticsPage.task
      BY <1>1, <2>2 DEF StatisticsPages
    <2> HIDE DEF shown
    <2>5. /\ statisticsPage' \in StatisticsPages /\ ~statisticsPage'.loading
          /\ statisticsPage'.samples = samples
          /\ statisticsPage'.requestSequence = statisticsPage.requestSequence
          /\ statisticsPage'.mounted = statisticsPage.mounted
          /\ statisticsPage'.task = statisticsPage.task
          /\ statisticsPage'.pollTimer = statisticsPage'.autoRefresh
      BY <2>3, <2>4 DEF StatisticsPages
    <2>6. Numbered(statisticsPage', requests')
      BY <1>1, <1>3, <2>5, NumberedDone
    <2>7. Polls(statisticsPage')
      BY <2>1, <2>5 DEF Polls
    <2>8. QED
      BY <1>1, <2>2, <2>5, <2>6, <2>7 DEF StatisticsInv
  <1>4. QED
    BY <1>2, <1>3

\* The switch, and another interval.
LEMMA RestartPollingStep ==
  ASSUME StatisticsInv, NEW auto \in BOOLEAN, statisticsPage.mounted,
         RestartPolling([statisticsPage EXCEPT !.autoRefresh = auto])
  PROVE  StatisticsInv'
  <1> DEFINE now == [statisticsPage EXCEPT !.autoRefresh = auto]
  <1>1. statisticsPage \in StatisticsPages /\ Numbered(statisticsPage, requests)
        /\ statisticsPage.samples \in SamplesOf(statisticsPage.task)
    BY DEF StatisticsInv
  <1>2. /\ now \in StatisticsPages /\ now.mounted /\ now.autoRefresh = auto
        /\ now.samples \in SamplesOf(now.task)
        /\ now.requestSequence = statisticsPage.requestSequence
        /\ now.task = statisticsPage.task /\ now.loading = statisticsPage.loading
        /\ now.samples = statisticsPage.samples
    BY <1>1 DEF StatisticsPages
  <1>3. RestartPolling(now)
    OBVIOUS
  <1> HIDE DEF now
  <1>4. CASE auto
    BY <1>2, <1>3, <1>4, LoadStatisticsStep DEF RestartPolling
  <1>5. CASE ~auto
    <2>1. /\ statisticsPage' = [now EXCEPT !.pollTimer = FALSE]
          /\ UNCHANGED <<inspectPage, requests>>
      BY <1>2, <1>3, <1>5 DEF RestartPolling
    <2>2. /\ statisticsPage' \in StatisticsPages /\ ~statisticsPage'.pollTimer
          /\ ~statisticsPage'.autoRefresh /\ statisticsPage'.mounted
          /\ statisticsPage'.samples = statisticsPage.samples
          /\ statisticsPage'.requestSequence = statisticsPage.requestSequence
          /\ statisticsPage'.task = statisticsPage.task
          /\ statisticsPage'.loading = statisticsPage.loading
      BY <1>2, <1>5, <2>1 DEF StatisticsPages
    <2>3. Numbered(statisticsPage', requests)
      BY <1>1, <2>2 DEF Numbered
    <2>4. QED
      BY <1>1, <2>1, <2>2, <2>3 DEF StatisticsInv, Polls
  <1>6. QED
    BY <1>4, <1>5

LEMMA StatisticsNextInv == ASSUME StatisticsInv, StatisticsNext PROVE StatisticsInv'
  <1>0. /\ statisticsPage \in StatisticsPages /\ Numbered(statisticsPage, requests)
        /\ statisticsPage.samples \in SamplesOf(statisticsPage.task)
        /\ Polls(statisticsPage)
    BY DEF StatisticsInv
  <1>1. CASE RefreshStatistics
    BY <1>0, <1>1, LoadStatisticsStep DEF RefreshStatistics
  <1>2. CASE PollTimerFires
    BY <1>0, <1>2, LoadStatisticsStep DEF PollTimerFires, Polls
  <1>3. ASSUME NEW task \in Tasks, OtherTaskStatistics(task) PROVE StatisticsInv'
    <2> DEFINE none == <<>>
               now == [statisticsPage EXCEPT !.task = task, !.samples = none]
    <2>1. LoadStatistics(now) /\ statisticsPage.mounted
      BY <1>3 DEF OtherTaskStatistics
    <2>2. none \in SamplesOf(task) /\ none \in Seq(Tasks)
      BY NoSamples
    <2> HIDE DEF none
    <2>3. /\ now \in StatisticsPages /\ now.mounted /\ now.samples \in SamplesOf(now.task)
          /\ now.requestSequence = statisticsPage.requestSequence
      BY <1>0, <2>1, <2>2 DEF StatisticsPages
    <2> HIDE DEF now
    <2>4. QED
      BY <2>1, <2>3, LoadStatisticsStep
  <1>4. CASE ToggleAutoRefresh
    <2> DEFINE on == ~statisticsPage.autoRefresh
               now == [statisticsPage EXCEPT !.autoRefresh = on]
    <2>1. on \in BOOLEAN
      OBVIOUS
    <2>2. RestartPolling(now) /\ statisticsPage.mounted
      BY <1>4 DEF ToggleAutoRefresh
    <2>3. QED
      BY <2>1, <2>2, RestartPollingStep
  <1>5. CASE OtherInterval
    <2>1. /\ statisticsPage.autoRefresh \in BOOLEAN
          /\ statisticsPage = [statisticsPage EXCEPT !.autoRefresh = statisticsPage.autoRefresh]
      BY <1>0 DEF StatisticsPages
    <2>2. QED
      BY <1>5, <2>1, RestartPollingStep DEF OtherInterval
  <1>6. CASE LeaveStatistics
    <2>1. /\ statisticsPage' = [statisticsPage EXCEPT !.mounted = FALSE,
                                  !.requestSequence = @ + 1, !.pollTimer = FALSE]
          /\ requests' = requests /\ inspectPage' = inspectPage
      BY <1>6 DEF LeaveStatistics
    <2>2. statisticsPage.requestSequence \in Nat /\ statisticsPage.requestSequence + 1 \in Nat
      BY <1>0 DEF StatisticsPages
    <2>3. /\ statisticsPage' \in StatisticsPages
          /\ statisticsPage'.requestSequence = statisticsPage.requestSequence + 1
          /\ ~statisticsPage'.mounted /\ statisticsPage'.task = statisticsPage.task
          /\ statisticsPage'.samples = statisticsPage.samples
          /\ ~statisticsPage'.pollTimer
      BY <1>0, <2>1, <2>2 DEF StatisticsPages
    <2>4. Numbered(statisticsPage', requests)
      BY <1>0, <2>2, <2>3, NumberedLeft
    <2>5. QED
      BY <1>0, <2>1, <2>3, <2>4 DEF StatisticsInv, Polls
  <1>7. QED
    BY <1>1, <1>2, <1>3, <1>4, <1>5, <1>6, StatisticsAnswerStep DEF StatisticsNext

LEMMA StatisticsRests ==
  ASSUME StatisticsInv, StatisticsNext PROVE LeftPagesRest
  <1>1. UNCHANGED inspectPage
    BY DEF StatisticsNext, RefreshStatistics, PollTimerFires, OtherTaskStatistics,
           ToggleAutoRefresh, OtherInterval, RestartPolling, LoadStatistics,
           StatisticsAnswered, LeaveStatistics
  <1>2. ASSUME ~statisticsPage.mounted PROVE statisticsPage' = statisticsPage
    <2>1. ASSUME NEW request \in requests PROVE ~Current(request, statisticsPage)
      BY <1>2, <2>1 DEF StatisticsInv, Numbered, Current
    <2>2. ~statisticsPage.pollTimer
      BY <1>2 DEF StatisticsInv, Polls
    <2>3. QED
      BY <1>2, <2>1, <2>2 DEF StatisticsNext, RefreshStatistics, PollTimerFires,
           OtherTaskStatistics, ToggleAutoRefresh, OtherInterval, StatisticsAnswered,
           LeaveStatistics
  <1>3. QED
    BY <1>1, <1>2 DEF LeftPagesRest

-----------------------------------------------------------------------------
\* Where there is no page of the kind.

LEMMA NoPageFacts ==
  /\ NoInspect.task = NoTask /\ NoInspect.inspection = NoTask
  /\ NoInspect.serviceName = <<>>
  /\ NoInspect.loading = FALSE /\ NoInspect.failed = FALSE /\ ~NoInspect.mounted
  /\ NoStatistics.loading = FALSE /\ NoStatistics.failed = FALSE
  /\ NoStatistics.samples = <<>>
  /\ NoStatistics.pollTimer = FALSE /\ ~NoStatistics.mounted
  <1> DEFINE e == <<>>
  <1> HIDE DEF e
  <1>1. QED
    BY DEF NoInspect, NoStatistics, NewInspect, NewStatistics

\* The two pages, each with what it waits for, promise what both promise.
LEMMA PagesKeep ==
  ASSUME \/ InspectInv \/ StatisticsInv \/ PagesIdle
  PROVE  TaskPagesTypeOK /\ PagesShowTheirTask /\ PollingGoesOn
  <1> DEFINE none == <<>>
  <1>0. none \in BoundedSeq(Tasks, SampleLimit) /\ ToSet(none) = {}
    <2>1. none \in [1..0 -> Tasks] /\ 0 \in 0..SampleLimit /\ DOMAIN none = {}
      BY TaskPagesAssumption
    <2>2. QED
      BY <2>1 DEF BoundedSeq, SeqOf, ToSet
  <1>n. /\ NoInspect.task = NoTask /\ NoInspect.inspection = NoTask
        /\ NoInspect.serviceName = none
        /\ NoInspect.loading = FALSE /\ NoInspect.failed = FALSE /\ ~NoInspect.mounted
        /\ NoStatistics.loading = FALSE /\ NoStatistics.failed = FALSE
        /\ NoStatistics.samples = none
        /\ NoStatistics.pollTimer = FALSE /\ ~NoStatistics.mounted
    BY NoPageFacts
  <1>m. \A task : NamesOf(task) = {none, <<"id", task>>, <<"name", task>>}
    BY DEF NamesOf
  <1>t. TaskPagesTypeOK <=>
          /\ inspectPage.task \in Tasks \cup {NoTask}
          /\ inspectPage.inspection \in Tasks \cup {NoTask}
          /\ inspectPage.loading \in BOOLEAN /\ inspectPage.failed \in BOOLEAN
          /\ statisticsPage.loading \in BOOLEAN /\ statisticsPage.failed \in BOOLEAN
          /\ statisticsPage.pollTimer \in BOOLEAN
          /\ statisticsPage.samples \in BoundedSeq(Tasks, SampleLimit)
          /\ requests \subseteq [nr : 1..MaxRequests, task : Tasks,
                                 of : {"task", "service", "stats"}]
    BY DEF TaskPagesTypeOK
  <1>s. PagesShowTheirTask <=>
          /\ inspectPage.inspection \in {NoTask, inspectPage.task}
          /\ inspectPage.serviceName \in NamesOf(inspectPage.task)
          /\ ToSet(statisticsPage.samples) \subseteq {statisticsPage.task}
          /\ inspectPage.mounted => (inspectPage.loading <=> InFlight(inspectPage))
          /\ statisticsPage.mounted =>
                (statisticsPage.loading <=> InFlight(statisticsPage))
    BY DEF PagesShowTheirTask, NamesOf
  <1> HIDE DEF none
  <1>1. CASE InspectInv
    <2>1. statisticsPage = NoStatistics
      BY <1>1 DEF InspectInv
    <2>2. TaskPagesTypeOK
      BY <1>0, <1>n, <1>t, <1>1, <2>1 DEF InspectInv, InspectPages, OfItsTask, Numbered
    <2>3. PagesShowTheirTask
      BY <1>0, <1>n, <1>s, <1>1, <2>1 DEF InspectInv, OfItsTask, Numbered, InFlight
    <2>4. PollingGoesOn
      BY <1>n, <2>1 DEF PollingGoesOn
    <2>5. QED
      BY <2>2, <2>3, <2>4
  <1>2. CASE StatisticsInv
    <2>1. /\ inspectPage = NoInspect /\ statisticsPage \in StatisticsPages
          /\ Numbered(statisticsPage, requests)
          /\ statisticsPage.samples \in SamplesOf(statisticsPage.task)
          /\ Polls(statisticsPage)
      BY <1>2 DEF StatisticsInv
    <2>2. /\ Len(statisticsPage.samples) \in Nat
          /\ Len(statisticsPage.samples) <= SampleLimit
          /\ DOMAIN statisticsPage.samples = 1..Len(statisticsPage.samples)
          /\ statisticsPage.samples \in [1..Len(statisticsPage.samples) -> Tasks]
          /\ \A i \in DOMAIN statisticsPage.samples :
                statisticsPage.samples[i] = statisticsPage.task
      BY <2>1 DEF SamplesOf, StatisticsPages
    <2>3. statisticsPage.samples \in BoundedSeq(Tasks, SampleLimit)
      <3>1. Len(statisticsPage.samples) \in 0..SampleLimit
        BY <2>2, TaskPagesAssumption
      <3>2. QED
        BY <2>2, <3>1 DEF BoundedSeq, SeqOf
    <2>4. ToSet(statisticsPage.samples) \subseteq {statisticsPage.task}
      BY <2>2 DEF ToSet
    <2>5. TaskPagesTypeOK
      BY <1>n, <1>t, <2>1, <2>3 DEF StatisticsPages, Numbered
    <2>6. none \in NamesOf(NoTask)
      BY <1>m
    <2>7. PagesShowTheirTask
      BY <1>n, <1>s, <2>1, <2>4, <2>6 DEF Numbered, InFlight
    <2>8. PollingGoesOn
      BY <2>1 DEF PollingGoesOn, Polls, StatisticsPages
    <2>9. QED
      BY <2>5, <2>7, <2>8
  <1>3. CASE PagesIdle
    <2>1. none \in NamesOf(NoTask)
      BY <1>m
    <2>2. TaskPagesTypeOK
      BY <1>0, <1>n, <1>t, <1>3 DEF PagesIdle
    <2>3. PagesShowTheirTask
      BY <1>0, <1>n, <1>s, <1>3, <2>1 DEF PagesIdle
    <2>4. PollingGoesOn
      BY <1>n, <1>3 DEF PollingGoesOn, PagesIdle
    <2>5. QED
      BY <2>2, <2>3, <2>4
  <1>4. QED
    BY <1>1, <1>2, <1>3

------------------------------------------------------------------------------
(* The lists.                                                             *)

RowSets == SUBSET Rows
KeySets == SUBSET (Rows \X Tags)
OperationSets == SUBSET Operations
RowNumbers == [Rows -> Nat]
ResultSets == [Operations -> RowSets]

\* At most one member is at most one.
LEMMA OneAtMost ==
  ASSUME NEW S, \A one, other \in S : one = other
  PROVE  Cardinality(S) <= 1
  <1>1. CASE S = {}
    <2>1. Cardinality(S) = 0
      BY <1>1, FS_EmptySet
    <2>2. QED
      BY <2>1
  <1>2. CASE S # {}
    <2>1. PICK x \in S : TRUE
      BY <1>2
    <2>2. S = {x}
      BY <2>1
    <2>3. Cardinality(S) = 1
      BY <2>2, FS_Singleton
    <2>4. QED
      BY <2>3
  <1>3. QED
    BY <1>1, <1>2

-----------------------------------------------------------------------------
ServiceStates ==
    [open : BOOLEAN, expanded : RowSets, tasks : RowNumbers,
     taskLoading : RowSets, nodeNames : BOOLEAN, selected : RowSets,
     dialog : OperationSets, busy : OperationSets, results : ResultSets]
Reads == {"tasks", "nodes"}
ReadLoads(n) == [nr : 1..n, of : Reads, what : Rows]
SentLoads(n) == [nr : 1..n, of : Operations, what : RowSets]

\* One request reads for a row, whose flag says so, and it is later than the
\* one whose answer the row shows.
RowsRead(now, all, n) ==
    /\ \A one, other \in all :
          one.of \in Reads /\ other.of \in Reads /\ one.what = other.what => one = other
    /\ \A s \in Rows : s \in now.taskLoading <=>
          \E load \in all : load.of \in Reads /\ load.what = s
    /\ \A load \in all : load.of = "tasks" => load.nr > now.tasks[load.what]
    /\ \A s \in Rows : now.tasks[s] <= n

\* One dialog is there, and one request of its operation, of what is selected.
OneIsSent(now, all) ==
    /\ \A one, other \in now.dialog : one = other
    /\ now.busy \subseteq now.dialog
    /\ \A one, other \in all : one.of \in Operations /\ one.of = other.of => one = other
    /\ \A o \in Operations : o \in now.busy <=> \E load \in all : load.of = o
    /\ \A load \in all : load.of \in Operations => load.what = now.selected

ServicesInv ==
    /\ projectsPage = NoProjectsPage /\ servicesPage \in ServiceStates
    /\ loadCount \in 0..MaxLoads
    /\ loads \subseteq ReadLoads(loadCount) \cup SentLoads(loadCount)
    /\ RowsRead(servicesPage, loads, loadCount) /\ OneIsSent(servicesPage, loads)

LEMMA LoadTypes ==
  ASSUME NEW n \in Nat, NEW load \in ReadLoads(n) \cup SentLoads(n)
  PROVE  /\ load.nr \in 1..n
         /\ load.of \in Reads \/ load.of \in Operations
         /\ load.of \in Reads => load \in ReadLoads(n) /\ load.what \in Rows
         /\ load.of \in Operations => load \in SentLoads(n) /\ load.what \in RowSets
  BY DEF ReadLoads, SentLoads, Reads, Operations

LEMMA MoreLoads ==
  ASSUME NEW n \in Nat, NEW load \in ReadLoads(n) \cup SentLoads(n)
  PROVE  load \in ReadLoads(n + 1) \cup SentLoads(n + 1)
  <1>1. \A i \in 1..n : i \in 1..(n + 1)
    OBVIOUS
  <1>2. QED
    BY <1>1 DEF ReadLoads, SentLoads

LEMMA NoServices ==
  /\ NoServicesPage \in ServiceStates /\ NoServicesPage.taskLoading = {}
  /\ NoServicesPage.dialog = {} /\ NoServicesPage.busy = {}
  /\ NoServicesPage.expanded = {} /\ NoServicesPage.selected = {}
  /\ \A s \in Rows : NoServicesPage.tasks[s] = 0
  <1> DEFINE zero == [s \in Rows |-> 0]
             none == [o \in Operations |-> {}]
             e == {}
  <1>1. zero \in RowNumbers /\ none \in ResultSets /\ e \in RowSets /\ e \in OperationSets
        /\ \A s \in Rows : zero[s] = 0
    BY DEF RowNumbers, ResultSets, RowSets, OperationSets
  <1>2. NoServicesPage = [open |-> FALSE, expanded |-> e, tasks |-> zero,
          taskLoading |-> e, nodeNames |-> FALSE, selected |-> e, dialog |-> e,
          busy |-> e, results |-> none]
    BY DEF NoServicesPage
  <1> HIDE DEF zero, none
  <1>3. QED
    BY <1>1, <1>2 DEF ServiceStates

LEMMA ServicesInitInv == ServicesInit \/ ListsIdle => ServicesInv
  <1> SUFFICES ASSUME ServicesInit \/ ListsIdle PROVE ServicesInv
    OBVIOUS
  <1>1. /\ servicesPage \in {NoServicesPage, [NoServicesPage EXCEPT !.open = TRUE]}
        /\ projectsPage = NoProjectsPage /\ loads = {} /\ loadCount = 0
    BY DEF ServicesInit, ListsIdle
  <1>2. /\ servicesPage \in ServiceStates /\ servicesPage.taskLoading = {}
        /\ servicesPage.dialog = {} /\ servicesPage.busy = {}
        /\ \A s \in Rows : servicesPage.tasks[s] = 0
    BY <1>1, NoServices DEF ServiceStates
  <1>3. loadCount \in 0..MaxLoads
    BY <1>1, ListPagesAssumption
  <1>4. QED
    BY <1>1, <1>2, <1>3 DEF ServicesInv, RowsRead, OneIsSent

\* The page changes in what no request is about.
LEMMA StillPage ==
  ASSUME ServicesInv, servicesPage' \in ServiceStates,
         UNCHANGED <<projectsPage, loads, loadCount>>,
         servicesPage'.tasks = servicesPage.tasks,
         servicesPage'.taskLoading = servicesPage.taskLoading,
         OneIsSent(servicesPage', loads)
  PROVE  ServicesInv'
  BY DEF ServicesInv, RowsRead

\* reloadTasks, of a row that nothing is read for.
LEMMA ReloadStep ==
  ASSUME ServicesInv, NEW s \in Rows, s \notin servicesPage.taskLoading,
         NEW more \in RowSets, NEW now,
         now = [servicesPage EXCEPT !.expanded = more],
         ReloadTasks(now, s), UNCHANGED projectsPage
  PROVE  ServicesInv'
  <1> DEFINE r == [nr |-> loadCount + 1, of |-> "tasks", what |-> s]
             loading == servicesPage.taskLoading \cup {s}
  <1>1. /\ servicesPage \in ServiceStates /\ loadCount \in Nat /\ MaxLoads \in Nat
        /\ loadCount < MaxLoads /\ loadCount' = loadCount + 1
        /\ loadCount' \in 0..MaxLoads
        /\ loads \subseteq ReadLoads(loadCount) \cup SentLoads(loadCount)
    BY ListPagesAssumption DEF ServicesInv, ReloadTasks, Load
  <1>2. now \in ServiceStates /\ now.taskLoading = servicesPage.taskLoading
        /\ now.tasks = servicesPage.tasks /\ now.dialog = servicesPage.dialog
        /\ now.busy = servicesPage.busy /\ now.selected = servicesPage.selected
    BY <1>1 DEF ServiceStates
  <1>3. loading \in RowSets
    BY <1>1 DEF ServiceStates, RowSets
  <1>4. /\ servicesPage' = [now EXCEPT !.taskLoading = loading]
        /\ loads' = loads \cup {r}
    BY <1>1, <1>2 DEF ReloadTasks, Load
  <1>5. /\ servicesPage' \in ServiceStates
        /\ servicesPage'.taskLoading = loading
        /\ servicesPage'.tasks = servicesPage.tasks
        /\ servicesPage'.dialog = servicesPage.dialog
        /\ servicesPage'.busy = servicesPage.busy
        /\ servicesPage'.selected = servicesPage.selected
    <2> HIDE DEF loading
    <2>1. QED
      BY <1>2, <1>3, <1>4 DEF ServiceStates
  <1>6. /\ r \in ReadLoads(loadCount + 1) /\ r.of = "tasks" /\ r.what = s
        /\ r.nr = loadCount + 1
    BY <1>1 DEF ReadLoads, Reads
  <1> HIDE DEF r
  <1>7. /\ "tasks" \in Reads /\ "tasks" \notin Operations
        /\ \A x \in loads' : x = r \/ x \in loads
        /\ loads \subseteq loads' /\ r \in loads'
    BY <1>4 DEF Reads, Operations
  <1>8. loads' \subseteq ReadLoads(loadCount') \cup SentLoads(loadCount')
    BY <1>1, <1>6, <1>7, MoreLoads
  <1>9. RowsRead(servicesPage, loads, loadCount)
        /\ (\A load \in loads : load.of \in Reads => load.what # s)
    BY DEF ServicesInv, RowsRead
  <1>10. servicesPage.tasks \in RowNumbers
    BY <1>1 DEF ServiceStates
  <1>11. RowsRead(servicesPage', loads', loadCount')
    <2>1. \A one, other \in loads' :
            one.of \in Reads /\ other.of \in Reads /\ one.what = other.what => one = other
      BY <1>6, <1>7, <1>9 DEF RowsRead
    <2>2. \A x \in Rows : x \in loading <=>
            \E load \in loads' : load.of \in Reads /\ load.what = x
      BY <1>6, <1>7, <1>9 DEF RowsRead
    <2>3. \A load \in loads' : load.of = "tasks" => load.nr > servicesPage.tasks[load.what]
      BY <1>1, <1>6, <1>7, <1>9, <1>10 DEF RowsRead, RowNumbers
    <2>4. \A x \in Rows : servicesPage.tasks[x] <= loadCount + 1
      BY <1>1, <1>9, <1>10 DEF RowsRead, RowNumbers
    <2>5. QED
      BY <1>1, <1>5, <2>1, <2>2, <2>3, <2>4 DEF RowsRead
  <1>12. OneIsSent(servicesPage', loads')
    BY <1>5, <1>6, <1>7 DEF ServicesInv, OneIsSent
  <1>13. QED
    BY <1>1, <1>5, <1>8, <1>11, <1>12 DEF ServicesInv

LEMMA ReloadIfNeededStep ==
  ASSUME ServicesInv, NEW s \in Rows, NEW more \in RowSets,
         ReloadIfNeeded([servicesPage EXCEPT !.expanded = more], s),
         UNCHANGED projectsPage
  PROVE  ServicesInv'
  <1> DEFINE now == [servicesPage EXCEPT !.expanded = more]
  <1>1. CASE NeedsTasks(s)
    <2>1. ReloadTasks(now, s) /\ s \notin servicesPage.taskLoading
      BY <1>1 DEF ReloadIfNeeded, NeedsTasks
    <2>2. QED
      BY <2>1, ReloadStep
  <1>2. CASE ~NeedsTasks(s)
    <2>1. servicesPage' = now /\ UNCHANGED <<loads, loadCount>>
      BY <1>2 DEF ReloadIfNeeded
    <2>2. /\ servicesPage' \in ServiceStates
          /\ servicesPage'.tasks = servicesPage.tasks
          /\ servicesPage'.taskLoading = servicesPage.taskLoading
          /\ servicesPage'.dialog = servicesPage.dialog
          /\ servicesPage'.busy = servicesPage.busy
          /\ servicesPage'.selected = servicesPage.selected
      BY <2>1 DEF ServicesInv, ServiceStates
    <2>3. OneIsSent(servicesPage', loads)
      BY <2>2 DEF ServicesInv, OneIsSent
    <2>4. QED
      BY <2>1, <2>2, <2>3, StillPage
  <1>3. QED
    BY <1>1, <1>2

LEMMA TogglingStep ==
  ASSUME ServicesInv, NEW s \in Rows, ToggleTasks(s) \/ OnlyService(s) \/ ReloadButton(s)
  PROVE  ServicesInv'
  <1>0. servicesPage \in ServiceStates /\ servicesPage.expanded \subseteq Rows
    BY DEF ServicesInv, ServiceStates, RowSets
  <1>1. CASE ToggleTasks(s)
    <2>1. CASE s \in servicesPage.expanded
      <3> DEFINE fewer == servicesPage.expanded \ {s}
      <3>1. /\ servicesPage' = [servicesPage EXCEPT !.expanded = fewer]
            /\ UNCHANGED <<projectsPage, loads, loadCount>>
        BY <1>1, <2>1 DEF ToggleTasks
      <3>2. fewer \in RowSets
        BY <1>0 DEF RowSets
      <3> HIDE DEF fewer
      <3>3. /\ servicesPage' \in ServiceStates
            /\ servicesPage'.tasks = servicesPage.tasks
            /\ servicesPage'.taskLoading = servicesPage.taskLoading
            /\ servicesPage'.dialog = servicesPage.dialog
            /\ servicesPage'.busy = servicesPage.busy
            /\ servicesPage'.selected = servicesPage.selected
        BY <1>0, <3>1, <3>2 DEF ServiceStates
      <3>4. OneIsSent(servicesPage', loads)
        BY <3>3 DEF ServicesInv, OneIsSent
      <3>5. QED
        BY <3>1, <3>3, <3>4, StillPage
    <2>2. CASE s \notin servicesPage.expanded
      <3> DEFINE more == servicesPage.expanded \cup {s}
      <3>1. ReloadIfNeeded([servicesPage EXCEPT !.expanded = more], s)
            /\ UNCHANGED projectsPage
        BY <1>1, <2>2 DEF ToggleTasks
      <3>2. more \in RowSets
        BY <1>0 DEF RowSets
      <3> HIDE DEF more
      <3>3. QED
        BY <3>1, <3>2, ReloadIfNeededStep
    <2>3. QED
      BY <2>1, <2>2
  <1>2. CASE OnlyService(s)
    <2> DEFINE more == {s}
    <2>1. ReloadIfNeeded([servicesPage EXCEPT !.expanded = more], s)
          /\ UNCHANGED projectsPage
      BY <1>2 DEF OnlyService
    <2>2. more \in RowSets
      BY DEF RowSets
    <2> HIDE DEF more
    <2>3. QED
      BY <2>1, <2>2, ReloadIfNeededStep
  <1>3. CASE ReloadButton(s)
    <2>1. /\ s \notin servicesPage.taskLoading /\ ReloadTasks(servicesPage, s)
          /\ UNCHANGED projectsPage
      BY <1>3 DEF ReloadButton
    <2>2. servicesPage.expanded \in RowSets
      BY <1>0 DEF RowSets
    <2>3. servicesPage = [servicesPage EXCEPT !.expanded = servicesPage.expanded]
      BY <1>0 DEF ServiceStates
    <2>4. QED
      BY <2>1, <2>2, <2>3, ReloadStep
  <1>4. QED
    BY <1>1, <1>2, <1>3

-----------------------------------------------------------------------------
\* What is under way when one of the requests is over.
LEMMA FewerLoads ==
  ASSUME ServicesInv, NEW load \in loads
  PROVE  /\ loadCount \in Nat /\ load.nr \in 1..loadCount
         /\ load.of \in Reads =>
              /\ load.what \in Rows /\ load \in ReadLoads(loadCount)
              /\ \A x \in loads \ {load} : x.of \in Reads => x.what # load.what
         /\ load.of \in Operations => \A x \in loads \ {load} : x.of \notin Operations
  <1>1. loadCount \in Nat /\ load \in ReadLoads(loadCount) \cup SentLoads(loadCount)
    BY DEF ServicesInv
  <1>2. ASSUME load.of \in Operations, NEW x \in loads \ {load}
        PROVE  x.of \notin Operations
    <2>1. /\ load.of \in servicesPage.busy
          /\ x.of \in Operations => x.of \in servicesPage.busy
          /\ \A one, other \in servicesPage.busy : one = other
      BY <1>2 DEF ServicesInv, OneIsSent
    <2>2. x.of \in Operations => x.of = load.of
      BY <2>1
    <2>3. QED
      BY <1>2, <2>2 DEF ServicesInv, OneIsSent
  <1>3. load.of \in Reads => \A x \in loads \ {load} : x.of \in Reads => x.what # load.what
    BY DEF ServicesInv, RowsRead
  <1>4. QED
    BY <1>1, <1>2, <1>3, LoadTypes

\* A read is over, whether its row shows more or not.
LEMMA ReadIsOver ==
  ASSUME ServicesInv, NEW load \in loads, load.of \in Reads, Loaded(load),
         UNCHANGED projectsPage, servicesPage' \in ServiceStates,
         servicesPage'.taskLoading = servicesPage.taskLoading \ {load.what},
         \A s \in Rows : \/ servicesPage'.tasks[s] = servicesPage.tasks[s]
                         \/ s = load.what /\ servicesPage'.tasks[s] = load.nr,
         servicesPage'.dialog = servicesPage.dialog,
         servicesPage'.busy = servicesPage.busy,
         servicesPage'.selected = servicesPage.selected
  PROVE  ServicesInv'
  <1>1. /\ loadCount \in Nat /\ load.nr \in 1..loadCount /\ load.what \in Rows
        /\ \A x \in loads \ {load} : x.of \in Reads => x.what # load.what
    BY FewerLoads
  <1>2. loads' = loads \ {load} /\ loadCount' = loadCount
    BY DEF Loaded
  <1>3. RowsRead(servicesPage, loads, loadCount)
        /\ loads \subseteq ReadLoads(loadCount) \cup SentLoads(loadCount)
    BY DEF ServicesInv
  <1>4. \A x \in loads : x.of = "tasks" => x.of \in Reads /\ x.what \in Rows
    BY <1>1, <1>3, LoadTypes DEF Reads
  <1>5. RowsRead(servicesPage', loads', loadCount')
    <2>1. \A s \in Rows : s \in servicesPage'.taskLoading <=>
              \E x \in loads' : x.of \in Reads /\ x.what = s
      BY <1>1, <1>2, <1>3 DEF RowsRead
    <2>2. \A x \in loads' : x.of = "tasks" => x.nr > servicesPage'.tasks[x.what]
      <3>1. SUFFICES ASSUME NEW x \in loads', x.of = "tasks"
                     PROVE  x.nr > servicesPage'.tasks[x.what]
        OBVIOUS
      <3>2. x.what \in Rows /\ x.what # load.what /\ x.nr > servicesPage.tasks[x.what]
        BY <1>1, <1>2, <1>3, <1>4, <3>1 DEF RowsRead
      <3>3. QED
        BY <3>2
    <2>3. \A s \in Rows : servicesPage'.tasks[s] <= loadCount
      BY <1>1, <1>3 DEF RowsRead
    <2>4. QED
      BY <1>2, <1>3, <2>1, <2>2, <2>3 DEF RowsRead
  <1>6. OneIsSent(servicesPage', loads')
    <2>1. \A o \in Operations : (\E x \in loads' : x.of = o) <=> \E x \in loads : x.of = o
      BY <1>2 DEF Reads, Operations
    <2>2. QED
      BY <1>2, <2>1 DEF ServicesInv, OneIsSent
  <1>7. QED
    BY <1>2, <1>5, <1>6 DEF ServicesInv

LEMMA ReadingStep ==
  ASSUME ServicesInv, NEW load \in loads,
         \/ TasksRead(load) \/ TasksNotRead(load)
         \/ \E ok \in BOOLEAN : NodesRead(load, ok)
  PROVE  ServicesInv'
  <1> DEFINE fewer == servicesPage.taskLoading \ {load.what}
             numbers == [servicesPage.tasks EXCEPT ![load.what] = load.nr]
  <1>0. /\ load.of \in Reads /\ UNCHANGED projectsPage
    BY DEF TasksRead, TasksNotRead, NodesRead, Reads
  <1>1. /\ loadCount \in Nat /\ load.nr \in 1..loadCount /\ load.what \in Rows
        /\ load \in ReadLoads(loadCount)
        /\ \A x \in loads \ {load} : x.of \in Reads => x.what # load.what
    BY <1>0, FewerLoads
  <1>2. /\ servicesPage \in ServiceStates /\ fewer \in RowSets
        /\ servicesPage.tasks \in RowNumbers
    BY DEF ServicesInv, ServiceStates, RowSets
  <1>3. /\ numbers \in RowNumbers
        /\ \A s \in Rows : numbers[s] = IF s = load.what THEN load.nr
                                        ELSE servicesPage.tasks[s]
    BY <1>1, <1>2 DEF RowNumbers
  <1>4. CASE TasksRead(load) /\ servicesPage.nodeNames
    <2> DEFINE shown == [servicesPage EXCEPT !.tasks = numbers]
    <2>1. shown \in ServiceStates /\ shown.nodeNames = servicesPage.nodeNames
          /\ shown.taskLoading = servicesPage.taskLoading
          /\ shown.tasks = numbers /\ shown.dialog = servicesPage.dialog
          /\ shown.busy = servicesPage.busy /\ shown.selected = servicesPage.selected
      <3> HIDE DEF numbers
      <3>1. QED
        BY <1>2, <1>3 DEF ServiceStates
    <2>2. servicesPage' = NotLoading(shown, load.what) /\ Loaded(load)
      BY <1>4, <2>1 DEF TasksRead
    <2> HIDE DEF shown
    <2>3. servicesPage' = [shown EXCEPT !.taskLoading = fewer]
      BY <2>1, <2>2 DEF NotLoading
    <2>4. /\ servicesPage' \in ServiceStates
          /\ servicesPage'.taskLoading = fewer /\ servicesPage'.tasks = numbers
          /\ servicesPage'.dialog = servicesPage.dialog
          /\ servicesPage'.busy = servicesPage.busy
          /\ servicesPage'.selected = servicesPage.selected
      <3> HIDE DEF fewer, numbers
      <3>1. QED
        BY <1>2, <2>1, <2>3 DEF ServiceStates
    <2> HIDE DEF numbers
    <2>5. QED
      BY <1>0, <1>3, <2>2, <2>4, ReadIsOver
  <1>5. CASE TasksRead(load) /\ ~servicesPage.nodeNames
    <2> DEFINE next == [load EXCEPT !.of = "nodes"]
    <2>1. /\ servicesPage' = [servicesPage EXCEPT !.tasks = numbers]
          /\ loads' = (loads \ {load}) \cup {next} /\ loadCount' = loadCount
          /\ load.of = "tasks"
      <3>1. [servicesPage EXCEPT !.tasks[load.what] = load.nr].nodeNames
              = servicesPage.nodeNames
        BY <1>2 DEF ServiceStates
      <3>2. QED
        BY <1>5, <3>1 DEF TasksRead
    <2>2. /\ servicesPage' \in ServiceStates
          /\ servicesPage'.taskLoading = servicesPage.taskLoading
          /\ servicesPage'.tasks = numbers
          /\ servicesPage'.dialog = servicesPage.dialog
          /\ servicesPage'.busy = servicesPage.busy
          /\ servicesPage'.selected = servicesPage.selected
      <3> HIDE DEF numbers
      <3>1. QED
        BY <1>2, <1>3, <2>1 DEF ServiceStates
    <2> HIDE DEF numbers
    <2>3. /\ next \in ReadLoads(loadCount) /\ next.of = "nodes" /\ next.of \in Reads
          /\ next.of \notin Operations /\ next.what = load.what
      BY <1>1 DEF ReadLoads, Reads, Operations
    <2> HIDE DEF next
    <2>4. /\ \A x \in loads' : x = next \/ x \in loads \ {load}
          /\ next \in loads' /\ \A x \in loads : x # load => x \in loads'
      BY <2>1
    <2>5. loads' \subseteq ReadLoads(loadCount') \cup SentLoads(loadCount')
      BY <2>1, <2>3, <2>4 DEF ServicesInv
    <2>6. RowsRead(servicesPage, loads, loadCount)
          /\ loads \subseteq ReadLoads(loadCount) \cup SentLoads(loadCount)
      BY DEF ServicesInv
    <2>7. \A x \in loads : x.of = "tasks" => x.of \in Reads /\ x.what \in Rows
      BY <1>1, <2>6, LoadTypes DEF Reads
    <2>8. RowsRead(servicesPage', loads', loadCount')
      <3>1. \A one, other \in loads' :
              one.of \in Reads /\ other.of \in Reads /\ one.what = other.what => one = other
        BY <1>1, <2>3, <2>4, <2>6 DEF RowsRead
      <3>2. \A s \in Rows : s \in servicesPage.taskLoading <=>
              \E x \in loads' : x.of \in Reads /\ x.what = s
        BY <1>0, <2>3, <2>4, <2>6 DEF RowsRead
      <3>3. ASSUME NEW x \in loads', x.of = "tasks" PROVE x.nr > numbers[x.what]
        <4>1. x \in loads /\ x # load /\ x.of \in Reads /\ x.what \in Rows
          BY <2>3, <2>4, <2>7, <3>3
        <4>2. x.what # load.what /\ x.nr > servicesPage.tasks[x.what]
          BY <1>1, <2>6, <3>3, <4>1 DEF RowsRead
        <4>3. QED
          BY <1>3, <4>1, <4>2
      <3>4. \A s \in Rows : numbers[s] <= loadCount
        BY <1>1, <1>3, <2>6 DEF RowsRead
      <3>5. QED
        BY <2>1, <2>2, <3>1, <3>2, <3>3, <3>4 DEF RowsRead
    <2>9. OneIsSent(servicesPage', loads')
      <3>1. \A o \in Operations : (\E x \in loads' : x.of = o) <=> \E x \in loads : x.of = o
        BY <1>0, <2>3, <2>4 DEF Reads, Operations
      <3>2. \A x \in loads' : x.of \in Operations => x \in loads
        BY <2>3, <2>4
      <3>3. QED
        BY <2>2, <3>1, <3>2 DEF ServicesInv, OneIsSent
    <2>10. QED
      BY <1>0, <2>1, <2>2, <2>5, <2>8, <2>9 DEF ServicesInv
  <1>6. CASE TasksNotRead(load)
    <2>1. servicesPage' = [servicesPage EXCEPT !.taskLoading = fewer] /\ Loaded(load)
      BY <1>6 DEF TasksNotRead, NotLoading
    <2>2. /\ servicesPage' \in ServiceStates
          /\ servicesPage'.taskLoading = fewer
          /\ servicesPage'.tasks = servicesPage.tasks
          /\ servicesPage'.dialog = servicesPage.dialog
          /\ servicesPage'.busy = servicesPage.busy
          /\ servicesPage'.selected = servicesPage.selected
      <3> HIDE DEF fewer
      <3>1. QED
        BY <1>2, <2>1 DEF ServiceStates
    <2>3. QED
      BY <1>0, <2>1, <2>2, ReadIsOver
  <1>7. ASSUME NEW ok \in BOOLEAN, NodesRead(load, ok) PROVE ServicesInv'
    <2> DEFINE now == [servicesPage EXCEPT !.taskLoading = fewer]
               names == servicesPage.nodeNames \/ ok
    <2>1. /\ now \in ServiceStates /\ now.nodeNames = servicesPage.nodeNames
          /\ now.taskLoading = fewer /\ now.tasks = servicesPage.tasks
          /\ now.dialog = servicesPage.dialog
          /\ now.busy = servicesPage.busy /\ now.selected = servicesPage.selected
      <3> HIDE DEF fewer
      <3>1. QED
        BY <1>2 DEF ServiceStates
    <2>2. names \in BOOLEAN
      OBVIOUS
    <2>3. servicesPage' = [now EXCEPT !.nodeNames = names] /\ Loaded(load)
      BY <1>7, <2>1 DEF NodesRead, NotLoading
    <2> HIDE DEF now, names
    <2>4. /\ servicesPage' \in ServiceStates
          /\ servicesPage'.taskLoading = fewer
          /\ servicesPage'.tasks = servicesPage.tasks
          /\ servicesPage'.dialog = servicesPage.dialog
          /\ servicesPage'.busy = servicesPage.busy
          /\ servicesPage'.selected = servicesPage.selected
      <3> HIDE DEF fewer
      <3>1. QED
        BY <1>2, <2>1, <2>2, <2>3 DEF ServiceStates
    <2>5. QED
      BY <1>0, <2>3, <2>4, ReadIsOver
  <1>8. QED
    BY <1>4, <1>5, <1>6, <1>7

-----------------------------------------------------------------------------
\* The check boxes and the dialogs.
LEMMA DialogStep ==
  ASSUME ServicesInv,
         \/ \E s \in Rows : Select(s)
         \/ \E o \in Operations : OpenDialog(o) \/ CancelDialog(o)
  PROVE  ServicesInv'
  <1>0. /\ servicesPage \in ServiceStates /\ OneIsSent(servicesPage, loads)
    BY DEF ServicesInv
  <1>1. ASSUME NEW s \in Rows, Select(s) PROVE ServicesInv'
    <2> DEFINE now == IF s \in servicesPage.selected THEN servicesPage.selected \ {s}
                      ELSE servicesPage.selected \cup {s}
    <2>1. /\ servicesPage' = [servicesPage EXCEPT !.selected = now]
          /\ servicesPage.dialog = {} /\ UNCHANGED <<projectsPage, loads, loadCount>>
      BY <1>1 DEF Select
    <2>2. now \in RowSets
      BY <1>0, <1>1 DEF ServiceStates, RowSets
    <2> HIDE DEF now
    <2>3. /\ servicesPage' \in ServiceStates
          /\ servicesPage'.tasks = servicesPage.tasks
          /\ servicesPage'.taskLoading = servicesPage.taskLoading
          /\ servicesPage'.dialog = servicesPage.dialog
          /\ servicesPage'.busy = servicesPage.busy
      BY <1>0, <2>1, <2>2 DEF ServiceStates
    <2>4. \A load \in loads : load.of \notin Operations
      BY <1>0, <2>1 DEF OneIsSent
    <2>5. OneIsSent(servicesPage', loads)
      BY <1>0, <2>3, <2>4 DEF OneIsSent
    <2>6. QED
      BY <2>1, <2>3, <2>5, StillPage
  <1>2. ASSUME NEW o \in Operations, OpenDialog(o) \/ CancelDialog(o) PROVE ServicesInv'
    <2>1. PICK there \in {{}, {o}} :
             /\ servicesPage' = [servicesPage EXCEPT !.dialog = there]
             /\ UNCHANGED <<projectsPage, loads, loadCount>>
      BY <1>2 DEF OpenDialog, CancelDialog
    <2>2. servicesPage.busy = {}
      BY <1>0, <1>2 DEF OneIsSent, OpenDialog, CancelDialog
    <2>3. there \in OperationSets
      BY <1>2 DEF OperationSets
    <2>4. /\ servicesPage' \in ServiceStates
          /\ servicesPage'.tasks = servicesPage.tasks
          /\ servicesPage'.taskLoading = servicesPage.taskLoading
          /\ servicesPage'.dialog = there
          /\ servicesPage'.busy = servicesPage.busy
          /\ servicesPage'.selected = servicesPage.selected
      BY <1>0, <2>1, <2>3 DEF ServiceStates
    <2>5. OneIsSent(servicesPage', loads)
      BY <1>0, <2>1, <2>2, <2>4 DEF OneIsSent
    <2>6. QED
      BY <2>1, <2>4, <2>5, StillPage
  <1>3. QED
    BY <1>1, <1>2

\* restartSelected, removeSelected.
LEMMA SubmitStep ==
  ASSUME ServicesInv, NEW o \in Operations, Submit(o) PROVE ServicesInv'
  <1> DEFINE r == [nr |-> loadCount + 1, of |-> o, what |-> servicesPage.selected]
             waiting == servicesPage.busy \cup {o}
  <1>1. /\ servicesPage \in ServiceStates /\ loadCount \in Nat /\ MaxLoads \in Nat
        /\ loadCount < MaxLoads /\ loadCount' = loadCount + 1
        /\ loadCount' \in 0..MaxLoads
        /\ o \in servicesPage.dialog /\ o \notin servicesPage.busy
        /\ projectsPage' = projectsPage
    BY ListPagesAssumption DEF ServicesInv, Submit, Load
  <1>2. /\ servicesPage' = [servicesPage EXCEPT !.busy = waiting]
        /\ loads' = loads \cup {r}
    BY <1>1 DEF Submit, Load
  <1>3. waiting \in OperationSets
    BY <1>1 DEF ServiceStates, OperationSets
  <1>4. /\ servicesPage' \in ServiceStates
        /\ servicesPage'.tasks = servicesPage.tasks
        /\ servicesPage'.taskLoading = servicesPage.taskLoading
        /\ servicesPage'.dialog = servicesPage.dialog
        /\ servicesPage'.busy = waiting
        /\ servicesPage'.selected = servicesPage.selected
    <2> HIDE DEF waiting
    <2>1. QED
      BY <1>1, <1>2, <1>3 DEF ServiceStates
  <1>5. /\ r \in SentLoads(loadCount + 1) /\ r.of = o /\ r.what = servicesPage.selected
        /\ r.of \notin Reads /\ r.of # "tasks"
    BY <1>1 DEF SentLoads, ServiceStates, Reads, Operations
  <1> HIDE DEF r
  <1>6. /\ \A x \in loads' : x = r \/ x \in loads
        /\ loads \subseteq loads' /\ r \in loads'
    BY <1>2
  <1>7. loads' \subseteq ReadLoads(loadCount') \cup SentLoads(loadCount')
    BY <1>1, <1>5, <1>6, MoreLoads DEF ServicesInv
  <1>8. RowsRead(servicesPage, loads, loadCount) /\ OneIsSent(servicesPage, loads)
    BY DEF ServicesInv
  <1>9. servicesPage.busy = {} /\ servicesPage.dialog = {o} /\ waiting = {o}
    BY <1>1, <1>8 DEF OneIsSent
  <1>10. \A x \in loads : x.of \notin Operations
    BY <1>8, <1>9 DEF OneIsSent
  <1>11. OneIsSent(servicesPage', loads')
    BY <1>4, <1>5, <1>6, <1>9, <1>10 DEF OneIsSent
  <1>12. RowsRead(servicesPage', loads', loadCount')
    <2>1. servicesPage.tasks \in RowNumbers
      BY <1>1 DEF ServiceStates
    <2>2. \A s \in Rows : servicesPage.tasks[s] <= loadCount + 1
      BY <1>1, <1>8, <2>1 DEF RowsRead, RowNumbers
    <2>3. QED
      BY <1>1, <1>4, <1>5, <1>6, <1>8, <2>2 DEF RowsRead
  <1>13. QED
    BY <1>1, <1>4, <1>7, <1>11, <1>12 DEF ServicesInv

LEMMA SubmittedStep ==
  ASSUME ServicesInv, NEW load \in loads, Submitted(load) PROVE ServicesInv'
  <1> DEFINE o == load.of
             results == [servicesPage.results EXCEPT ![o] = load.what]
             waiting == servicesPage.busy \ {o}
             there == servicesPage.dialog \ {o}
             e == {}
  <1>1. /\ servicesPage \in ServiceStates /\ o \in Operations
        /\ projectsPage' = projectsPage /\ loads' = loads \ {load}
        /\ loadCount' = loadCount
        /\ RowsRead(servicesPage, loads, loadCount) /\ OneIsSent(servicesPage, loads)
    BY DEF ServicesInv, Submitted, Loaded
  <1>2. servicesPage' = [servicesPage EXCEPT !.results = results, !.busy = waiting,
                            !.dialog = there, !.selected = e]
    BY DEF Submitted, Results
  <1>3. /\ loadCount \in Nat /\ load.what \in RowSets
        /\ \A x \in loads \ {load} : x.of \notin Operations
    BY <1>1, FewerLoads, LoadTypes DEF ServicesInv
  <1>4. /\ waiting \in OperationSets /\ there \in OperationSets /\ e \in RowSets
    BY <1>1 DEF ServiceStates, OperationSets, RowSets
  <1>5. results \in ResultSets
    <2>1. servicesPage.results \in ResultSets
      BY <1>1 DEF ServiceStates
    <2>2. QED
      BY <1>3, <2>1 DEF ResultSets
  <1>6. waiting = {} /\ there = {}
    BY <1>1 DEF OneIsSent
  <1> HIDE DEF results, waiting, there, e
  <1>7. /\ servicesPage' \in ServiceStates
        /\ servicesPage'.tasks = servicesPage.tasks
        /\ servicesPage'.taskLoading = servicesPage.taskLoading
        /\ servicesPage'.dialog = there /\ servicesPage'.busy = waiting
    BY <1>1, <1>2, <1>4, <1>5 DEF ServiceStates
  <1>8. OneIsSent(servicesPage', loads')
    BY <1>1, <1>3, <1>6, <1>7 DEF OneIsSent
  <1>9. RowsRead(servicesPage', loads', loadCount')
    <2>1. load.of \notin Reads
      BY <1>1 DEF Reads, Operations
    <2>2. QED
      BY <1>1, <1>7, <2>1 DEF RowsRead
  <1>10. QED
    BY <1>1, <1>7, <1>8, <1>9 DEF ServicesInv

LEMMA ServicesNextInv == ASSUME ServicesInv, ServicesNext PROVE ServicesInv'
  BY TogglingStep, DialogStep, SubmitStep, ReadingStep, SubmittedStep DEF ServicesNext

-----------------------------------------------------------------------------
ProjectStates ==
    [open : BOOLEAN, expanded : RowSets, tags : RowSets, loadingTags : RowSets,
     tagErrors : RowSets, selectedTag : KeySets, pipelines : KeySets,
     loadingPipelines : KeySets, pipelineErrors : KeySets, overlapped : RowSets]
TagLoads(n) == [nr : 1..n, of : {"tags"}, what : Rows]
PipelineLoads(n) == [nr : 1..n, of : {"pipeline"}, what : Rows \X Tags]

\* One request reads a pipeline, whose flag says so, and nothing of it is shown.
PipelinesRead(now, all) ==
    /\ \A one, other \in all :
          one.of = "pipeline" /\ other.of = "pipeline" /\ one.what = other.what =>
             one = other
    /\ \A key \in Rows \X Tags : key \in now.loadingPipelines <=>
          \E load \in all : load.of = "pipeline" /\ load.what = key
    /\ now.pipelines \cap now.pipelineErrors = {}
    /\ now.loadingPipelines \cap (now.pipelines \cup now.pipelineErrors) = {}

\* The same of the tags of a project whose loads never overlapped.
TagsRead(now, all) ==
    /\ \A one, other \in all :
          /\ one.of = "tags" /\ other.of = "tags" /\ one.what = other.what
          /\ one.what \notin now.overlapped
          => one = other
    /\ \A load \in all : load.of = "tags" /\ load.what \notin now.overlapped =>
          load.what \notin now.tags \cup now.tagErrors
    /\ now.tags \cap now.tagErrors \subseteq now.overlapped

ProjectsInv ==
    /\ servicesPage = NoServicesPage /\ projectsPage \in ProjectStates
    /\ loadCount \in 0..MaxLoads
    /\ loads \subseteq TagLoads(loadCount) \cup PipelineLoads(loadCount)
    /\ PipelinesRead(projectsPage, loads) /\ TagsRead(projectsPage, loads)

LEMMA MoreProjectLoads ==
  ASSUME NEW n \in Nat, NEW load \in TagLoads(n) \cup PipelineLoads(n)
  PROVE  load \in TagLoads(n + 1) \cup PipelineLoads(n + 1)
  <1>1. \A i \in 1..n : i \in 1..(n + 1)
    OBVIOUS
  <1>2. QED
    BY <1>1 DEF TagLoads, PipelineLoads

LEMMA NoProjects ==
  /\ NoProjectsPage \in ProjectStates
  /\ NoProjectsPage.expanded = {} /\ NoProjectsPage.tags = {}
  /\ NoProjectsPage.loadingTags = {} /\ NoProjectsPage.tagErrors = {}
  /\ NoProjectsPage.selectedTag = {} /\ NoProjectsPage.pipelines = {}
  /\ NoProjectsPage.loadingPipelines = {} /\ NoProjectsPage.pipelineErrors = {}
  <1> DEFINE e == {}
  <1>1. e \in RowSets /\ e \in KeySets
    BY DEF RowSets, KeySets
  <1>2. NoProjectsPage = [open |-> FALSE, expanded |-> e, tags |-> e, loadingTags |-> e,
           tagErrors |-> e, selectedTag |-> e, pipelines |-> e,
           loadingPipelines |-> e, pipelineErrors |-> e, overlapped |-> e]
    BY DEF NoProjectsPage
  <1>3. e = {}
    OBVIOUS
  <1> HIDE DEF e
  <1>4. QED
    BY <1>1, <1>2, <1>3 DEF ProjectStates

LEMMA ProjectsInitInv == ProjectsInit => ProjectsInv
  <1> SUFFICES ASSUME ProjectsInit PROVE ProjectsInv
    OBVIOUS
  <1>1. /\ projectsPage = [NoProjectsPage EXCEPT !.open = TRUE]
        /\ servicesPage = NoServicesPage /\ loads = {} /\ loadCount = 0
    BY DEF ProjectsInit
  <1>2. /\ projectsPage \in ProjectStates
        /\ projectsPage.tags = {} /\ projectsPage.tagErrors = {}
        /\ projectsPage.pipelines = {} /\ projectsPage.loadingPipelines = {}
        /\ projectsPage.pipelineErrors = {}
    BY <1>1, NoProjects DEF ProjectStates
  <1>3. loadCount \in 0..MaxLoads
    BY <1>1, ListPagesAssumption
  <1>4. QED
    BY <1>1, <1>2, <1>3 DEF ProjectsInv, PipelinesRead, TagsRead

\* loadTags: of a project whose tags are not there, or that has an error.
LEMMA LoadTagsStep ==
  ASSUME ProjectsInv, NEW p \in Rows, NEW more \in RowSets, NEW now,
         now = [projectsPage EXCEPT !.expanded = more],
         p \notin projectsPage.tags \/ p \in projectsPage.tagErrors,
         LoadTags(now, p), UNCHANGED servicesPage
  PROVE  ProjectsInv'
  <1> DEFINE r == [nr |-> loadCount + 1, of |-> "tags", what |-> p]
             loading == projectsPage.loadingTags \cup {p}
             errors == projectsPage.tagErrors \ {p}
             none == UnderWay("tags", p) = {}
             overlaps == IF none THEN projectsPage.overlapped
                         ELSE projectsPage.overlapped \cup {p}
  <1>1. /\ projectsPage \in ProjectStates /\ loadCount \in Nat /\ MaxLoads \in Nat
        /\ loadCount < MaxLoads /\ loadCount' = loadCount + 1
        /\ loadCount' \in 0..MaxLoads
        /\ loads \subseteq TagLoads(loadCount) \cup PipelineLoads(loadCount)
        /\ PipelinesRead(projectsPage, loads) /\ TagsRead(projectsPage, loads)
    BY ListPagesAssumption DEF ProjectsInv, LoadTags, Load
  <1>2. /\ now \in ProjectStates
        /\ now.loadingTags = projectsPage.loadingTags
        /\ now.tagErrors = projectsPage.tagErrors /\ now.tags = projectsPage.tags
        /\ now.overlapped = projectsPage.overlapped
        /\ now.pipelines = projectsPage.pipelines
        /\ now.loadingPipelines = projectsPage.loadingPipelines
        /\ now.pipelineErrors = projectsPage.pipelineErrors
    BY <1>1 DEF ProjectStates
  <1>3. loading \in RowSets /\ errors \in RowSets /\ overlaps \in RowSets
    BY <1>1 DEF ProjectStates, RowSets
  <1>4. /\ projectsPage' = [now EXCEPT !.loadingTags = loading, !.tagErrors = errors,
                                       !.overlapped = overlaps]
        /\ loads' = loads \cup {r}
    BY <1>1, <1>2 DEF LoadTags, Load
  <1>5. /\ projectsPage' \in ProjectStates
        /\ projectsPage'.tags = projectsPage.tags
        /\ projectsPage'.tagErrors = errors /\ projectsPage'.overlapped = overlaps
        /\ projectsPage'.pipelines = projectsPage.pipelines
        /\ projectsPage'.loadingPipelines = projectsPage.loadingPipelines
        /\ projectsPage'.pipelineErrors = projectsPage.pipelineErrors
    <2> HIDE DEF loading, errors, overlaps
    <2>1. QED
      BY <1>2, <1>3, <1>4 DEF ProjectStates
  <1>6. /\ r \in TagLoads(loadCount + 1) /\ r.of = "tags" /\ r.what = p
    BY <1>1 DEF TagLoads
  <1> HIDE DEF r
  <1>7. /\ \A x \in loads' : x = r \/ x \in loads
        /\ loads \subseteq loads' /\ r \in loads' /\ r.of # "pipeline"
    BY <1>4, <1>6
  <1>8. loads' \subseteq TagLoads(loadCount') \cup PipelineLoads(loadCount')
    BY <1>1, <1>6, <1>7, MoreProjectLoads
  <1>9. PipelinesRead(projectsPage', loads')
    BY <1>1, <1>5, <1>7 DEF PipelinesRead
  <1>10. /\ projectsPage.overlapped \subseteq overlaps
         /\ p \notin overlaps => /\ \A x \in loads : x.of = "tags" => x.what # p
                                 /\ p \notin projectsPage.tags
    BY <1>1 DEF UnderWay, TagsRead
  <1>11. errors \subseteq projectsPage.tagErrors /\ p \notin errors
    OBVIOUS
  <1> HIDE DEF errors, overlaps
  <1>12. TagsRead(projectsPage', loads')
    <2>1. \A one, other \in loads' :
            /\ one.of = "tags" /\ other.of = "tags" /\ one.what = other.what
            /\ one.what \notin overlaps
            => one = other
      BY <1>1, <1>6, <1>7, <1>10 DEF TagsRead
    <2>2. \A load \in loads' : load.of = "tags" /\ load.what \notin overlaps =>
            load.what \notin projectsPage.tags \cup errors
      BY <1>1, <1>6, <1>7, <1>10, <1>11 DEF TagsRead
    <2>3. projectsPage.tags \cap errors \subseteq overlaps
      BY <1>1, <1>10, <1>11 DEF TagsRead
    <2>4. QED
      BY <1>5, <2>1, <2>2, <2>3 DEF TagsRead
  <1>13. QED
    BY <1>1, <1>5, <1>8, <1>9, <1>12 DEF ProjectsInv

LEMMA TagsStep ==
  ASSUME ProjectsInv, NEW p \in Rows, ToggleProject(p) \/ RetryTags(p)
  PROVE  ProjectsInv'
  <1>0. projectsPage \in ProjectStates /\ projectsPage.expanded \subseteq Rows
        /\ servicesPage' = servicesPage
    BY DEF ProjectsInv, ProjectStates, RowSets, ToggleProject, RetryTags
  <1>1. ASSUME NEW other \in RowSets,
               projectsPage' = [projectsPage EXCEPT !.expanded = other],
               UNCHANGED <<loads, loadCount>>
        PROVE  ProjectsInv'
    <2>1. /\ projectsPage' \in ProjectStates
          /\ projectsPage'.tags = projectsPage.tags
          /\ projectsPage'.tagErrors = projectsPage.tagErrors
          /\ projectsPage'.overlapped = projectsPage.overlapped
          /\ projectsPage'.pipelines = projectsPage.pipelines
          /\ projectsPage'.loadingPipelines = projectsPage.loadingPipelines
          /\ projectsPage'.pipelineErrors = projectsPage.pipelineErrors
      BY <1>0, <1>1 DEF ProjectStates
    <2>2. QED
      BY <1>0, <1>1, <2>1 DEF ProjectsInv, PipelinesRead, TagsRead
  <1>2. CASE ToggleProject(p)
    <2>1. CASE p \in projectsPage.expanded
      <3> DEFINE fewer == projectsPage.expanded \ {p}
      <3>1. /\ projectsPage' = [projectsPage EXCEPT !.expanded = fewer]
            /\ UNCHANGED <<loads, loadCount>>
        BY <1>2, <2>1 DEF ToggleProject
      <3>2. fewer \in RowSets
        BY <1>0 DEF RowSets
      <3> HIDE DEF fewer
      <3>3. QED
        BY <1>1, <3>1, <3>2
    <2>2. CASE p \notin projectsPage.expanded
      <3> DEFINE more == projectsPage.expanded \cup {p}
                 now == [projectsPage EXCEPT !.expanded = more]
      <3>1. more \in RowSets
        BY <1>0 DEF RowSets
      <3>2. now.tags = projectsPage.tags
        BY <1>0 DEF ProjectStates
      <3>3. \/ projectsPage' = now /\ UNCHANGED <<loads, loadCount>>
            \/ p \notin projectsPage.tags /\ LoadTags(now, p)
        BY <1>2, <2>2, <3>2 DEF ToggleProject
      <3> HIDE DEF more
      <3>4. QED
        BY <1>0, <1>1, <3>1, <3>3, LoadTagsStep
    <2>3. QED
      BY <2>1, <2>2
  <1>3. CASE RetryTags(p)
    <2>1. /\ p \in projectsPage.tagErrors /\ LoadTags(projectsPage, p)
      BY <1>3 DEF RetryTags
    <2>2. projectsPage.expanded \in RowSets
          /\ projectsPage = [projectsPage EXCEPT !.expanded = projectsPage.expanded]
      BY <1>0 DEF ProjectStates
    <2>3. QED
      BY <1>0, <2>1, <2>2, LoadTagsStep
  <1>4. QED
    BY <1>2, <1>3

LEMMA TagsAnsweredStep ==
  ASSUME ProjectsInv, NEW load \in loads, NEW ok \in BOOLEAN, TagsAnswered(load, ok)
  PROVE  ProjectsInv'
  <1> DEFINE p == load.what
             tags == IF ok THEN projectsPage.tags \cup {p} ELSE projectsPage.tags
             errors == IF ok THEN projectsPage.tagErrors ELSE projectsPage.tagErrors \cup {p}
             loading == projectsPage.loadingTags \ {p}
  <1>1. /\ projectsPage \in ProjectStates /\ loadCount \in 0..MaxLoads
        /\ loads \subseteq TagLoads(loadCount) \cup PipelineLoads(loadCount)
        /\ PipelinesRead(projectsPage, loads) /\ TagsRead(projectsPage, loads)
        /\ load.of = "tags" /\ loads' = loads \ {load} /\ loadCount' = loadCount
        /\ servicesPage' = servicesPage
    BY DEF ProjectsInv, TagsAnswered, Loaded
  <1>2. p \in Rows
    BY <1>1 DEF TagLoads, PipelineLoads
  <1>3. projectsPage' = [projectsPage EXCEPT !.tags = tags, !.tagErrors = errors,
                                             !.loadingTags = loading]
    BY DEF TagsAnswered
  <1>4. tags \in RowSets /\ errors \in RowSets /\ loading \in RowSets
    BY <1>1, <1>2 DEF ProjectStates, RowSets
  <1>5. /\ projectsPage.tags \subseteq tags /\ tags \subseteq projectsPage.tags \cup {p}
        /\ projectsPage.tagErrors \subseteq errors
        /\ errors \subseteq projectsPage.tagErrors \cup {p}
        /\ tags = projectsPage.tags \/ errors = projectsPage.tagErrors
    OBVIOUS
  <1> HIDE DEF tags, errors, loading
  <1>6. /\ projectsPage' \in ProjectStates
        /\ projectsPage'.tags = tags /\ projectsPage'.tagErrors = errors
        /\ projectsPage'.overlapped = projectsPage.overlapped
        /\ projectsPage'.pipelines = projectsPage.pipelines
        /\ projectsPage'.loadingPipelines = projectsPage.loadingPipelines
        /\ projectsPage'.pipelineErrors = projectsPage.pipelineErrors
    BY <1>1, <1>3, <1>4 DEF ProjectStates
  <1>7. PipelinesRead(projectsPage', loads')
    BY <1>1, <1>6 DEF PipelinesRead
  <1>8. TagsRead(projectsPage', loads')
    <2>1. \A x \in loads' : x.of = "tags" /\ x.what \notin projectsPage.overlapped =>
             x.what # p
      BY <1>1 DEF TagsRead
    <2>2. p \notin projectsPage.overlapped =>
             p \notin projectsPage.tags \cup projectsPage.tagErrors
      BY <1>1 DEF TagsRead
    <2>3. \A x \in loads' : x.of = "tags" /\ x.what \notin projectsPage.overlapped =>
             x.what \notin tags \cup errors
      BY <1>1, <1>5, <2>1 DEF TagsRead
    <2>4. tags \cap errors \subseteq projectsPage.overlapped
      BY <1>1, <1>5, <2>2 DEF TagsRead
    <2>5. QED
      BY <1>1, <1>6, <2>3, <2>4 DEF TagsRead
  <1>9. QED
    BY <1>1, <1>6, <1>7, <1>8 DEF ProjectsInv

LEMMA SelectTagStep ==
  ASSUME ProjectsInv, NEW p \in Rows, NEW tag \in Tags, SelectTag(p, tag)
  PROVE  ProjectsInv'
  <1> DEFINE key == <<p, tag>>
             chosen == {k \in projectsPage.selectedTag : k[1] # p} \cup {key}
             now == [projectsPage EXCEPT !.selectedTag = chosen]
             loading == projectsPage.loadingPipelines \cup {key}
             errors == projectsPage.pipelineErrors \ {key}
             r == [nr |-> loadCount + 1, of |-> "pipeline", what |-> key]
  <1>1. /\ projectsPage \in ProjectStates /\ loadCount \in 0..MaxLoads
        /\ loadCount \in Nat /\ MaxLoads \in Nat
        /\ loads \subseteq TagLoads(loadCount) \cup PipelineLoads(loadCount)
        /\ PipelinesRead(projectsPage, loads) /\ TagsRead(projectsPage, loads)
        /\ servicesPage' = servicesPage
    BY ListPagesAssumption DEF ProjectsInv, SelectTag
  <1>2. /\ key \in Rows \X Tags
    OBVIOUS
  <1>3. \/ ~NeedsPipeline(key) /\ projectsPage' = now /\ UNCHANGED <<loads, loadCount>>
        \/ /\ NeedsPipeline(key) /\ Load("pipeline", key)
           /\ projectsPage' = [now EXCEPT !.loadingPipelines = @ \cup {key},
                                          !.pipelineErrors = @ \ {key}]
    BY DEF SelectTag
  <1>4. /\ chosen \in KeySets /\ loading \in KeySets /\ errors \in KeySets
    BY <1>1, <1>2 DEF ProjectStates, KeySets
  <1> HIDE DEF chosen, key
  <1>5. /\ now \in ProjectStates /\ now.tags = projectsPage.tags
        /\ now.tagErrors = projectsPage.tagErrors
        /\ now.overlapped = projectsPage.overlapped
        /\ now.pipelines = projectsPage.pipelines
        /\ now.loadingPipelines = projectsPage.loadingPipelines
        /\ now.pipelineErrors = projectsPage.pipelineErrors
    BY <1>1, <1>4 DEF ProjectStates
  <1> HIDE DEF now
  <1>6. CASE projectsPage' = now /\ UNCHANGED <<loads, loadCount>>
    BY <1>1, <1>5, <1>6 DEF ProjectsInv, PipelinesRead, TagsRead
  <1>7. CASE /\ NeedsPipeline(key) /\ Load("pipeline", key)
             /\ projectsPage' = [now EXCEPT !.loadingPipelines = @ \cup {key},
                                            !.pipelineErrors = @ \ {key}]
    <2>1. projectsPage' = [now EXCEPT !.loadingPipelines = loading,
                                      !.pipelineErrors = errors]
      BY <1>5, <1>7
    <2>2. /\ key \notin projectsPage.pipelines /\ key \notin projectsPage.loadingPipelines
      BY <1>7 DEF NeedsPipeline
    <2>3. /\ loadCount' = loadCount + 1 /\ loadCount' \in 0..MaxLoads
          /\ loads' = loads \cup {r}
      BY <1>1, <1>7 DEF Load
    <2>4. /\ projectsPage' \in ProjectStates
          /\ projectsPage'.tags = projectsPage.tags
          /\ projectsPage'.tagErrors = projectsPage.tagErrors
          /\ projectsPage'.overlapped = projectsPage.overlapped
          /\ projectsPage'.pipelines = projectsPage.pipelines
          /\ projectsPage'.loadingPipelines = loading
          /\ projectsPage'.pipelineErrors = errors
      <3> HIDE DEF loading, errors
      <3>1. QED
        BY <1>4, <1>5, <2>1 DEF ProjectStates
    <2>5. r \in PipelineLoads(loadCount + 1) /\ r.of = "pipeline" /\ r.what = key
      BY <1>1, <1>2 DEF PipelineLoads
    <2> HIDE DEF r
    <2>6. /\ \A x \in loads' : x = r \/ x \in loads
          /\ loads \subseteq loads' /\ r \in loads'
      BY <2>3
    <2>7. loads' \subseteq TagLoads(loadCount') \cup PipelineLoads(loadCount')
      BY <1>1, <2>3, <2>5, <2>6, MoreProjectLoads
    <2>8. \A x \in loads : x.of = "pipeline" => x.what # key
      BY <1>1, <1>2, <2>2 DEF PipelinesRead
    <2>9. PipelinesRead(projectsPage', loads')
      <3>1. \A one, other \in loads' :
              one.of = "pipeline" /\ other.of = "pipeline" /\ one.what = other.what =>
                 one = other
        BY <1>1, <2>5, <2>6, <2>8 DEF PipelinesRead
      <3>2. \A k \in Rows \X Tags : k \in loading <=>
              \E load \in loads' : load.of = "pipeline" /\ load.what = k
        BY <1>1, <2>5, <2>6 DEF PipelinesRead
      <3>3. /\ projectsPage.pipelines \cap errors = {}
            /\ loading \cap (projectsPage.pipelines \cup errors) = {}
        BY <1>1, <2>2 DEF PipelinesRead
      <3>4. QED
        BY <2>4, <3>1, <3>2, <3>3 DEF PipelinesRead
    <2>10. TagsRead(projectsPage', loads')
      BY <1>1, <2>4, <2>5, <2>6 DEF TagsRead
    <2>11. QED
      BY <1>1, <2>3, <2>4, <2>7, <2>9, <2>10 DEF ProjectsInv
  <1>8. QED
    BY <1>3, <1>6, <1>7

LEMMA PipelineAnsweredStep ==
  ASSUME ProjectsInv, NEW load \in loads, NEW ok \in BOOLEAN, PipelineAnswered(load, ok)
  PROVE  ProjectsInv'
  <1> DEFINE key == load.what
             read == IF ok THEN projectsPage.pipelines \cup {key} ELSE projectsPage.pipelines
             errors == IF ok THEN projectsPage.pipelineErrors
                       ELSE projectsPage.pipelineErrors \cup {key}
             loading == projectsPage.loadingPipelines \ {key}
  <1>1. /\ projectsPage \in ProjectStates /\ loadCount \in 0..MaxLoads
        /\ loads \subseteq TagLoads(loadCount) \cup PipelineLoads(loadCount)
        /\ PipelinesRead(projectsPage, loads) /\ TagsRead(projectsPage, loads)
        /\ load.of = "pipeline" /\ loads' = loads \ {load} /\ loadCount' = loadCount
        /\ servicesPage' = servicesPage
    BY DEF ProjectsInv, PipelineAnswered, Loaded
  <1>2. key \in Rows \X Tags
    BY <1>1 DEF TagLoads, PipelineLoads
  <1>3. projectsPage' = [projectsPage EXCEPT !.pipelines = read, !.pipelineErrors = errors,
                                             !.loadingPipelines = loading]
    BY DEF PipelineAnswered
  <1>4. read \in KeySets /\ errors \in KeySets /\ loading \in KeySets
    BY <1>1, <1>2 DEF ProjectStates, KeySets
  <1>5. key \in projectsPage.loadingPipelines
    BY <1>1, <1>2 DEF PipelinesRead
  <1>6. read \cap errors = {} /\ loading \cap (read \cup errors) = {}
    BY <1>1, <1>5 DEF PipelinesRead
  <1>7. \A k : k \in loading <=> k \in projectsPage.loadingPipelines /\ k # key
    OBVIOUS
  <1> HIDE DEF read, errors, loading
  <1>8. /\ projectsPage' \in ProjectStates
        /\ projectsPage'.tags = projectsPage.tags
        /\ projectsPage'.tagErrors = projectsPage.tagErrors
        /\ projectsPage'.overlapped = projectsPage.overlapped
        /\ projectsPage'.pipelines = read
        /\ projectsPage'.loadingPipelines = loading
        /\ projectsPage'.pipelineErrors = errors
    BY <1>1, <1>3, <1>4 DEF ProjectStates
  <1>9. \A x \in loads' : x.of = "pipeline" => x.what # key
    BY <1>1 DEF PipelinesRead
  <1>10. PipelinesRead(projectsPage', loads')
    BY <1>1, <1>6, <1>7, <1>8, <1>9 DEF PipelinesRead
  <1>11. TagsRead(projectsPage', loads')
    BY <1>1, <1>8 DEF TagsRead
  <1>12. QED
    BY <1>1, <1>8, <1>10, <1>11 DEF ProjectsInv

LEMMA ProjectsNextInv == ASSUME ProjectsInv, ProjectsNext PROVE ProjectsInv'
  BY TagsStep, SelectTagStep, TagsAnsweredStep, PipelineAnsweredStep DEF ProjectsNext

-----------------------------------------------------------------------------
LEMMA ServicesKeep ==
  ASSUME ServicesInv
  PROVE  ListPagesTypeOK /\ RowsLoadOnce /\ SelectionIsWhatIsSent
  <1>1. /\ projectsPage = NoProjectsPage /\ servicesPage \in ServiceStates
        /\ loadCount \in 0..MaxLoads /\ MaxLoads \in Nat /\ loadCount <= MaxLoads
        /\ loads \subseteq ReadLoads(loadCount) \cup SentLoads(loadCount)
        /\ RowsRead(servicesPage, loads, loadCount) /\ OneIsSent(servicesPage, loads)
    BY ListPagesAssumption DEF ServicesInv
  <1>2. /\ projectsPage.expanded = {} /\ projectsPage.tags = {}
        /\ projectsPage.loadingTags = {} /\ projectsPage.tagErrors = {}
        /\ projectsPage.selectedTag = {} /\ projectsPage.pipelines = {}
        /\ projectsPage.loadingPipelines = {} /\ projectsPage.pipelineErrors = {}
    BY <1>1, NoProjects
  <1>3. \A load \in loads : load.of # "pipeline"
    BY <1>1 DEF ReadLoads, SentLoads, Reads, Operations
  <1>4. ListPagesTypeOK
    <2>1. servicesPage.tasks \in [Rows -> 0..MaxLoads]
      <3>1. servicesPage.tasks \in [Rows -> Nat]
        BY <1>1 DEF ServiceStates, RowNumbers
      <3>2. \A s \in Rows : servicesPage.tasks[s] \in 0..MaxLoads
        BY <1>1, <3>1 DEF RowsRead
      <3>3. QED
        BY <3>1, <3>2
    <2>2. /\ servicesPage.expanded \subseteq Rows /\ servicesPage.taskLoading \subseteq Rows
          /\ servicesPage.selected \subseteq Rows /\ servicesPage.dialog \subseteq Operations
      BY <1>1 DEF ServiceStates, RowSets, OperationSets
    <2>3. QED
      BY <1>1, <1>2, <2>1, <2>2 DEF ListPagesTypeOK, OneIsSent
  <1>5. RowsLoadOnce
    <2>1. ASSUME NEW s \in Rows
          PROVE  /\ Cardinality(UnderWay("tasks", s) \cup UnderWay("nodes", s)) <= 1
                 /\ s \in servicesPage.taskLoading <=>
                       UnderWay("tasks", s) \cup UnderWay("nodes", s) # {}
                 /\ \A load \in UnderWay("tasks", s) : load.nr > servicesPage.tasks[s]
      <3> DEFINE all == UnderWay("tasks", s) \cup UnderWay("nodes", s)
      <3>1. \A load : load \in all <=> load \in loads /\ load.of \in Reads /\ load.what = s
        BY DEF UnderWay, Reads
      <3>2. \A load \in UnderWay("tasks", s) : load.nr > servicesPage.tasks[s]
        BY <1>1 DEF UnderWay, RowsRead
      <3> HIDE DEF all
      <3>3. \A one, other \in all : one = other
        BY <1>1, <3>1 DEF RowsRead
      <3>4. Cardinality(all) <= 1
        BY <3>3, OneAtMost
      <3>5. s \in servicesPage.taskLoading <=> all # {}
        BY <1>1, <3>1 DEF RowsRead
      <3>6. QED
        BY <3>2, <3>4, <3>5 DEF all
    <2>2. ASSUME NEW p \in Rows, NEW tag \in Tags
          PROVE  LET key == <<p, tag>> IN
                 /\ Cardinality(UnderWay("pipeline", key)) <= 1
                 /\ key \in projectsPage.loadingPipelines <=>
                       UnderWay("pipeline", key) # {}
                 /\ key \notin projectsPage.pipelines \cap projectsPage.pipelineErrors
      <3> DEFINE key == <<p, tag>>
                 all == UnderWay("pipeline", key)
      <3>1. all = {}
        BY <1>3 DEF UnderWay
      <3> HIDE DEF all
      <3>2. Cardinality(all) <= 1
        BY <3>1, OneAtMost
      <3>3. QED
        BY <1>2, <3>1, <3>2 DEF all
    <2>3. QED
      BY <1>2, <2>1, <2>2 DEF RowsLoadOnce
  <1>6. SelectionIsWhatIsSent
    <2>1. ASSUME NEW o \in Operations
          PROVE  LET sent == {load \in loads : load.of = o} IN
                 /\ Cardinality(sent) <= 1
                 /\ o \in servicesPage.busy <=> sent # {}
                 /\ \A load \in sent : load.what = servicesPage.selected
      <3> DEFINE sent == {load \in loads : load.of = o}
      <3>1. \A load : load \in sent <=> load \in loads /\ load.of = o
        OBVIOUS
      <3> HIDE DEF sent
      <3>2. \A one, other \in sent : one = other
        BY <1>1, <3>1 DEF OneIsSent
      <3>3. Cardinality(sent) <= 1
        BY <3>2, OneAtMost
      <3>4. /\ o \in servicesPage.busy <=> sent # {}
            /\ \A load \in sent : load.what = servicesPage.selected
        BY <1>1, <3>1 DEF OneIsSent
      <3>5. QED
        BY <3>3, <3>4 DEF sent
    <2>2. QED
      BY <2>1 DEF SelectionIsWhatIsSent
  <1>7. QED
    BY <1>4, <1>5, <1>6

LEMMA ProjectsKeep ==
  ASSUME ProjectsInv
  PROVE  ListPagesTypeOK /\ RowsLoadOnce /\ SelectionIsWhatIsSent
  <1>1. /\ servicesPage = NoServicesPage /\ projectsPage \in ProjectStates
        /\ loadCount \in 0..MaxLoads /\ MaxLoads \in Nat
        /\ loads \subseteq TagLoads(loadCount) \cup PipelineLoads(loadCount)
        /\ PipelinesRead(projectsPage, loads) /\ TagsRead(projectsPage, loads)
    BY ListPagesAssumption DEF ProjectsInv
  <1>2. /\ servicesPage.expanded = {} /\ servicesPage.taskLoading = {}
        /\ servicesPage.selected = {} /\ servicesPage.dialog = {}
        /\ servicesPage.busy = {} /\ servicesPage.tasks \in [Rows -> Nat]
        /\ \A s \in Rows : servicesPage.tasks[s] = 0
    BY <1>1, NoServices DEF ServiceStates, RowNumbers
  <1>3. \A load \in loads : load.of \in {"tags", "pipeline"}
    BY <1>1 DEF TagLoads, PipelineLoads
  <1>4. ListPagesTypeOK
    <2>1. servicesPage.tasks \in [Rows -> 0..MaxLoads]
      BY <1>1, <1>2
    <2>2. /\ projectsPage.expanded \subseteq Rows /\ projectsPage.tags \subseteq Rows
          /\ projectsPage.loadingTags \subseteq Rows /\ projectsPage.tagErrors \subseteq Rows
          /\ projectsPage.selectedTag \subseteq Rows \X Tags
          /\ projectsPage.pipelines \subseteq Rows \X Tags
          /\ projectsPage.loadingPipelines \subseteq Rows \X Tags
          /\ projectsPage.pipelineErrors \subseteq Rows \X Tags
      BY <1>1 DEF ProjectStates, RowSets, KeySets
    <2>3. QED
      BY <1>1, <1>2, <2>1, <2>2 DEF ListPagesTypeOK
  <1>5. RowsLoadOnce
    <2>1. ASSUME NEW s \in Rows
          PROVE  /\ Cardinality(UnderWay("tasks", s) \cup UnderWay("nodes", s)) <= 1
                 /\ s \in servicesPage.taskLoading <=>
                       UnderWay("tasks", s) \cup UnderWay("nodes", s) # {}
                 /\ \A load \in UnderWay("tasks", s) : load.nr > servicesPage.tasks[s]
      <3> DEFINE all == UnderWay("tasks", s) \cup UnderWay("nodes", s)
      <3>1. all = {} /\ UnderWay("tasks", s) = {}
        BY <1>3 DEF UnderWay
      <3> HIDE DEF all
      <3>2. Cardinality(all) <= 1
        BY <3>1, OneAtMost
      <3>3. QED
        BY <1>2, <3>1, <3>2 DEF all
    <2>2. ASSUME NEW p \in Rows, NEW tag \in Tags
          PROVE  LET key == <<p, tag>> IN
                 /\ Cardinality(UnderWay("pipeline", key)) <= 1
                 /\ key \in projectsPage.loadingPipelines <=>
                       UnderWay("pipeline", key) # {}
                 /\ key \notin projectsPage.pipelines \cap projectsPage.pipelineErrors
      <3> DEFINE key == <<p, tag>>
                 all == UnderWay("pipeline", key)
      <3>1. key \in Rows \X Tags
        OBVIOUS
      <3>2. \A load : load \in all <=>
               load \in loads /\ load.of = "pipeline" /\ load.what = key
        BY DEF UnderWay
      <3> HIDE DEF all, key
      <3>3. \A one, other \in all : one = other
        BY <1>1, <3>2 DEF PipelinesRead
      <3>4. Cardinality(all) <= 1
        BY <3>3, OneAtMost
      <3>5. /\ key \in projectsPage.loadingPipelines <=> all # {}
            /\ key \notin projectsPage.pipelines \cap projectsPage.pipelineErrors
        BY <1>1, <3>1, <3>2 DEF PipelinesRead
      <3>6. QED
        BY <3>4, <3>5 DEF all, key
    <2>3. projectsPage.tags \cap projectsPage.tagErrors \subseteq projectsPage.overlapped
      BY <1>1 DEF TagsRead
    <2>4. QED
      BY <2>1, <2>2, <2>3 DEF RowsLoadOnce
  <1>6. SelectionIsWhatIsSent
    <2>1. ASSUME NEW o \in Operations
          PROVE  LET sent == {load \in loads : load.of = o} IN
                 /\ Cardinality(sent) <= 1
                 /\ o \in servicesPage.busy <=> sent # {}
                 /\ \A load \in sent : load.what = servicesPage.selected
      <3> DEFINE sent == {load \in loads : load.of = o}
      <3>1. sent = {}
        BY <1>3 DEF Operations
      <3> HIDE DEF sent
      <3>2. Cardinality(sent) <= 1
        BY <3>1, OneAtMost
      <3>3. QED
        BY <1>2, <3>1, <3>2 DEF sent
    <2>2. QED
      BY <2>1 DEF SelectionIsWhatIsSent
  <1>7. QED
    BY <1>4, <1>5, <1>6

------------------------------------------------------------------------------
(* The page of a terminal.                                                *)

TerminalStates ==
    [mounted : BOOLEAN, shell : BOOLEAN, connecting : BOOLEAN, error : BOOLEAN,
     disposed : BOOLEAN, opened : BOOLEAN, socket : Nat \cup {Nothing}]
SocketEnds ==
    [state : {"connecting", "open", "closing", "closed"}, ticket : Nat]

\* Sockets have tickets that were issued, and no two the same one.
Ticketed(own, n) ==
    /\ own \in Seq(SocketEnds)
    /\ \A i \in DOMAIN own : own[i].ticket \in 1..n
    /\ \A i, j \in DOMAIN own : own[i].ticket = own[j].ticket => i = j

\* A socket may open or be open only while it is that of a page in use.
Mastered(now, own) ==
    /\ now.socket \in DOMAIN own \cup {Nothing}
    /\ \A i \in DOMAIN own : own[i].state \in {"connecting", "open"} =>
          i = now.socket /\ ~now.disposed

\* Who asks for a ticket has no socket, and is shown to be connecting; who is
\* neither connecting nor in error has one.
Waits(now, asked) ==
    /\ now.disposed <=> ~now.mounted
    /\ "page" \in asked => now.mounted /\ now.connecting /\ now.socket = Nothing
    /\ now.mounted =>
          /\ now.connecting => "page" \in asked \/ now.socket # Nothing
          /\ ~now.connecting /\ ~now.error => now.socket # Nothing

\* The ticket that is kept was issued and is no socket's.
TicketKept(ticket, own, n) ==
    /\ ticket \in 1..n \cup {Nothing}
    /\ ticket # Nothing => \A i \in DOMAIN own : own[i].ticket # ticket

TerminalInv ==
    /\ terminalPage \in TerminalStates /\ issued \in 0..MaxTickets
    /\ asking \subseteq {"services", "page", "leftPage"}
    /\ Ticketed(ends, issued) /\ Mastered(terminalPage, ends)
    /\ Waits(terminalPage, asking) /\ TicketKept(terminalTickets, ends, issued)

LEMMA NoPageIs ==
  /\ NoPage \in TerminalStates /\ NoPage.socket = Nothing
  /\ NoPage.disposed /\ ~NoPage.mounted
  /\ FreshPage \in TerminalStates /\ FreshPage.socket = Nothing
  /\ ~FreshPage.disposed /\ FreshPage.mounted
  BY DEF NoPage, FreshPage, TerminalStates

LEMMA TerminalPageInitInv == TerminalPageInit => TerminalInv
  <1> SUFFICES ASSUME TerminalPageInit PROVE TerminalInv
    OBVIOUS
  <1> DEFINE e == <<>>
  <1>1. /\ terminalTickets = Nothing /\ terminalPage = NoPage /\ ends = e
        /\ asking = {} /\ issued = 0
        /\ e \in Seq(SocketEnds) /\ DOMAIN e = {}
    BY DEF TerminalPageInit
  <1> HIDE DEF e
  <1>2. 0 \in 0..MaxTickets
    BY TerminalPageAssumption
  <1>3. QED
    BY <1>1, <1>2, NoPageIs DEF TerminalInv, Ticketed, Mastered, Waits, TicketKept

-----------------------------------------------------------------------------
\* What the sockets are when one of them takes another state.
InState(k, new) == [ends EXCEPT ![k].state = new]

LEMMA OtherState ==
  ASSUME TerminalInv, NEW k \in DOMAIN ends, NEW own,
         NEW new \in {"connecting", "open", "closing", "closed"},
         own = InState(k, new)
  PROVE  /\ Ticketed(own, issued) /\ TicketKept(terminalTickets, own, issued)
         /\ DOMAIN own = DOMAIN ends /\ Len(own) = Len(ends)
         /\ \A i \in DOMAIN own :
               own[i].state = IF i = k THEN new ELSE ends[i].state
  <1> DEFINE s == [ends[k] EXCEPT !.state = new]
  <1>1. /\ ends \in Seq(SocketEnds) /\ DOMAIN ends = 1..Len(ends) /\ Len(ends) \in Nat
        /\ \A i \in DOMAIN ends : ends[i].ticket \in 1..issued
        /\ \A i, j \in DOMAIN ends : ends[i].ticket = ends[j].ticket => i = j
    BY DEF TerminalInv, Ticketed
  <1>2. k \in 1..Len(ends) /\ ends[k] \in SocketEnds /\ own = [ends EXCEPT ![k] = s]
    BY <1>1, ElementOfSeq DEF InState
  <1>3. s \in SocketEnds /\ s.state = new /\ s.ticket = ends[k].ticket
    BY <1>2 DEF SocketEnds
  <1> HIDE DEF s
  <1>4. /\ own \in Seq(SocketEnds) /\ Len(own) = Len(ends)
        /\ \A i \in 1..Len(ends) : own[i] = IF i = k THEN s ELSE ends[i]
    BY <1>1, <1>2, <1>3, ExceptSeq
  <1>5. DOMAIN own = DOMAIN ends /\ DOMAIN own = 1..Len(ends)
    BY <1>1, <1>4
  <1>6. \A i \in DOMAIN own :
           /\ own[i].state = IF i = k THEN new ELSE ends[i].state
           /\ own[i].ticket = ends[i].ticket
    BY <1>3, <1>4, <1>5
  <1>7. Ticketed(own, issued)
    BY <1>1, <1>4, <1>5, <1>6 DEF Ticketed
  <1>8. TicketKept(terminalTickets, own, issued)
    BY <1>5, <1>6 DEF TerminalInv, TicketKept
  <1>9. QED
    BY <1>4, <1>5, <1>6, <1>7, <1>8

\* close() of the socket there is, or of none.
LEMMA ClosingOne ==
  ASSUME TerminalInv, NEW k \in DOMAIN ends \cup {Nothing}, NEW own,
         own = EndClosing(k)
  PROVE  /\ Ticketed(own, issued) /\ TicketKept(terminalTickets, own, issued)
         /\ DOMAIN own = DOMAIN ends
         /\ \A i \in DOMAIN own : own[i].state \in {"connecting", "open"} =>
               i # k /\ ends[i].state = own[i].state
  <1>1. CASE k = Nothing
    <2>1. own = ends
      BY <1>1 DEF EndClosing
    <2>2. DOMAIN ends = 1..Len(ends) /\ Len(ends) \in Nat
      BY DEF TerminalInv, Ticketed
    <2>3. \A i \in DOMAIN ends : i # Nothing
      BY <2>2, TerminalPageAssumption
    <2>4. QED
      BY <1>1, <2>1, <2>3 DEF TerminalInv
  <1>2. CASE k # Nothing
    <2> DEFINE new == IF ends[k].state = "closed" THEN ends[k].state ELSE "closing"
    <2>1. k \in DOMAIN ends /\ own = InState(k, new)
      BY <1>2 DEF EndClosing, InState
    <2>2. /\ new \in {"closing", "closed"}
          /\ new \in {"connecting", "open", "closing", "closed"}
      OBVIOUS
    <2> HIDE DEF new
    <2>3. /\ Ticketed(own, issued) /\ TicketKept(terminalTickets, own, issued)
          /\ DOMAIN own = DOMAIN ends
          /\ \A i \in DOMAIN own :
                own[i].state = IF i = k THEN new ELSE ends[i].state
      BY <2>1, <2>2, OtherState
    <2>4. QED
      BY <2>2, <2>3
  <1>3. QED
    BY <1>1, <1>2

\* A page connects with the ticket just issued, or with the one that was kept,
\* when no socket is open.
LEMMA ConnectingStep ==
  ASSUME TerminalInv, NEW now \in TerminalStates, NEW n \in 0..MaxTickets,
         NEW ticket \in 1..n, NEW left, NEW waiting,
         n >= issued, Connected(now, ends, ticket), issued' = n, asking' = waiting,
         terminalTickets' = left, left \in {Nothing, terminalTickets}, left # ticket,
         waiting \subseteq asking, "page" \notin waiting,
         \A i \in DOMAIN ends : /\ ends[i].ticket # ticket
                                /\ ends[i].state \notin {"connecting", "open"},
         now.mounted, ~now.disposed
  PROVE  TerminalInv'
  <1> DEFINE s == [state |-> "connecting", ticket |-> ticket]
             own == Append(ends, s)
             at == Len(ends) + 1
  <1>1. /\ ends \in Seq(SocketEnds) /\ DOMAIN ends = 1..Len(ends) /\ Len(ends) \in Nat
        /\ \A i \in DOMAIN ends : ends[i].ticket \in 1..issued
        /\ \A i, j \in DOMAIN ends : ends[i].ticket = ends[j].ticket => i = j
        /\ issued \in Nat /\ n \in Nat /\ MaxTickets \in Nat
    BY TerminalPageAssumption DEF TerminalInv, Ticketed
  <1>2. s \in SocketEnds /\ s.state = "connecting" /\ s.ticket = ticket
    BY <1>1 DEF SocketEnds
  <1>3. /\ ends' = own
        /\ terminalPage' = [now EXCEPT !.connecting = TRUE, !.error = FALSE, !.socket = at]
    BY DEF Connected
  <1> HIDE DEF s
  <1>4. /\ own \in Seq(SocketEnds) /\ Len(own) = Len(ends) + 1
        /\ \A i \in 1..Len(ends) : own[i] = ends[i]
        /\ own[at] = s
    BY <1>1, <1>2, AppendProperties
  <1>5. /\ DOMAIN own = 1..at /\ at \in Nat /\ at \in DOMAIN own
        /\ \A i \in DOMAIN own : i = at \/ i \in DOMAIN ends
    BY <1>1, <1>4
  <1> HIDE DEF own
  <1> HIDE DEF at
  <1>6. /\ terminalPage' \in TerminalStates /\ terminalPage'.socket = at
        /\ terminalPage'.mounted /\ ~terminalPage'.disposed /\ terminalPage'.connecting
    BY <1>3, <1>5 DEF TerminalStates
  <1>7. \A i \in DOMAIN own : i # at => own[i] = ends[i] /\ i \in DOMAIN ends
    BY <1>1, <1>4, <1>5
  <1>8. \A i \in DOMAIN own : own[i].ticket \in 1..n
    BY <1>1, <1>2, <1>4, <1>7
  <1>9. \A i, j \in DOMAIN own : own[i].ticket = own[j].ticket => i = j
    BY <1>1, <1>2, <1>4, <1>7
  <1>10. Ticketed(ends', issued')
    BY <1>3, <1>4, <1>8, <1>9 DEF Ticketed
  <1>11. Mastered(terminalPage', ends')
    BY <1>3, <1>5, <1>6, <1>7 DEF Mastered
  <1>12. at # Nothing
    BY <1>5, TerminalPageAssumption
  <1>13. Waits(terminalPage', asking')
    BY <1>6, <1>12 DEF Waits
  <1>14. TicketKept(terminalTickets', ends', issued')
    <2>1. terminalTickets \in 1..issued \cup {Nothing}
          /\ (terminalTickets # Nothing => \A i \in DOMAIN ends : ends[i].ticket # terminalTickets)
      BY DEF TerminalInv, TicketKept
    <2>2. left \in 1..n \cup {Nothing}
      BY <1>1, <2>1
    <2>3. left # Nothing => \A i \in DOMAIN own : own[i].ticket # left
      BY <1>2, <1>4, <1>7, <2>1
    <2>4. QED
      BY <1>3, <2>2, <2>3 DEF TicketKept
  <1>15. asking' \subseteq {"services", "page", "leftPage"}
    BY DEF TerminalInv
  <1>16. QED
    BY <1>6, <1>10, <1>11, <1>13, <1>14, <1>15 DEF TerminalInv

\* No socket of a page that was left is open.
LEMMA LeftHasNone ==
  ASSUME TerminalInv, ~terminalPage.mounted
  PROVE  /\ \A i \in DOMAIN ends : ends[i].state \notin {"connecting", "open"}
         /\ "page" \notin asking /\ terminalPage.disposed
  BY DEF TerminalInv, Mastered, Waits

\* consumeTerminalTicket: a page that opens, with a ticket or without.
LEMMA MountedStep ==
  ASSUME TerminalInv, ~terminalPage.mounted, NEW n \in 0..MaxTickets, n >= issued,
         NEW ticket, NEW waiting, ticket \in 1..n \cup {Nothing}, Mounted(ticket),
         issued' = n, asking' = waiting, waiting \subseteq asking,
         \A i \in DOMAIN ends : ends[i].ticket # ticket
  PROVE  TerminalInv'
  <1>0. /\ \A i \in DOMAIN ends : ends[i].state \notin {"connecting", "open"}
        /\ "page" \notin asking
    BY LeftHasNone
  <1>1. CASE ticket = Nothing
    <2>1. /\ terminalTickets' = Nothing /\ ends' = ends
          /\ terminalPage' = [FreshPage EXCEPT !.error = TRUE]
      BY <1>1 DEF Mounted
    <2>2. /\ terminalPage' \in TerminalStates /\ terminalPage'.socket = Nothing
          /\ ~terminalPage'.disposed /\ terminalPage'.mounted
          /\ ~terminalPage'.connecting /\ terminalPage'.error
      BY <2>1 DEF TerminalStates, FreshPage, NoPage
    <2>3. \A i \in 1..issued : i \in 1..n
      BY TerminalPageAssumption DEF TerminalInv
    <2>4. Ticketed(ends', issued')
      BY <2>1, <2>3 DEF TerminalInv, Ticketed
    <2>5. QED
      BY <1>0, <2>1, <2>2, <2>4 DEF TerminalInv, Mastered, Waits, TicketKept
  <1>2. CASE ticket # Nothing
    <2> DEFINE now == [FreshPage EXCEPT !.shell = TRUE]
    <2>1. Connected(now, ends, ticket) /\ terminalTickets' = Nothing /\ ticket \in 1..n
      BY <1>2 DEF Mounted
    <2>2. now \in TerminalStates /\ now.mounted /\ ~now.disposed
      BY DEF TerminalStates, FreshPage, NoPage
    <2> HIDE DEF now
    <2>3. "page" \notin waiting
      BY <1>0
    <2>4. QED
      BY <1>0, <1>2, <2>1, <2>2, <2>3, ConnectingStep
  <1>3. QED
    BY <1>1, <1>2

-----------------------------------------------------------------------------
LEMMA TicketForServicesStep ==
  ASSUME TerminalInv, TicketForServices PROVE TerminalInv'
  <1>1. /\ issued \in 0..MaxTickets /\ issued < MaxTickets /\ MaxTickets \in Nat
        /\ issued' = issued + 1 /\ asking' = asking \ {"services"}
        /\ \A i \in DOMAIN ends : ends[i].ticket \in 1..issued
    BY TerminalPageAssumption DEF TerminalInv, Ticketed, TicketForServices
  <1>2. /\ issued' \in 0..MaxTickets /\ issued' \in 1..issued' /\ issued' >= issued
        /\ \A i \in DOMAIN ends : ends[i].ticket # issued' /\ ends[i].ticket \in 1..issued'
    BY <1>1
  <1>3. CASE ~terminalPage.mounted
    <2>1. Mounted(issued')
      BY <1>3 DEF TicketForServices
    <2>2. QED
      BY <1>1, <1>2, <1>3, <2>1, MountedStep
  <1>4. CASE terminalPage.mounted
    <2>1. terminalTickets' = issued' /\ terminalPage' = terminalPage /\ ends' = ends
      BY <1>4 DEF TicketForServices
    <2>2. Ticketed(ends', issued')
      BY <1>2, <2>1 DEF TerminalInv, Ticketed
    <2>3. TicketKept(terminalTickets', ends', issued')
      BY <1>2, <2>1 DEF TicketKept
    <2>4. QED
      BY <1>1, <1>2, <2>1, <2>2, <2>3 DEF TerminalInv, Mastered, Waits
  <1>5. QED
    BY <1>3, <1>4

LEMMA OpenAddressStep ==
  ASSUME TerminalInv, OpenAddress PROVE TerminalInv'
  <1>1. /\ issued \in 0..MaxTickets /\ issued >= issued
        /\ terminalTickets \in 1..issued \cup {Nothing}
        /\ terminalTickets # Nothing =>
              \A i \in DOMAIN ends : ends[i].ticket # terminalTickets
        /\ \A i \in DOMAIN ends : ends[i].ticket \in 1..issued
    BY TerminalPageAssumption DEF TerminalInv, Ticketed, TicketKept
  <1>2. \A i \in DOMAIN ends : ends[i].ticket # terminalTickets
    BY <1>1, TerminalPageAssumption
  <1>3. /\ ~terminalPage.mounted /\ Mounted(terminalTickets)
        /\ asking' = asking /\ issued' = issued
    BY DEF OpenAddress
  <1>4. QED
    BY <1>1, <1>2, <1>3, MountedStep

LEMMA RetryStep ==
  ASSUME TerminalInv, Retry PROVE TerminalInv'
  <1> DEFINE k == terminalPage.socket
  <1>1. /\ ends' = EndClosing(k) /\ k \in DOMAIN ends \cup {Nothing}
        /\ terminalPage' = [terminalPage EXCEPT !.socket = Nothing, !.error = FALSE,
                                                !.connecting = TRUE]
        /\ asking' = asking \cup {"page"} /\ terminalPage.mounted
        /\ terminalTickets' = terminalTickets /\ issued' = issued
    BY DEF Retry, TerminalInv, Mastered
  <1>2. /\ terminalPage' \in TerminalStates /\ terminalPage'.socket = Nothing
        /\ terminalPage'.connecting /\ terminalPage'.mounted = terminalPage.mounted
        /\ terminalPage'.disposed = terminalPage.disposed
    BY <1>1 DEF TerminalInv, TerminalStates
  <1>3. /\ Ticketed(ends', issued) /\ TicketKept(terminalTickets, ends', issued)
        /\ DOMAIN ends' = DOMAIN ends
        /\ \A i \in DOMAIN ends' : ends'[i].state \in {"connecting", "open"} =>
               i # k /\ ends[i].state = ends'[i].state
    BY <1>1, ClosingOne
  <1>4. Mastered(terminalPage', ends')
    BY <1>2, <1>3 DEF TerminalInv, Mastered
  <1>5. Waits(terminalPage', asking')
    BY <1>1, <1>2 DEF TerminalInv, Waits
  <1>6. QED
    BY <1>1, <1>2, <1>3, <1>4, <1>5 DEF TerminalInv

LEMMA TicketForPageStep ==
  ASSUME TerminalInv, NEW who \in {"page", "leftPage"}, TicketForPage(who)
  PROVE  TerminalInv'
  <1>1. /\ issued \in 0..MaxTickets /\ issued < MaxTickets /\ MaxTickets \in Nat
        /\ issued' = issued + 1 /\ asking' = asking \ {who} /\ who \in asking
        /\ terminalTickets' = terminalTickets
        /\ terminalTickets \in 1..issued \cup {Nothing}
        /\ \A i \in DOMAIN ends : ends[i].ticket \in 1..issued
    BY TerminalPageAssumption DEF TerminalInv, Ticketed, TicketKept, TicketForPage
  <1>2. /\ issued' \in 0..MaxTickets /\ issued' \in 1..issued' /\ issued' >= issued
        /\ \A i \in DOMAIN ends : ends[i].ticket # issued' /\ ends[i].ticket \in 1..issued'
        /\ terminalTickets # issued' /\ terminalTickets \in 1..issued' \cup {Nothing}
    BY <1>1, TerminalPageAssumption
  <1>3. CASE who = "page"
    <2>1. Connected(terminalPage, ends, issued')
      BY <1>3 DEF TicketForPage, Heeded
    <2>2. /\ terminalPage \in TerminalStates /\ terminalPage.mounted
          /\ ~terminalPage.disposed /\ terminalPage.socket = Nothing
      BY <1>1, <1>3 DEF TerminalInv, Waits
    <2>3. DOMAIN ends = 1..Len(ends) /\ Len(ends) \in Nat
      BY DEF TerminalInv, Ticketed
    <2>4. \A i \in DOMAIN ends : ends[i].state \notin {"connecting", "open"}
      BY <2>2, <2>3, TerminalPageAssumption DEF TerminalInv, Mastered
    <2>5. "page" \notin asking' /\ asking' \subseteq asking
      BY <1>1, <1>3
    <2>6. QED
      BY <1>1, <1>2, <2>1, <2>2, <2>4, <2>5, ConnectingStep
  <1>4. CASE who = "leftPage"
    <2>1. terminalPage' = terminalPage /\ ends' = ends
      BY <1>4 DEF TicketForPage, Heeded
    <2>2. Ticketed(ends', issued')
      BY <1>2, <2>1 DEF TerminalInv, Ticketed
    <2>3. TicketKept(terminalTickets', ends', issued')
      BY <1>1, <1>2, <2>1 DEF TerminalInv, TicketKept
    <2>4. Waits(terminalPage', asking')
      BY <1>1, <1>4, <2>1 DEF TerminalInv, Waits
    <2>5. QED
      BY <1>1, <1>2, <2>1, <2>2, <2>3, <2>4 DEF TerminalInv
  <1>5. QED
    BY <1>3, <1>4

LEMMA NoTicketForPageStep ==
  ASSUME TerminalInv, NEW who \in {"page", "leftPage"}, NoTicketForPage(who)
  PROVE  TerminalInv'
  <1>1. /\ asking' = asking \ {who} /\ who \in asking
        /\ terminalTickets' = terminalTickets /\ ends' = ends /\ issued' = issued
    BY DEF NoTicketForPage
  <1>2. CASE who = "page"
    <2>1. terminalPage' = [terminalPage EXCEPT !.connecting = FALSE, !.error = TRUE]
      BY <1>2 DEF NoTicketForPage, Heeded
    <2>2. /\ terminalPage' \in TerminalStates
          /\ terminalPage'.socket = terminalPage.socket
          /\ terminalPage'.error /\ ~terminalPage'.connecting
          /\ terminalPage'.mounted = terminalPage.mounted
          /\ terminalPage'.disposed = terminalPage.disposed
      BY <2>1 DEF TerminalInv, TerminalStates
    <2>3. QED
      BY <1>1, <1>2, <2>2 DEF TerminalInv, Mastered, Waits
  <1>3. CASE who = "leftPage"
    <2>1. terminalPage' = terminalPage
      BY <1>3 DEF NoTicketForPage, Heeded
    <2>2. QED
      BY <1>1, <1>3, <2>1 DEF TerminalInv, Waits
  <1>4. QED
    BY <1>2, <1>3

\* The events of a socket.
LEMMA EndEvents ==
  ASSUME TerminalInv, NEW i \in DOMAIN ends,
         \/ EndOpens(i) \/ EndReady(i) \/ EndUnexpected(i) \/ EndErrs(i) \/ EndCloses(i)
  PROVE  TerminalInv'
  <1>0. /\ terminalPage \in TerminalStates /\ Mastered(terminalPage, ends)
        /\ Waits(terminalPage, asking) /\ asking \subseteq {"services", "page", "leftPage"}
        /\ issued \in 0..MaxTickets
        /\ Ticketed(ends, issued) /\ TicketKept(terminalTickets, ends, issued)
    BY DEF TerminalInv
  <1>n. i # Nothing
    BY <1>0, TerminalPageAssumption DEF Ticketed
  <1>u. terminalTickets' = terminalTickets /\ asking' = asking /\ issued' = issued
    BY DEF EndOpens, EndReady, EndUnexpected, EndErrs, EndCloses
  <1>1. CASE EndOpens(i)
    <2>1. /\ ends[i].state = "connecting" /\ ends' = [ends EXCEPT ![i].state = "open"]
          /\ terminalPage' \in {terminalPage, [terminalPage EXCEPT !.opened = TRUE]}
      BY <1>1 DEF EndOpens
    <2>2. /\ terminalPage' \in TerminalStates
          /\ terminalPage'.socket = terminalPage.socket
          /\ terminalPage'.error = terminalPage.error
          /\ terminalPage'.connecting = terminalPage.connecting
          /\ terminalPage'.mounted = terminalPage.mounted
          /\ terminalPage'.disposed = terminalPage.disposed
      BY <1>0, <2>1 DEF TerminalStates
    <2>3. /\ Ticketed(ends', issued) /\ TicketKept(terminalTickets, ends', issued)
          /\ DOMAIN ends' = DOMAIN ends
          /\ \A j \in DOMAIN ends' :
                ends'[j].state = IF j = i THEN "open" ELSE ends[j].state
      <3> DEFINE new == "open"
      <3>1. /\ new \in {"connecting", "open", "closing", "closed"}
            /\ ends' = InState(i, new)
        BY <2>1 DEF InState
      <3> HIDE DEF new
      <3>2. /\ Ticketed(ends', issued) /\ TicketKept(terminalTickets, ends', issued)
            /\ DOMAIN ends' = DOMAIN ends
            /\ \A j \in DOMAIN ends' :
                  ends'[j].state = IF j = i THEN new ELSE ends[j].state
        BY <3>1, OtherState
      <3>3. QED
        BY <3>2 DEF new
    <2>4. Mastered(terminalPage', ends')
      BY <1>0, <2>1, <2>2, <2>3 DEF Mastered
    <2>5. QED
      BY <1>0, <1>u, <2>2, <2>3, <2>4 DEF TerminalInv, Waits
  <1>2. CASE EndReady(i)
    <2>1. /\ terminalPage.socket = i /\ ends' = ends /\ ~terminalPage.disposed
          /\ terminalPage' = [terminalPage EXCEPT !.connecting = FALSE]
      BY <1>2 DEF EndReady, Mine
    <2>2. /\ terminalPage' \in TerminalStates
          /\ terminalPage'.socket = terminalPage.socket
          /\ ~terminalPage'.connecting
          /\ terminalPage'.mounted = terminalPage.mounted
          /\ terminalPage'.disposed = terminalPage.disposed
      BY <1>0, <2>1 DEF TerminalStates
    <2>3. QED
      BY <1>0, <1>n, <1>u, <2>1, <2>2 DEF TerminalInv, Waits, Mastered
  <1>3. CASE EndUnexpected(i) \/ EndErrs(i)
    <2>1. /\ ends' = EndClosing(i)
          /\ terminalPage' \in {terminalPage, [terminalPage EXCEPT !.error = TRUE]}
      BY <1>3 DEF EndUnexpected, EndErrs
    <2>2. /\ terminalPage' \in TerminalStates
          /\ terminalPage'.socket = terminalPage.socket
          /\ terminalPage.error => terminalPage'.error
          /\ terminalPage'.connecting = terminalPage.connecting
          /\ terminalPage'.mounted = terminalPage.mounted
          /\ terminalPage'.disposed = terminalPage.disposed
      BY <1>0, <2>1 DEF TerminalStates
    <2>3. /\ Ticketed(ends', issued) /\ TicketKept(terminalTickets, ends', issued)
          /\ DOMAIN ends' = DOMAIN ends
          /\ \A j \in DOMAIN ends' : ends'[j].state \in {"connecting", "open"} =>
                j # i /\ ends[j].state = ends'[j].state
      BY <2>1, ClosingOne
    <2>4. Mastered(terminalPage', ends')
      BY <1>0, <2>2, <2>3 DEF Mastered
    <2>5. QED
      BY <1>0, <1>u, <2>2, <2>3, <2>4 DEF TerminalInv, Waits
  <1>4. CASE EndCloses(i)
    <2>1. ends' = [ends EXCEPT ![i].state = "closed"]
      BY <1>4 DEF EndCloses
    <2>2. /\ Ticketed(ends', issued) /\ TicketKept(terminalTickets, ends', issued)
          /\ DOMAIN ends' = DOMAIN ends
          /\ \A j \in DOMAIN ends' :
                ends'[j].state = IF j = i THEN "closed" ELSE ends[j].state
      <3> DEFINE new == "closed"
      <3>1. /\ new \in {"connecting", "open", "closing", "closed"}
            /\ ends' = InState(i, new)
        BY <2>1 DEF InState
      <3> HIDE DEF new
      <3>2. /\ Ticketed(ends', issued) /\ TicketKept(terminalTickets, ends', issued)
            /\ DOMAIN ends' = DOMAIN ends
            /\ \A j \in DOMAIN ends' :
                  ends'[j].state = IF j = i THEN new ELSE ends[j].state
        BY <3>1, OtherState
      <3>3. QED
        BY <3>2 DEF new
    <2>3. CASE terminalPage.socket = i
      <3> DEFINE wrong == terminalPage.error \/ ~terminalPage.disposed
      <3>1. /\ wrong \in BOOLEAN
            /\ terminalPage' = [terminalPage EXCEPT !.socket = Nothing,
                                   !.connecting = FALSE, !.error = wrong]
            /\ ~terminalPage.disposed => wrong
        BY <1>4, <2>3 DEF EndCloses
      <3> HIDE DEF wrong
      <3>2. /\ terminalPage' \in TerminalStates
            /\ terminalPage'.socket = Nothing /\ ~terminalPage'.connecting
            /\ ~terminalPage.disposed => terminalPage'.error
            /\ terminalPage'.mounted = terminalPage.mounted
            /\ terminalPage'.disposed = terminalPage.disposed
        BY <1>0, <3>1 DEF TerminalStates
      <3>3. Mastered(terminalPage', ends')
        BY <1>0, <2>2, <2>3, <3>2 DEF Mastered
      <3>4. Waits(terminalPage', asking')
        BY <1>0, <1>n, <1>u, <2>3, <3>2 DEF Waits
      <3>5. QED
        BY <1>0, <1>u, <2>2, <3>2, <3>3, <3>4 DEF TerminalInv
    <2>4. CASE terminalPage.socket # i
      <3>1. terminalPage' = terminalPage
        BY <1>4, <2>4 DEF EndCloses
      <3>2. Mastered(terminalPage', ends')
        BY <1>0, <2>2, <3>1 DEF Mastered
      <3>3. QED
        BY <1>0, <1>u, <2>2, <3>1, <3>2 DEF TerminalInv
    <2>5. QED
      BY <2>3, <2>4
  <1>5. QED
    BY <1>1, <1>2, <1>3, <1>4

LEMMA LeaveTerminalStep ==
  ASSUME TerminalInv, LeaveTerminal PROVE TerminalInv'
  <1> DEFINE k == terminalPage.socket
  <1>1. /\ ends' = EndClosing(k) /\ k \in DOMAIN ends \cup {Nothing}
        /\ terminalPage' = [terminalPage EXCEPT !.mounted = FALSE, !.disposed = TRUE,
                                                !.opened = FALSE]
        /\ asking' = {IF who = "page" THEN "leftPage" ELSE who : who \in asking}
        /\ terminalTickets' = terminalTickets /\ issued' = issued
    BY DEF LeaveTerminal, EndsLeft, TerminalInv, Mastered
  <1>2. /\ terminalPage' \in TerminalStates /\ terminalPage'.socket = k
        /\ ~terminalPage'.mounted /\ terminalPage'.disposed
    BY <1>1 DEF TerminalInv, TerminalStates
  <1>3. /\ Ticketed(ends', issued) /\ TicketKept(terminalTickets, ends', issued)
        /\ DOMAIN ends' = DOMAIN ends
        /\ \A i \in DOMAIN ends' : ends'[i].state \in {"connecting", "open"} =>
               i # k /\ ends[i].state = ends'[i].state
    BY <1>1, ClosingOne
  <1>4. Mastered(terminalPage', ends')
    BY <1>1, <1>2, <1>3 DEF TerminalInv, Mastered
  <1>5. "page" \notin asking' /\ asking' \subseteq {"services", "page", "leftPage"}
    BY <1>1 DEF TerminalInv
  <1>6. Waits(terminalPage', asking')
    BY <1>2, <1>5 DEF Waits
  <1>7. QED
    BY <1>1, <1>2, <1>3, <1>4, <1>5, <1>6 DEF TerminalInv

LEMMA TerminalPageNextInv ==
  ASSUME TerminalInv, TerminalPageNext PROVE TerminalInv'
  <1>1. CASE AskTerminal \/ NoTicketForServices
    <2>1. /\ terminalPage' = terminalPage /\ ends' = ends /\ issued' = issued
          /\ terminalTickets' = terminalTickets
          /\ asking' \subseteq {"services", "page", "leftPage"}
          /\ "page" \in asking' <=> "page" \in asking
      BY <1>1 DEF TerminalInv, AskTerminal, NoTicketForServices
    <2>2. QED
      BY <2>1 DEF TerminalInv, Waits
  <1>2. QED
    BY <1>1, TicketForServicesStep, OpenAddressStep, RetryStep, LeaveTerminalStep,
       TicketForPageStep, NoTicketForPageStep, EndEvents DEF TerminalPageNext

LEMMA TerminalKeeps ==
  ASSUME TerminalInv PROVE TerminalPageTypeOK /\ OneTerminalSocket /\ ConnectingEnds
  <1>1. \A i \in 1..issued : i \in 1..MaxTickets
    BY TerminalPageAssumption DEF TerminalInv
  <1>2. TerminalPageTypeOK
    BY <1>1 DEF TerminalPageTypeOK, TerminalInv, Mastered, TicketKept
  <1>3. OneTerminalSocket
    BY DEF OneTerminalSocket, Alive, TerminalInv, Mastered, TicketKept, Ticketed
  <1>4. ConnectingEnds
    BY DEF ConnectingEnds, TerminalInv, Waits
  <1>5. QED
    BY <1>2, <1>3, <1>4

------------------------------------------------------------------------------
(* The router.                                                            *)

Names == DOMAIN routes
Sessions == [user : BOOLEAN, valid : BOOLEAN, permissions : Roles \cup {{}}]
Places ==
    [name : Names \cup {None},
     redirect : Typed \cup Names \cup {None, "//elsewhere"},
     wanted : Names \cup {None}, by : Sessions, denied : BOOLEAN, hops : Nat,
     checked : BOOLEAN]

\* A place is the one that was asked for, the login before it, or home, for
\* who was turned away, and then the login at most stands before it.
Led(place) ==
    /\ place.denied \/ Meant(place) = place.wanted
    /\ place.denied => \/ place.name = "home"
                       \/ place.name = "Login" /\ loginDestination(place) = "home"

\* Who came through the guard satisfies the route.
Admitted(place) ==
    /\ routes[place.name].requiresAuth => isAuthenticated(place.by)
    /\ routes[place.name].permission # None =>
          hasPermission(place.by, routes[place.name].permission)
    /\ place.name = "Login" => ~isAuthenticated(place.by)

\* How often the guard can have sent a navigation on that is at a place.  It
\* sends on who is signed in once from the login, once to home, and who is no
\* longer signed in once to the login, where that ends.
Hops(who, place) ==
    IF ~isAuthenticated(who)
    THEN IF place.name = "Login" THEN 0..3 ELSE 0..2
    ELSE IF place.name = "home" THEN 0..2
    ELSE IF place.name = "Login" /\ loginDestination(place) # "home" THEN {0}
    ELSE 0..1

NavigationInv ==
    /\ session \in Sessions /\ page \in Places /\ pending \in Places
    /\ pending.hops \in Hops(session, pending)
    /\ pending.name # None => Led(pending)
    /\ pending.name # None /\ pending.checked => Admitted(pending)
    /\ page.name # None => Led(page) /\ Admitted(page)

\* What the table of routes says.
LEMMA RouteFacts ==
  /\ "home" \in Names /\ "Login" \in Names /\ "//elsewhere" \notin Names
  /\ routes["home"] = [requiresAuth |-> TRUE, permission |-> None]
  /\ routes["Login"] = [requiresAuth |-> FALSE, permission |-> None]
  /\ \A n \in Names : routes[n].requiresAuth \/ routes[n].permission = None
  <1>1. DOMAIN draxRoutes = {"CrudUser", "CrudRole", "CrudUserApiKey",
                            "UserSessionCrudPage", "PasswordRecovery"}
    BY DEF draxRoutes, IdentityRoutes
  <1>2. "home" \in DOMAIN appRoutes /\ "Login" \in DOMAIN appRoutes
        /\ "//elsewhere" \notin DOMAIN appRoutes
        /\ appRoutes["home"] = None /\ appRoutes["Login"] = None
    BY DEF appRoutes
  <1>3. /\ Names = DOMAIN appRoutes \cup DOMAIN draxRoutes
        /\ \A n \in Names :
              routes[n] = IF n \in DOMAIN appRoutes
                          THEN [requiresAuth |-> n # "Login", permission |-> appRoutes[n]]
                          ELSE draxRoutes[n]
    BY DEF routes, Names
  <1>4. \A n \in DOMAIN draxRoutes :
          draxRoutes[n].requiresAuth \/ draxRoutes[n].permission = None
    BY DEF draxRoutes, IdentityRoutes
  <1>5. /\ "home" \in Names /\ "Login" \in Names /\ "//elsewhere" \notin Names
    BY <1>1, <1>2, <1>3
  <1>6. /\ routes["home"] = [requiresAuth |-> TRUE, permission |-> None]
        /\ routes["Login"] = [requiresAuth |-> FALSE, permission |-> None]
    BY <1>2, <1>3, <1>5
  <1>7. ASSUME NEW n \in Names
        PROVE  routes[n].requiresAuth \/ routes[n].permission = None
    <2>1. CASE n = "Login"
      BY <1>6, <2>1
    <2>2. CASE n # "Login" /\ n \in DOMAIN appRoutes
      <3>1. routes[n] = [requiresAuth |-> n # "Login", permission |-> appRoutes[n]]
        BY <1>3, <2>2
      <3>2. (n # "Login") = TRUE
        BY <2>2
      <3>3. routes[n] = [requiresAuth |-> TRUE, permission |-> appRoutes[n]]
        BY <3>1, <3>2, Zenon
      <3>4. QED
        BY <3>3
    <2>3. CASE n # "Login" /\ n \notin DOMAIN appRoutes
      <3>1. n \in DOMAIN draxRoutes /\ routes[n] = draxRoutes[n]
        BY <1>3, <2>3
      <3>2. QED
        BY <1>4, <3>1
    <2>4. QED
      BY <2>1, <2>2, <2>3
  <1>8. QED
    BY <1>5, <1>6, <1>7

LEMMA PageAtFacts ==
  ASSUME NEW path
  PROVE  /\ PageAt(path) \in Names
         /\ path \in Names => PageAt(path) = path
         /\ PageAt(path) = "Login" => path = "Login"
  BY RouteFacts DEF PageAt, Names

LEMMA PlaceFacts ==
  ASSUME NEW path, NEW redirect \in Typed \cup Names \cup {None, "//elsewhere"}
  PROVE  /\ Place(path, redirect) \in Places
         /\ Place(path, redirect).name = PageAt(path)
         /\ Place(path, redirect).name \in Names
         /\ Place(path, redirect).redirect = redirect
         /\ Place(path, redirect).denied = FALSE
         /\ Place(path, redirect).checked = FALSE
         /\ Place(path, redirect).hops = 0
  <1>1. NoSession \in Sessions
    BY DEF NoSession, Sessions
  <1>2. PageAt(path) \in Names
    BY PageAtFacts
  <1>3. QED
    BY <1>1, <1>2 DEF Place, Places

\* What a place means depends on its name and on ?redirect= alone.
LEMMA MeantFacts ==
  ASSUME NEW place \in Places, place.name # None
  PROVE  /\ Meant(place) \in Names
         /\ Meant(place) # "Login"
         /\ place.name # "Login" => Meant(place) = place.name
         /\ place.name = "Login" =>
               Meant(place) = IF loginDestination(place) = "Login" THEN "home"
                              ELSE PageAt(loginDestination(place))
  BY PageAtFacts, RouteFacts DEF Meant, Places

LEMMA SameMeaning ==
  ASSUME NEW a, NEW b, a.name = b.name, a.redirect = b.redirect
  PROVE  Meant(a) = Meant(b) /\ loginDestination(a) = loginDestination(b)
  BY DEF Meant, loginDestination, Inside

\* Nobody, and no place.
LEMMA NothingFacts ==
  /\ NoSession \in Sessions /\ ~isAuthenticated(NoSession)
  /\ NoPlace \in Places /\ NoPlace.name = None /\ NoPlace.hops = 0
  <1> DEFINE p == Place("home", None)
  <1>1. p \in Places /\ p.hops = 0
    BY PlaceFacts
  <1>2. NoPlace = [p EXCEPT !.name = None]
    BY DEF NoPlace
  <1> HIDE DEF p
  <1>3. NoPlace \in Places /\ NoPlace.name = None /\ NoPlace.hops = 0
    BY <1>1, <1>2 DEF Places
  <1>4. NoSession \in Sessions /\ ~isAuthenticated(NoSession)
    BY DEF NoSession, Sessions, isAuthenticated
  <1>5. QED
    BY <1>3, <1>4

LEMMA NoHops ==
  ASSUME NEW who, NEW place, place.hops = 0 PROVE place.hops \in Hops(who, place)
  BY DEF Hops

\* The page the login leads to means what the login meant.
LEMMA AfterLogin ==
  ASSUME NEW place \in Places, place.name = "Login",
         NEW there, there.name = PageAt(loginDestination(place)),
         there.redirect = None
  PROVE  /\ Meant(there) = Meant(place) /\ loginDestination(there) = "home"
         /\ loginDestination(place) = "home" => there.name = "home"
  <1>1. loginDestination(there) = "home"
    BY DEF loginDestination, Inside
  <1>2. loginDestination(place) = "home" => there.name = "home"
    BY RouteFacts, PageAtFacts
  <1>3. CASE loginDestination(place) = "Login"
    <2>1. there.name = "Login"
      BY <1>3, RouteFacts, PageAtFacts
    <2>2. Meant(there) = "home" /\ Meant(place) = "home"
      BY <1>1, <1>3, <2>1, RouteFacts, PageAtFacts DEF Meant
    <2>3. QED
      BY <1>1, <1>2, <2>2
  <1>4. CASE loginDestination(place) # "Login"
    <2>1. there.name # "Login"
      BY <1>4, PageAtFacts
    <2>2. Meant(there) = there.name /\ Meant(place) = PageAt(loginDestination(place))
      BY <1>4, <2>1 DEF Meant
    <2>3. QED
      BY <1>1, <1>2, <2>2
  <1>5. QED
    BY <1>3, <1>4

LEMMA NavigationInitInv == NavigationInit => NavigationInv
  <1> SUFFICES ASSUME NavigationInit PROVE NavigationInv
    OBVIOUS
  <1>1. pending.hops \in Hops(session, pending)
    BY NothingFacts, NoHops DEF NavigationInit
  <1>2. QED
    BY <1>1, NothingFacts DEF NavigationInit, NavigationInv

LEMMA NavigateStep ==
  ASSUME NavigationInv, NEW path, NEW redirect \in Typed \cup {None, "//elsewhere"},
         Navigate(Place(path, redirect))
  PROVE  NavigationInv'
  <1> DEFINE place == Place(path, redirect)
  <1>1. /\ place \in Places /\ place.name \in Names /\ place.hops = 0
        /\ place.denied = FALSE /\ place.checked = FALSE
    BY PlaceFacts
  <1>2. /\ pending' = [place EXCEPT !.wanted = Meant(place)]
        /\ session' = session /\ page' = page
    BY DEF Navigate
  <1> HIDE DEF place
  <1>3. Meant(place) \in Names
    BY <1>1, MeantFacts, NavigationAssumption DEF Names
  <1>4. /\ pending' \in Places
        /\ pending'.name = place.name /\ pending'.redirect = place.redirect
        /\ pending'.wanted = Meant(place) /\ pending'.hops = 0
        /\ pending'.denied = FALSE /\ pending'.checked = FALSE
    BY <1>1, <1>2, <1>3 DEF Places
  <1>5. Meant(pending') = Meant(place)
    BY <1>4, SameMeaning
  <1>6. pending'.hops \in Hops(session', pending')
    BY <1>4, NoHops
  <1>7. Led(pending')
    BY <1>4, <1>5 DEF Led
  <1>8. QED
    BY <1>2, <1>4, <1>6, <1>7 DEF NavigationInv

\* The guard sends a navigation on to a place of its choice.
LEMMA SentToStep ==
  ASSUME NavigationInv, NEW place \in Places, NEW refused \in BOOLEAN,
         pending.name # None, place.checked = FALSE,
         SentTo(place, refused), UNCHANGED <<session, page>>,
         ~refused => Meant(place) = Meant(pending),
         refused \/ pending.denied =>
            \/ place.name = "home"
            \/ place.name = "Login" /\ loginDestination(place) = "home",
         \A n \in Nat : n \in Hops(session, pending) => n + 1 \in Hops(session, place)
  PROVE  NavigationInv'
  <1>1. pending \in Places
    BY DEF NavigationInv
  <1> DEFINE denied == pending.denied \/ refused
  <1>2. pending' = [place EXCEPT !.wanted = pending.wanted, !.denied = denied,
                                 !.hops = pending.hops + 1]
    BY DEF SentTo
  <1>d. denied \in BOOLEAN /\ (denied <=> pending.denied \/ refused)
    BY <1>1 DEF Places
  <1>h. pending.hops + 1 \in Nat /\ pending.wanted \in Names \cup {None}
    BY <1>1 DEF Places
  <1> HIDE DEF denied
  <1>3. /\ pending' \in Places
        /\ pending'.name = place.name /\ pending'.redirect = place.redirect
        /\ pending'.wanted = pending.wanted /\ pending'.hops = pending.hops + 1
        /\ pending'.denied = denied /\ pending'.checked = FALSE
    BY <1>2, <1>d, <1>h DEF Places
  <1>4. Meant(pending') = Meant(place) /\ loginDestination(pending') = loginDestination(place)
    BY <1>3, SameMeaning
  <1>5. Led(pending)
    BY DEF NavigationInv
  <1>6. Led(pending')
    BY <1>3, <1>4, <1>5, <1>d DEF Led
  <1>7. Hops(session', pending') = Hops(session, place)
    BY <1>3, <1>4 DEF Hops
  <1>8. pending.hops \in Nat /\ pending.hops \in Hops(session, pending)
    BY <1>1 DEF Places, NavigationInv
  <1>9. pending'.hops \in Hops(session', pending')
    BY <1>3, <1>7, <1>8
  <1>10. QED
    BY <1>3, <1>6, <1>9 DEF NavigationInv

LEMMA GuardStep == ASSUME NavigationInv, Guard PROVE NavigationInv'
  <1> DEFINE route == routes[pending.name]
  <1>1. /\ pending \in Places /\ pending.name # None /\ pending.name \in Names
        /\ UNCHANGED <<session, page>> /\ session \in Sessions /\ Led(pending)
    BY DEF Guard, NavigationInv, Places
  <1>2. CASE route.requiresAuth /\ ~isAuthenticated(session)
    <2> DEFINE place == Place("Login", pending.name)
    <2>1. SentTo(place, FALSE)
      BY <1>2 DEF Guard
    <2>2. /\ place \in Places /\ place.name = "Login" /\ place.checked = FALSE
          /\ place.redirect = pending.name
      <3>1. PageAt("Login") = "Login"
        BY PageAtFacts, RouteFacts
      <3>2. pending.name \in Typed \cup Names \cup {None, "//elsewhere"}
        BY <1>1
      <3>3. /\ place \in Places /\ place.name = PageAt("Login")
            /\ place.checked = FALSE /\ place.redirect = pending.name
        BY <3>2, PlaceFacts
      <3>4. QED
        BY <3>1, <3>3
    <2> HIDE DEF place
    <2>3. pending.name # "Login" /\ pending.name # "//elsewhere"
      BY <1>1, <1>2, RouteFacts
    <2>4. loginDestination(place) = pending.name
      BY <1>1, <2>2, <2>3 DEF loginDestination, Inside
    <2>5. Meant(place) = pending.name /\ Meant(pending) = pending.name
      BY <1>1, <2>2, <2>3, <2>4, PageAtFacts DEF Meant
    <2>6. pending.denied => loginDestination(place) = "home"
      BY <1>1, <2>3, <2>4 DEF Led
    <2>7. \A n \in Nat : n \in Hops(session, pending) => n + 1 \in Hops(session, place)
      BY <1>2, <2>2, <2>3 DEF Hops
    <2>8. QED
      BY <1>1, <2>1, <2>2, <2>5, <2>6, <2>7, SentToStep
  <1>3. CASE /\ ~(route.requiresAuth /\ ~isAuthenticated(session))
             /\ route.permission # None /\ ~hasPermission(session, route.permission)
    <2> DEFINE place == Place("home", None)
    <2>1. SentTo(place, TRUE)
      BY <1>3 DEF Guard
    <2>2. place \in Places /\ place.name = "home" /\ place.checked = FALSE
      <3>1. PageAt("home") = "home"
        BY PageAtFacts, RouteFacts
      <3>2. place \in Places /\ place.name = PageAt("home") /\ place.checked = FALSE
        BY PlaceFacts
      <3>3. QED
        BY <3>1, <3>2
    <2> HIDE DEF place
    <2>3. pending.name # "Login" /\ pending.name # "home" /\ isAuthenticated(session)
      BY <1>1, <1>3, RouteFacts
    <2>4. \A n \in Nat : n \in Hops(session, pending) => n + 1 \in Hops(session, place)
      BY <2>2, <2>3 DEF Hops
    <2>5. QED
      BY <1>1, <2>1, <2>2, <2>4, SentToStep
  <1>4. CASE /\ ~(route.requiresAuth /\ ~isAuthenticated(session))
             /\ ~(route.permission # None /\ ~hasPermission(session, route.permission))
             /\ pending.name = "Login" /\ isAuthenticated(session)
    <2> DEFINE place == Place(loginDestination(pending), None)
    <2>1. SentTo(place, FALSE)
      BY <1>4 DEF Guard
    <2>2. /\ place \in Places /\ place.name = PageAt(loginDestination(pending))
          /\ place.checked = FALSE /\ place.redirect = None
      BY PlaceFacts
    <2> HIDE DEF place
    <2>3. /\ Meant(place) = Meant(pending) /\ loginDestination(place) = "home"
          /\ loginDestination(pending) = "home" => place.name = "home"
      BY <1>1, <1>4, <2>2, AfterLogin
    <2>4. pending.denied => place.name = "home"
      BY <1>1, <1>4, <2>3, RouteFacts DEF Led
    <2>5. \A n \in Nat : n \in Hops(session, pending) => n + 1 \in Hops(session, place)
      BY <1>4, <2>3 DEF Hops
    <2>6. QED
      BY <1>1, <2>1, <2>2, <2>3, <2>4, <2>5, SentToStep
  <1>5. CASE /\ ~(route.requiresAuth /\ ~isAuthenticated(session))
             /\ ~(route.permission # None /\ ~hasPermission(session, route.permission))
             /\ ~(pending.name = "Login" /\ isAuthenticated(session))
    <2>1. pending' = [pending EXCEPT !.checked = TRUE, !.by = session]
      BY <1>5 DEF Guard
    <2>2. /\ pending' \in Places
          /\ pending'.name = pending.name /\ pending'.redirect = pending.redirect
          /\ pending'.wanted = pending.wanted /\ pending'.hops = pending.hops
          /\ pending'.denied = pending.denied /\ pending'.by = session
      BY <1>1, <2>1 DEF Places
    <2>3. Meant(pending') = Meant(pending) /\ loginDestination(pending') = loginDestination(pending)
      BY <2>2, SameMeaning
    <2>4. Led(pending')
      BY <1>1, <2>2, <2>3 DEF Led
    <2>5. Admitted(pending')
      BY <1>5, <2>2 DEF Admitted
    <2>6. pending'.hops \in Hops(session', pending')
      BY <1>1, <2>2, <2>3 DEF Hops, NavigationInv
    <2>7. QED
      BY <1>1, <2>2, <2>4, <2>5, <2>6 DEF NavigationInv
  <1>6. QED
    BY <1>2, <1>3, <1>4, <1>5

LEMMA LandStep == ASSUME NavigationInv, Land \/ LoadFails PROVE NavigationInv'
  <1>1. /\ pending' = NoPlace /\ session' = session /\ pending.checked
        /\ page' = page \/ page' = pending
    BY DEF Land, LoadFails
  <1>2. pending'.hops \in Hops(session', pending')
    BY <1>1, NothingFacts, NoHops
  <1>3. QED
    BY <1>1, <1>2, NothingFacts DEF NavigationInv

LEMMA LogInStep ==
  ASSUME NavigationInv, NEW role \in Roles, LogIn(role) PROVE NavigationInv'
  <1> DEFINE place == Place(loginDestination(page), None)
  <1>1. /\ page \in Places /\ page.name = "Login" /\ page.name # None
        /\ Led(page) /\ page' = page
        /\ session' = [user |-> TRUE, valid |-> TRUE, permissions |-> role]
        /\ pending' = [place EXCEPT !.wanted = page.wanted, !.denied = page.denied]
    BY RouteFacts, NavigationAssumption DEF LogIn, NavigationInv, Names
  <1>2. /\ place \in Places /\ place.name = PageAt(loginDestination(page))
        /\ place.checked = FALSE /\ place.redirect = None /\ place.hops = 0
    BY PlaceFacts
  <1> HIDE DEF place
  <1>3. /\ Meant(place) = Meant(page) /\ loginDestination(place) = "home"
        /\ loginDestination(page) = "home" => place.name = "home"
    BY <1>1, <1>2, AfterLogin
  <1>4. /\ pending' \in Places
        /\ pending'.name = place.name /\ pending'.redirect = place.redirect
        /\ pending'.wanted = page.wanted /\ pending'.denied = page.denied
        /\ pending'.checked = FALSE /\ pending'.hops = 0
    BY <1>1, <1>2 DEF Places
  <1>5. Meant(pending') = Meant(place)
    BY <1>4, SameMeaning
  <1>6. Led(pending')
    BY <1>1, <1>3, <1>4, <1>5, RouteFacts DEF Led
  <1>7. session' \in Sessions
    BY <1>1 DEF Sessions
  <1>8. pending'.hops \in Hops(session', pending')
    BY <1>4, NoHops
  <1>9. QED
    BY <1>1, <1>4, <1>6, <1>7, <1>8 DEF NavigationInv

\* Who is no longer signed in is sent on less often.
LEMMA SignedOutStep ==
  ASSUME NavigationInv, Expire \/ Logout PROVE NavigationInv'
  <1>1. /\ pending' = pending /\ page' = page
        /\ session' \in Sessions /\ ~isAuthenticated(session')
    BY NothingFacts DEF Expire, Logout, NavigationInv, Sessions, isAuthenticated
  <1>2. Hops(session, pending) \subseteq Hops(session', pending)
    BY <1>1 DEF Hops
  <1>3. QED
    BY <1>1, <1>2 DEF NavigationInv

LEMMA NavigationNextInv == ASSUME NavigationInv, NavigationNext PROVE NavigationInv'
  <1>1. ASSUME NEW place \in Addresses, Navigate(place) PROVE NavigationInv'
    <2>1. \E path : \E redirect \in Typed \cup {None, "//elsewhere"} :
             place = Place(path, redirect)
      BY <1>1 DEF Addresses
    <2>2. QED
      BY <1>1, <2>1, NavigateStep
  <1>2. ASSUME NEW name \in DOMAIN menu, ClickMenu(name) PROVE NavigationInv'
    <2>1. Navigate(Place(name, None))
      BY <1>2 DEF ClickMenu
    <2>2. QED
      BY <2>1, NavigateStep
  <1>3. QED
    BY <1>1, <1>2, GuardStep, LandStep, LogInStep, SignedOutStep DEF NavigationNext

LEMMA NavigationIsGuarded == NavigationInv => NavigationTypeOK /\ GuardsHold
  <1> SUFFICES ASSUME NavigationInv PROVE NavigationTypeOK /\ GuardsHold
    OBVIOUS
  <1>1. NavigationTypeOK
    BY DEF NavigationInv, NavigationTypeOK, Places, Sessions, Names
  <1>2. RedirectsEnd
    <2>1. pending.hops \in Hops(session, pending)
      BY DEF NavigationInv
    <2>2. QED
      BY <2>1 DEF Hops, RedirectsEnd
  <1>3. ArrivesWhereAsked
    <2> SUFFICES ASSUME page.name # None PROVE ArrivesWhereAsked
      BY DEF ArrivesWhereAsked
    <2>1. page \in Places /\ Led(page) /\ Admitted(page)
      BY DEF NavigationInv
    <2>2. page.name # "Login" => Meant(page) = page.name
      BY DEF Meant
    <2>3. isAuthenticated(page.by) =>
             page.name = IF page.denied THEN "home" ELSE page.wanted
      BY <2>1, <2>2 DEF Led, Admitted
    <2>4. QED
      BY <2>1, <2>3 DEF Led, Admitted, ArrivesWhereAsked
  <1>4. QED
    BY <1>1, <1>2, <1>3 DEF GuardsHold

------------------------------------------------------------------------------
(* All of them. *)

\* The pages that do not move wait in a state they start in.
Inv ==
    /\ DecoderInv /\ LogInv /\ TerminalInv /\ NavigationInv
    /\ IF kind = "inspect" THEN InspectInv
       ELSE IF kind = "statistics" THEN StatisticsInv ELSE PagesIdle
    /\ IF kind = "projects" THEN ProjectsInv ELSE ServicesInv

LEMMA InitInv == Init => Inv
  <1>1. SUFFICES ASSUME Init PROVE Inv
    OBVIOUS
  <1>2. DecoderInv /\ LogInv /\ TerminalInv /\ NavigationInv
    BY <1>1, DecoderInitInv, LogInitInv, TerminalPageInitInv, NavigationInitInv
       DEF Init
  <1>3. IF kind = "inspect" THEN InspectInv
        ELSE IF kind = "statistics" THEN StatisticsInv ELSE PagesIdle
    BY <1>1, InspectInitInv, StatisticsInitInv DEF Init
  <1>4. IF kind = "projects" THEN ProjectsInv ELSE ServicesInv
    <2>1. CASE kind = "projects"
      BY <1>1, <2>1, ProjectsInitInv DEF Init
    <2>2. CASE kind # "projects"
      BY <1>1, <2>2, ServicesInitInv DEF Init
    <2>3. QED
      BY <2>1, <2>2
  <1>5. QED
    BY <1>2, <1>3, <1>4 DEF Inv

\* A page that does not move keeps its invariant.
LEMMA DecoderStays == DecoderInv /\ UNCHANGED decoderVars => DecoderInv'
  BY DecoderNextInv
LEMMA LogStays == LogInv /\ UNCHANGED logVars => LogInv' /\ LeftLogRests
  <1> SUFFICES ASSUME LogInv, UNCHANGED logVars PROVE LogInv' /\ LeftLogRests
    OBVIOUS
  <1>1. LogInv'
    BY DEF LogInv, logVars
  <1>2. LeftLogRests
    BY DEF LogInv, LogPages, LeftLogRests, logVars
  <1>3. QED
    BY <1>1, <1>2
LEMMA PagesStay ==
  UNCHANGED pageVars =>
    /\ InspectInv => InspectInv'
    /\ StatisticsInv => StatisticsInv'
    /\ PagesIdle => PagesIdle'
    /\ LeftPagesRest
  BY DEF InspectInv, StatisticsInv, PagesIdle, LeftPagesRest, pageVars
LEMMA ListsStay ==
  UNCHANGED listVars => (ServicesInv => ServicesInv') /\ (ProjectsInv => ProjectsInv')
  BY DEF ServicesInv, ProjectsInv, listVars
LEMMA TerminalStays == TerminalInv /\ UNCHANGED terminalVars => TerminalInv'
  BY DEF TerminalInv, terminalVars
LEMMA NavigationStays == NavigationInv /\ UNCHANGED navigationVars => NavigationInv'
  BY DEF NavigationInv, navigationVars

LEMMA NextInv == Inv /\ [Next]_vars => Inv' /\ LeftPagesRest /\ LeftLogRests
  <1>1. SUFFICES ASSUME Inv, [Next]_vars
                 PROVE  Inv' /\ LeftPagesRest /\ LeftLogRests
    OBVIOUS
  <1> DEFINE TaskPagesInv == IF kind = "inspect" THEN InspectInv
                             ELSE IF kind = "statistics" THEN StatisticsInv
                             ELSE PagesIdle
             ListsInv == IF kind = "projects" THEN ProjectsInv ELSE ServicesInv
  <1>2. /\ DecoderInv /\ LogInv /\ TerminalInv /\ NavigationInv
        /\ TaskPagesInv /\ ListsInv
    BY <1>1 DEF Inv
  <1>3. kind' = kind
    BY <1>1 DEF Next, vars
  <1>4. DecoderInv'
    <2>1. DecoderNext \/ UNCHANGED decoderVars
      BY <1>1 DEF Next, vars
    <2>2. QED
      BY <1>2, <2>1, DecoderNextInv
  <1>5. LogInv' /\ LeftLogRests
    <2>1. LogNext \/ UNCHANGED logVars
      BY <1>1 DEF Next, vars
    <2>2. QED
      BY <1>2, <2>1, LogNextInv, LogRests, LogStays
  <1>6. TaskPagesInv' /\ LeftPagesRest
    <2>1. \/ kind = "inspect" /\ InspectNext
          \/ kind = "statistics" /\ StatisticsNext
          \/ UNCHANGED pageVars
      BY <1>1 DEF Next, vars
    <2>2. CASE kind = "inspect" /\ InspectNext
      <3>1. InspectInv
        BY <1>2, <2>2
      <3>2. InspectInv' /\ LeftPagesRest
        BY <2>2, <3>1, InspectNextInv, InspectRests
      <3>3. QED
        BY <1>3, <2>2, <3>2
    <2>3. CASE kind = "statistics" /\ StatisticsNext
      <3>1. StatisticsInv
        BY <1>2, <2>3
      <3>2. StatisticsInv' /\ LeftPagesRest
        BY <2>3, <3>1, StatisticsNextInv, StatisticsRests
      <3>3. QED
        BY <1>3, <2>3, <3>2
    <2>4. CASE UNCHANGED pageVars
      BY <1>2, <1>3, <2>4, PagesStay
    <2>5. QED
      BY <2>1, <2>2, <2>3, <2>4
  <1>7. ListsInv'
    <2>1. \/ kind = "services" /\ ServicesNext
          \/ kind = "projects" /\ ProjectsNext
          \/ UNCHANGED listVars
      BY <1>1 DEF Next, vars
    <2>2. CASE kind = "services" /\ ServicesNext
      <3>1. ServicesInv
        BY <1>2, <2>2
      <3>2. ServicesInv'
        BY <2>2, <3>1, ServicesNextInv
      <3>3. QED
        BY <1>3, <2>2, <3>2
    <2>3. CASE kind = "projects" /\ ProjectsNext
      <3>1. ProjectsInv
        BY <1>2, <2>3
      <3>2. ProjectsInv'
        BY <2>3, <3>1, ProjectsNextInv
      <3>3. QED
        BY <1>3, <2>3, <3>2
    <2>4. CASE UNCHANGED listVars
      BY <1>2, <1>3, <2>4, ListsStay
    <2>5. QED
      BY <2>1, <2>2, <2>3, <2>4
  <1>8. TerminalInv'
    <2>1. TerminalPageNext \/ UNCHANGED terminalVars
      BY <1>1 DEF Next, vars
    <2>2. QED
      BY <1>2, <2>1, TerminalPageNextInv, TerminalStays
  <1>9. NavigationInv'
    <2>1. NavigationNext \/ UNCHANGED navigationVars
      BY <1>1 DEF Next, vars
    <2>2. QED
      BY <1>2, <2>1, NavigationNextInv, NavigationStays
  <1>10. QED
    BY <1>4, <1>5, <1>6, <1>7, <1>8, <1>9 DEF Inv

LEMMA WhatInvMeans ==
  ASSUME Inv
  PROVE  TypeOK /\ ShowsWhatIsAsked /\ NothingIsLeftBehind /\ GuardsHold
  <1>1. DecoderTypeOK /\ LinesSurviveOtherCuts
    BY DecoderKeeps DEF Inv
  <1>2. LogTypeOK /\ LogsFollowTheFilters /\ NoLogIsFollowedForNobody
    BY LogsAreHeeded DEF Inv
  <1>3. TaskPagesTypeOK /\ PagesShowTheirTask /\ PollingGoesOn
    <2>1. InspectInv \/ StatisticsInv \/ PagesIdle
      BY DEF Inv
    <2>2. QED
      BY <2>1, PagesKeep
  <1>4. ListPagesTypeOK /\ RowsLoadOnce /\ SelectionIsWhatIsSent
    <2>1. ServicesInv \/ ProjectsInv
      BY DEF Inv
    <2>2. QED
      BY <2>1, ServicesKeep, ProjectsKeep
  <1>5. TerminalPageTypeOK /\ OneTerminalSocket /\ ConnectingEnds
    BY TerminalKeeps DEF Inv
  <1>6. NavigationTypeOK /\ GuardsHold
    BY NavigationIsGuarded DEF Inv
  <1>7. QED
    BY <1>1, <1>2, <1>3, <1>4, <1>5, <1>6
       DEF TypeOK, ShowsWhatIsAsked, NothingIsLeftBehind

\* Every state satisfies the invariant of each page.
THEOREM InvHolds == Spec => []Inv
  <1>1. Inv /\ [Next]_vars => Inv'
    BY NextInv
  <1>2. QED
    BY InitInv, <1>1, PTL DEF Spec

\* Requests, loads, sockets and tickets stay what they are, within their
\* bounds, on every page and in the decoder.
THEOREM TypesHold == Spec => []TypeOK
  <1>1. Inv => TypeOK
    BY WhatInvMeans
  <1>2. QED
    BY <1>1, InvHolds, PTL

\* What a page shows is what its user asks for at the moment, in whatever order
\* answers come (the guards of TaskInspectPage.vue, TaskStatisticsPage.vue,
\* ServicesPage.vue, GitLabProjectsPage.vue and TaskLogsPage.vue), and a log
\* that createDockerLogLineDecoder follows shows the lines that
\* decodeDockerLogOutput has of it, wherever else its chunks are cut.
THEOREM ShowsWhatIsAskedHolds == Spec => []ShowsWhatIsAsked
  <1>1. Inv => ShowsWhatIsAsked
    BY WhatInvMeans
  <1>2. QED
    BY <1>1, InvHolds, PTL

\* Nothing goes on for a page that was left, or stops for one that stays: log
\* streams, the poll timer, the socket of a terminal and the wait for its
\* ticket (the unmount hooks of the pages); but for a log whose limit of lines
\* came after its page was left.
THEOREM NothingIsLeftBehindHolds == Spec => []NothingIsLeftBehind
  <1>1. Inv => NothingIsLeftBehind
    BY WhatInvMeans
  <1>2. QED
    BY <1>1, InvHolds, PTL

\* Who is on a page may see it, came from where the guard sends, and after few
\* redirects (beforeEach of router/index.ts).
THEOREM GuardsAlwaysHold == Spec => []GuardsHold
  <1>1. Inv => GuardsHold
    BY WhatInvMeans
  <1>2. QED
    BY <1>1, InvHolds, PTL

\* The pages of a task's inspection, statistics and log change no more once they
\* were left, whatever is still answered or closed (the unmount hooks of
\* TaskInspectPage.vue, TaskStatisticsPage.vue and TaskLogsPage.vue); but for
\* onMounted of TaskLogsPage.vue, which connects when its await ends later.
THEOREM LeftPagesAlwaysStay == Spec => LeftPagesStay
  <1>1. Inv /\ [Next]_vars => [LeftPagesRest /\ LeftLogRests]_vars
    BY NextInv
  <1>2. QED
    BY <1>1, InvHolds, PTL DEF Spec, LeftPagesStay
==============================================================================

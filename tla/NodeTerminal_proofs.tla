------------------------- MODULE NodeTerminal_proofs -------------------------
(***************************************************************************)
(* Proofs about NodeTerminal, for all inputs, chunks, sizes, nodes and     *)
(* limits: what the two ends and the connection between them keep, and     *)
(* whose shell it is.                                                      *)
(*                                                                         *)
(* The invariant places every message.  What the manager sent is what the  *)
(* agent has taken, then what is under way, then what was lost with the    *)
(* connection; what the shell wrote is what the browser has, what the      *)
(* manager's stream keeps, what is under way, and what was lost.  Both are *)
(* said by position, so that a step that moves a message moves an index.   *)
(***************************************************************************)
EXTENDS NodeTerminal, TLAPS, WellFoundedInduction, SequenceTheorems

-----------------------------------------------------------------------------
(* Recursion over a sequence: induction as the least number outside a set, *)
(* and the existence of what a recursive function defines.                 *)

\* A set that holds 0 and with each number the next one holds them all.
LEMMA SetInduction ==
  ASSUME NEW S, 0 \in S, \A n \in Nat : n \in S => n + 1 \in S
  PROVE  Nat \subseteq S
  <1> DEFINE T == {n \in Nat : n \notin S}
  <1>1. CASE T = {}
    BY <1>1
  <1>2. CASE T # {}
    <2>1. PICK x \in T : \A y \in T : ~(<<y, x>> \in OpToRel(<, Nat))
      BY <1>2, WFMin, NatLessThanWellFounded
    <2>2. x # 0 /\ x - 1 \in Nat /\ x - 1 < x
      OBVIOUS
    <2>3. <<x - 1, x>> \in OpToRel(<, Nat)
      BY <2>2 DEF OpToRel
    <2>4. x - 1 \in S
      BY <2>1, <2>2, <2>3
    <2>5. QED
      BY <2>2, <2>4
  <1>3. QED
    BY <1>1, <1>2

\* n steps over S, and the runs that start with b and take them.
Steps(S, n) == [S \X (1..n) -> S]
Runs(S, b, n, h) ==
    {g \in [0..n -> S] : g[0] = b /\ \A i \in 1..n : g[i] = h[<<g[i - 1], i>>]}

\* There is one.
LEMMA Iteration ==
  ASSUME NEW S, NEW b \in S, NEW n \in Nat, NEW h \in Steps(S, n)
  PROVE  Runs(S, b, n, h) # {}
  <1> USE DEF Steps
  <1> DEFINE Upto(k, g) == g[0] = b /\ \A i \in 1..k : g[i] = h[<<g[i - 1], i>>]
             P == {k \in Nat : k <= n => \E g \in [0..k -> S] : Upto(k, g)}
  <1>1. 0 \in P
    <2> DEFINE g == [i \in 0..0 |-> b]
    <2>1. g \in [0..0 -> S] /\ Upto(0, g)
      OBVIOUS
    <2>2. QED
      BY <2>1
  <1>2. ASSUME NEW k \in Nat, k \in P PROVE k + 1 \in P
    <2>1. SUFFICES ASSUME k + 1 <= n
                   PROVE  \E g \in [0..(k + 1) -> S] : Upto(k + 1, g)
      OBVIOUS
    <2>2. PICK f \in [0..k -> S] : Upto(k, f)
      BY <1>2, <2>1
    <2>3. k \in 0..k /\ k + 1 \in 1..n
      BY <2>1
    <2>4. h[<<f[k], k + 1>>] \in S
      BY <2>3
    <2> DEFINE g == [i \in 0..(k + 1) |->
                        IF i = k + 1 THEN h[<<f[k], k + 1>>] ELSE f[i]]
    <2>5. g \in [0..(k + 1) -> S]
      BY <2>4
    <2>6. Upto(k + 1, g)
      <3>1. g[0] = b /\ g[k] = f[k] /\ g[k + 1] = h[<<f[k], k + 1>>]
        BY <2>2
      <3>2. ASSUME NEW i \in 1..(k + 1) PROVE g[i] = h[<<g[i - 1], i>>]
        <4>1. CASE i = k + 1
          <5>1. i - 1 = k
            BY <4>1
          <5>2. QED
            BY <5>1, <4>1, <3>1
        <4>2. CASE i # k + 1
          <5>1. i \in 1..k /\ i - 1 \in 0..k
            BY <4>2
          <5>2. g[i] = f[i] /\ g[i - 1] = f[i - 1]
            BY <5>1
          <5>3. QED
            BY <5>1, <5>2, <2>2
        <4>3. QED
          BY <4>1, <4>2
      <3>3. QED
        BY <3>1, <3>2
    <2>7. QED
      BY <2>5, <2>6
  <1> HIDE DEF P
  <1>3. n \in P
    BY <1>1, <1>2, SetInduction
  <1>4. PICK g \in [0..n -> S] : Upto(n, g)
    BY <1>3 DEF P
  <1>5. g \in Runs(S, b, n, h)
    BY <1>4 DEF Runs
  <1>6. QED
    BY <1>5

-----------------------------------------------------------------------------
(* The messages of one kind.                                               *)

\* What the recursion in Only goes through.
Selections(S, kind, q) ==
    {f \in [0..Len(q) -> Seq(S)] :
        /\ f[0] = <<>>
        /\ \A i \in 1..Len(q) :
              f[i] = IF q[i].kind = kind THEN Append(f[i - 1], q[i]) ELSE f[i - 1]}

LEMMA OnlySteps ==
  ASSUME NEW S, NEW q \in Seq(S), NEW kind
  PROVE  \E f \in Selections(S, kind, q) : Only(kind, q) = f[Len(q)]
  <1> DEFINE T == Seq(S)
             n == Len(q)
             h == [x \in T \X (1..n) |->
                      IF q[x[2]].kind = kind THEN Append(x[1], q[x[2]]) ELSE x[1]]
  <1>1. n \in Nat /\ \A i \in 1..n : q[i] \in S
    OBVIOUS
  <1>2. h \in Steps(T, n) /\ <<>> \in T
    BY <1>1 DEF Steps
  <1> HIDE DEF T, n, h
  <1>3. PICK g \in [0..n -> T] :
            g[0] = <<>> /\ \A i \in 1..n : g[i] = h[<<g[i - 1], i>>]
    <2>1. Runs(T, <<>>, n, h) # {}
      BY <1>1, <1>2, Iteration
    <2>2. QED
      BY <2>1 DEF Runs
  <1> USE DEF T, n, h
  <1> DEFINE Is(f1) == f1 = [i \in 0..n |->
                              IF i = 0 THEN <<>>
                              ELSE IF q[i].kind = kind THEN Append(f1[i - 1], q[i])
                                   ELSE f1[i - 1]]
  <1>4. Is(g)
    <2>1. \A i \in 0..n : i # 0 => i - 1 \in 0..n /\ i \in 1..n
      BY <1>1
    <2>2. \A i \in 0..n : i # 0 =>
             g[i] = IF q[i].kind = kind THEN Append(g[i - 1], q[i])
                                  ELSE g[i - 1]
      BY <2>1, <1>3
    <2>3. QED
      BY <1>3, <2>2
  <1> DEFINE f == CHOOSE g1 : Is(g1)
  <1>5. Is(f)
    BY <1>4
  <1>6. Only(kind, q) = f[n]
    BY DEF Only
  <1> HIDE DEF f
  <1>c. \A i \in 0..n :
            f[i] = IF i = 0 THEN <<>>
                   ELSE IF q[i].kind = kind THEN Append(f[i - 1], q[i]) ELSE f[i - 1]
    BY <1>5
  <1>7. f \in [0..n -> Seq(S)]
    <2>1. \A i \in 0..n : i - 1 \in 0..n \/ i = 0
      BY <1>1
    <2>2. DOMAIN f = 0..n /\ f = [i \in 0..n |-> f[i]]
      BY <1>5
    <2> DEFINE P == {i \in Nat : i <= n => f[i] \in Seq(S)}
    <2>3. 0 \in P
      BY <1>1, <1>5
    <2>4. ASSUME NEW i \in Nat, i \in P PROVE i + 1 \in P
      <3>1. SUFFICES ASSUME i + 1 <= n PROVE f[i + 1] \in Seq(S)
        OBVIOUS
      <3>2. f[i] \in Seq(S) /\ i + 1 \in 1..n /\ i + 1 \in 0..n /\ (i + 1) - 1 = i
        BY <2>4, <3>1, <1>1
      <3>3. f[i + 1] = IF q[i + 1].kind = kind THEN Append(f[i], q[i + 1]) ELSE f[i]
        BY <1>c, <3>2
      <3>4. QED
        BY <3>2, <3>3, <1>1
    <2> HIDE DEF P
    <2>5. Nat \subseteq P
      BY <2>3, <2>4, SetInduction
    <2>6. \A i \in 0..n : f[i] \in Seq(S)
      BY <2>5, <1>1 DEF P
    <2>7. QED
      BY <2>2, <2>6
  <1>8. \A i \in 1..n :
            f[i] = IF q[i].kind = kind THEN Append(f[i - 1], q[i]) ELSE f[i - 1]
    <2>1. \A i \in 1..n : i \in 0..n /\ i # 0
      BY <1>1
    <2>2. QED
      BY <1>c, <2>1
  <1>9. f[0] = <<>>
    BY <1>1, <1>c
  <1>10. f \in Selections(S, kind, q)
    BY <1>7, <1>8, <1>9 DEF Selections
  <1>11. QED
    BY <1>6, <1>10

\* What Only chooses from is what it chooses.
LEMMA OnlyType ==
  ASSUME NEW S, NEW q \in Seq(S), NEW kind
  PROVE  Only(kind, q) \in Seq(S)
  <1>1. Len(q) \in 0..Len(q)
    OBVIOUS
  <1>2. QED
    BY <1>1, OnlySteps DEF Selections

\* Nothing is chosen from nothing.
LEMMA OnlyOfNone ==
  ASSUME NEW kind
  PROVE  Only(kind, <<>>) = <<>>
  <1>1. <<>> \in Seq({}) /\ Len(<<>>) = 0
    OBVIOUS
  <1>2. PICK f \in Selections({}, kind, <<>>) : Only(kind, <<>>) = f[Len(<<>>)]
    BY <1>1, OnlySteps
  <1>3. QED
    BY <1>1, <1>2 DEF Selections

\* A message that is added is chosen behind the others, or not at all.
LEMMA OnlyAppend ==
  ASSUME NEW S, NEW q \in Seq(S), NEW m \in S, NEW kind
  PROVE  Only(kind, Append(q, m)) =
            IF m.kind = kind THEN Append(Only(kind, q), m) ELSE Only(kind, q)
  <1> DEFINE p == Append(q, m)
             n == Len(q)
  <1>1. /\ p \in Seq(S) /\ n \in Nat /\ Len(p) = n + 1
        /\ p[n + 1] = m /\ \A i \in 1..n : p[i] = q[i]
    OBVIOUS
  <1>2. PICK f \in Selections(S, kind, q) : Only(kind, q) = f[n]
    BY OnlySteps
  <1> HIDE DEF p
  <1>3. PICK g \in Selections(S, kind, p) : Only(kind, p) = g[n + 1]
    BY <1>1, OnlySteps
  <1>a. /\ f[0] = <<>>
        /\ \A i \in 1..n :
              f[i] = IF q[i].kind = kind THEN Append(f[i - 1], q[i]) ELSE f[i - 1]
    BY DEF Selections
  <1>b. /\ g[0] = <<>>
        /\ \A i \in 1..(n + 1) :
              g[i] = IF p[i].kind = kind THEN Append(g[i - 1], p[i]) ELSE g[i - 1]
    BY <1>1 DEF Selections
  <1> HIDE DEF n
  <1> DEFINE P == {i \in Nat : i <= n => g[i] = f[i]}
  <1>4. 0 \in P
    BY <1>a, <1>b
  <1>5. ASSUME NEW i \in Nat, i \in P PROVE i + 1 \in P
    <2>1. SUFFICES ASSUME i + 1 <= n PROVE g[i + 1] = f[i + 1]
      OBVIOUS
    <2>2. i + 1 \in 1..n /\ i + 1 \in 1..(n + 1) /\ (i + 1) - 1 = i /\ g[i] = f[i]
      BY <1>1, <1>5, <2>1
    <2>3. g[i + 1] = IF p[i + 1].kind = kind THEN Append(g[i], p[i + 1]) ELSE g[i]
      BY <1>b, <2>2
    <2>4. f[i + 1] = IF q[i + 1].kind = kind THEN Append(f[i], q[i + 1]) ELSE f[i]
      BY <1>a, <2>2
    <2>5. QED
      BY <1>1, <2>2, <2>3, <2>4
  <1> HIDE DEF P
  <1>6. n \in P
    BY <1>1, <1>4, <1>5, SetInduction
  <1>7. g[n] = f[n]
    BY <1>1, <1>6 DEF P
  <1>8. n + 1 \in 1..(n + 1) /\ (n + 1) - 1 = n
    BY <1>1
  <1>9. g[n + 1] = IF m.kind = kind THEN Append(g[n], m) ELSE g[n]
    BY <1>1, <1>b, <1>8
  <1>10. Only(kind, p) = IF m.kind = kind THEN Append(Only(kind, q), m)
                         ELSE Only(kind, q)
    BY <1>2, <1>3, <1>7, <1>9
  <1>11. QED
    BY <1>10 DEF p

-----------------------------------------------------------------------------
(* The size asked for last.                                                *)

\* A message that is added asks for its size, if it is a resize.
LEMMA LastSizeAppend ==
  ASSUME NEW S, NEW q \in Seq(S), NEW m \in S, NEW none
  PROVE  LastSize(Append(q, m), none) =
            IF m.kind = "resize" THEN m.size ELSE LastSize(q, none)
  <1> DEFINE r == Only("resize", q)
  <1>1. Only("resize", Append(q, m)) = IF m.kind = "resize" THEN Append(r, m) ELSE r
    BY OnlyAppend
  <1>2. r \in Seq(S)
    BY OnlyType
  <1> HIDE DEF r
  <1>3. Append(r, m) # <<>> /\ Append(r, m)[Len(Append(r, m))] = m
    BY <1>2
  <1>4. QED
    BY <1>1, <1>3 DEF LastSize, r

\* No message asks for none.
LEMMA LastSizeOfNone ==
  ASSUME NEW none
  PROVE  LastSize(<<>>, none) = none
  BY OnlyOfNone DEF LastSize

-----------------------------------------------------------------------------
(* Prefixes.                                                               *)

\* A prefix has what it has where the other has it.
LEMMA PrefixIs ==
  ASSUME NEW S, NEW s \in Seq(S), NEW t \in Seq(S)
  PROVE  IsPrefix(s, t) <=> /\ Len(s) <= Len(t)
                            /\ \A i \in 1..Len(s) : s[i] = t[i]
  <1>1. SubSeq(s, 1, Len(s)) = s
    OBVIOUS
  <1>2. ASSUME Len(s) <= Len(t), \A i \in 1..Len(s) : s[i] = t[i]
        PROVE  SubSeq(t, 1, Len(s)) = s
    <2> DEFINE u == SubSeq(t, 1, Len(s))
    <2>1. /\ u \in Seq(S) /\ Len(u) = Len(s)
          /\ \A i \in 1..Len(s) : u[i] = t[i]
      BY <1>2
    <2> HIDE DEF u
    <2>2. u = s
      BY <1>2, <2>1
    <2>3. QED
      BY <2>2 DEF u
  <1>3. ASSUME Len(s) <= Len(t), SubSeq(t, 1, Len(s)) = s, NEW i \in 1..Len(s)
        PROVE  s[i] = t[i]
    <2>1. SubSeq(t, 1, Len(s))[i] = t[i]
      BY <1>3
    <2>2. QED
      BY <1>3, <2>1
  <1>4. QED
    BY <1>1, <1>2, <1>3 DEF IsPrefix

\* It stays one when the other grows.
LEMMA PrefixGrows ==
  ASSUME NEW S, NEW s \in Seq(S), NEW t \in Seq(S), NEW m \in S, IsPrefix(s, t)
  PROVE  IsPrefix(s, Append(t, m))
  <1> DEFINE u == Append(t, m)
  <1>1. u \in Seq(S) /\ Len(u) = Len(t) + 1 /\ \A i \in 1..Len(t) : u[i] = t[i]
    OBVIOUS
  <1>2. Len(s) <= Len(t) /\ \A i \in 1..Len(s) : s[i] = t[i]
    BY PrefixIs
  <1> HIDE DEF u
  <1>3. \A i \in 1..Len(s) : i \in 1..Len(t)
    BY <1>2
  <1>4. Len(s) <= Len(u) /\ \A i \in 1..Len(s) : s[i] = u[i]
    BY <1>1, <1>2, <1>3
  <1>5. IsPrefix(s, u)
    BY <1>1, <1>4, PrefixIs
  <1>6. QED
    BY <1>5 DEF u

\* A sequence is a prefix of itself, and nothing is one of every sequence.
LEMMA PrefixSelf ==
  ASSUME NEW S, NEW s \in Seq(S)
  PROVE  IsPrefix(s, s) /\ IsPrefix(<<>>, s)
  <1>1. IsPrefix(s, s)
    BY PrefixIs
  <1> DEFINE e == <<>>
  <1>2. e \in Seq(S) /\ Len(e) = 0
    OBVIOUS
  <1> HIDE DEF e
  <1>3. Len(e) <= Len(s) /\ \A i \in 1..Len(e) : e[i] = s[i]
    BY <1>2
  <1>4. IsPrefix(e, s)
    BY <1>2, <1>3, PrefixIs
  <1>5. QED
    BY <1>1, <1>4 DEF e

\* What is chosen from the first messages is a prefix of what is from all.
LEMMA OnlyPrefix ==
  ASSUME NEW S, NEW q \in Seq(S), NEW n \in 0..Len(q), NEW kind
  PROVE  IsPrefix(Only(kind, SubSeq(q, 1, n)), Only(kind, q))
  <1> DEFINE First(i) == Only(kind, SubSeq(q, 1, n + i))
             P == {i \in Nat : n + i <= Len(q) => IsPrefix(First(0), First(i))}
  <1>1. \A i \in Nat : n + i <= Len(q) => SubSeq(q, 1, n + i) \in Seq(S)
    OBVIOUS
  <1>2. \A i \in Nat : n + i <= Len(q) => First(i) \in Seq(S)
    BY <1>1, OnlyType
  <1>3. 0 \in P
    BY <1>2, PrefixSelf
  <1>4. ASSUME NEW i \in Nat, i \in P PROVE i + 1 \in P
    <2>1. SUFFICES ASSUME n + (i + 1) <= Len(q)
                   PROVE  IsPrefix(First(0), First(i + 1))
      OBVIOUS
    <2> DEFINE p == SubSeq(q, 1, n + i)
               m == q[n + i + 1]
    <2>2. /\ p \in Seq(S) /\ m \in S /\ n \in Nat
          /\ SubSeq(q, 1, n + (i + 1)) = Append(p, m)
          /\ First(i) = Only(kind, p) /\ n + 0 <= Len(q) /\ n + i <= Len(q)
      BY <2>1
    <2>3. First(0) \in Seq(S) /\ First(i) \in Seq(S) /\ IsPrefix(First(0), First(i))
      BY <1>2, <1>4, <2>2
    <2>4. First(i + 1) = IF m.kind = kind THEN Append(First(i), m) ELSE First(i)
      <3> HIDE DEF p, m
      <3>1. Only(kind, Append(p, m)) =
                IF m.kind = kind THEN Append(Only(kind, p), m) ELSE Only(kind, p)
        BY <2>2, OnlyAppend
      <3>2. QED
        BY <2>2, <3>1
    <2> HIDE DEF First, p, m
    <2>5. IsPrefix(First(0), Append(First(i), m))
      BY <2>2, <2>3, PrefixGrows
    <2>6. QED
      BY <2>3, <2>4, <2>5
  <1> HIDE DEF P
  <1>5. Len(q) - n \in P
    BY <1>3, <1>4, SetInduction
  <1>6. n + (Len(q) - n) = Len(q) /\ n + 0 = n /\ SubSeq(q, 1, Len(q)) = q
    OBVIOUS
  <1>7. IsPrefix(First(0), First(Len(q) - n))
    BY <1>5, <1>6 DEF P
  <1>8. QED
    BY <1>6, <1>7

-----------------------------------------------------------------------------
(* The inductive invariant.                                                *)

Chunked == [kind : {"chunk"}, nr : 1..MaxProduced, bytes : Chunks]

ManagerType == [promise : {"waiting", "resolved", "rejected"},
                readyTimer : BOOLEAN, destroyed : BOOLEAN,
                readable : Seq(Chunked), paused : BOOLEAN]
ContainerType == [shell : {"none", "alive", "dead"}, size : Sizes \cup {None},
                  read : Seq(Messages)]

Types ==
    /\ TypeOK
    /\ manager \in ManagerType /\ container \in ContainerType
    /\ typed \in Seq(Messages) /\ produced \in Seq(Chunked)
    /\ taken \in Seq(Chunked)

\* Before the connection, and how far the handler is.
Stages ==
    /\ link = "none" => agent = NoAgent /\ typed = <<>> /\ toAgent = <<>>
    /\ agent.stage = "none" => agent = NoAgent
    /\ manager.promise = "resolved" => link # "none" /\ container.shell # "none"
    /\ agent.stage # "none" => place.node = asked
    /\ agent.stage \in {"exec", "start", "open"} => place.ours
    /\ agent.stage # "none" /\ ~agent.closed =>
          agent.idleTimer /\ agent.sessionTimer
    /\ container.shell = "alive" => agent.stage = "open" /\ ~agent.closed
    /\ agent.stage \in {"none", "inspect", "exec", "start"} => container.shell = "none"

\* The size the window of the shell is going to have in the end.
Wanted ==
    IF agent.pendingSize # None THEN agent.pendingSize
    ELSE IF agent.resizing # None THEN agent.resizing ELSE container.size

\* The agent has taken n of the messages typed, and others are under way.
Arrived(n) ==
    /\ n + Len(toAgent) <= Len(typed)
    /\ \A i \in 1..Len(toAgent) : toAgent[i] = typed[n + i]
    /\ link = "up" => n + Len(toAgent) = Len(typed)
    /\ ~agent.closed => /\ container.read = Only("input", SubSeq(typed, 1, n))
                        /\ Wanted = LastSize(SubSeq(typed, 1, n), None)
                        /\ agent.pendingSize # None => agent.resizing # None
Inbound ==
    /\ \E n \in 0..Len(typed) : Arrived(n)
    /\ IsPrefix(container.read, Only("input", typed))

\* How many chunks the manager's end has had, and whether "ready" is still
\* under way before all others.
Had == Len(taken) + Len(manager.readable)
Offset == IF toManager # <<>> /\ toManager[1].kind = "ready" THEN 1 ELSE 0

UnderWay(i) ==
    /\ toManager[i].kind = "ready" => i = 1 /\ container.shell # "none"
    /\ toManager[i].kind = "close" => agent.closed
    /\ toManager[i].kind = "chunk" =>
          /\ Had + i - Offset \in 1..Len(produced)
          /\ toManager[i] = produced[Had + i - Offset]
Outbound ==
    /\ Had <= Len(produced)
    /\ \A i \in 1..Len(taken) : taken[i] = produced[i]
    /\ \A i \in 1..Len(manager.readable) :
          manager.readable[i] = produced[Len(taken) + i]
    /\ \A i \in 1..Len(toManager) : UnderWay(i)
    /\ container.shell = "none" => produced = <<>>
    /\ container.shell = "none" /\ ~agent.closed => toManager = <<>>
    /\ link = "up" /\ ~agent.closed /\ container.shell # "none" =>
          Len(produced) = Had + Len(toManager) - Offset

Inv == Types /\ Stages /\ Inbound /\ Outbound

-----------------------------------------------------------------------------
(* What messages weigh.                                                    *)

\* The sums the recursion in Bytes goes through.
Sums(q) ==
    {f \in [0..Len(q) -> Nat] :
        f[0] = 0 /\ \A i \in 1..Len(q) : f[i] = f[i - 1] + q[i].bytes}

LEMMA BytesSteps ==
  ASSUME NEW S, NEW q \in Seq(S), \A m \in S : m.bytes \in Nat
  PROVE  \E f \in Sums(q) : Bytes(q) = f[Len(q)]
  <1> DEFINE n == Len(q)
             h == [x \in Nat \X (1..n) |-> x[1] + q[x[2]].bytes]
  <1>1. n \in Nat /\ \A i \in 1..n : q[i].bytes \in Nat
    OBVIOUS
  <1>2. h \in Steps(Nat, n) /\ 0 \in Nat
    BY <1>1 DEF Steps
  <1> HIDE DEF n, h
  <1>3. PICK g \in [0..n -> Nat] :
            g[0] = 0 /\ \A i \in 1..n : g[i] = h[<<g[i - 1], i>>]
    <2>1. Runs(Nat, 0, n, h) # {}
      BY <1>1, <1>2, Iteration
    <2>2. QED
      BY <2>1 DEF Runs
  <1> USE DEF n, h
  <1> DEFINE Is(f1) == f1 = [i \in 0..n |-> IF i = 0 THEN 0
                                            ELSE f1[i - 1] + q[i].bytes]
  <1>4. \A i \in 0..n : i # 0 => i - 1 \in 0..n /\ i \in 1..n
    BY <1>1
  <1>5. Is(g)
    <2>1. \A i \in 0..n : i # 0 => g[i] = g[i - 1] + q[i].bytes
      BY <1>3, <1>4
    <2>2. QED
      BY <1>3, <2>1
  <1> DEFINE f == CHOOSE f1 : Is(f1)
  <1>6. Is(f)
    BY <1>5
  <1>7. Bytes(q) = f[n]
    BY DEF Bytes
  <1> HIDE DEF f
  <1>8. \A i \in 0..n : f[i] = IF i = 0 THEN 0 ELSE f[i - 1] + q[i].bytes
    BY <1>6
  <1>9. f \in [0..n -> Nat]
    <2>1. DOMAIN f = 0..n /\ f = [i \in 0..n |-> f[i]]
      BY <1>6
    <2> DEFINE P == {i \in Nat : i <= n => f[i] \in Nat}
    <2>2. 0 \in P
      BY <1>1, <1>8
    <2>3. ASSUME NEW i \in Nat, i \in P PROVE i + 1 \in P
      <3>1. SUFFICES ASSUME i + 1 <= n PROVE f[i + 1] \in Nat
        OBVIOUS
      <3>2. f[i] \in Nat /\ i + 1 \in 1..n /\ i + 1 \in 0..n /\ (i + 1) - 1 = i
        BY <2>3, <3>1, <1>1
      <3>3. f[i + 1] = f[i] + q[i + 1].bytes
        BY <1>8, <3>2
      <3>4. QED
        BY <3>2, <3>3, <1>1
    <2> HIDE DEF P
    <2>4. Nat \subseteq P
      BY <2>2, <2>3, SetInduction
    <2>5. \A i \in 0..n : f[i] \in Nat
      BY <2>4, <1>1 DEF P
    <2>6. QED
      BY <2>1, <2>5
  <1>10. f[0] = 0 /\ \A i \in 1..n : f[i] = f[i - 1] + q[i].bytes
    <2>1. 0 \in 0..n /\ \A i \in 1..n : i \in 0..n /\ i # 0
      BY <1>1
    <2>2. QED
      BY <1>8, <2>1
  <1>11. f \in Sums(q)
    BY <1>9, <1>10 DEF Sums
  <1>12. QED
    BY <1>7, <1>11

\* A message that is added adds its weight.
LEMMA BytesAppend ==
  ASSUME NEW S, NEW q \in Seq(S), NEW m \in S, \A x \in S : x.bytes \in Nat
  PROVE  Bytes(q) \in Nat /\ Bytes(Append(q, m)) = Bytes(q) + m.bytes
  <1> DEFINE p == Append(q, m)
             n == Len(q)
  <1>1. /\ p \in Seq(S) /\ n \in Nat /\ Len(p) = n + 1
        /\ p[n + 1] = m /\ \A i \in 1..n : p[i] = q[i]
    OBVIOUS
  <1>2. PICK f \in Sums(q) : Bytes(q) = f[n]
    BY BytesSteps
  <1> HIDE DEF p
  <1>3. PICK g \in Sums(p) : Bytes(p) = g[n + 1]
    BY <1>1, BytesSteps
  <1>4. /\ f \in [0..n -> Nat] /\ f[0] = 0
        /\ \A i \in 1..n : f[i] = f[i - 1] + q[i].bytes
    BY DEF Sums
  <1>5. g[0] = 0 /\ \A i \in 1..(n + 1) : g[i] = g[i - 1] + p[i].bytes
    BY <1>1 DEF Sums
  <1> HIDE DEF n
  <1> DEFINE P == {i \in Nat : i <= n => g[i] = f[i]}
  <1>6. 0 \in P
    BY <1>4, <1>5
  <1>7. ASSUME NEW i \in Nat, i \in P PROVE i + 1 \in P
    <2>1. SUFFICES ASSUME i + 1 <= n PROVE g[i + 1] = f[i + 1]
      OBVIOUS
    <2>2. /\ i + 1 \in 1..n /\ i + 1 \in 1..(n + 1) /\ (i + 1) - 1 = i
          /\ g[i] = f[i]
      BY <1>1, <1>7, <2>1
    <2>3. g[i + 1] = g[i] + p[i + 1].bytes /\ f[i + 1] = f[i] + q[i + 1].bytes
      BY <1>4, <1>5, <2>2
    <2>4. QED
      BY <1>1, <2>2, <2>3
  <1> HIDE DEF P
  <1>8. n \in P
    BY <1>1, <1>6, <1>7, SetInduction
  <1>9. g[n] = f[n] /\ f[n] \in Nat
    BY <1>1, <1>4, <1>8 DEF P
  <1>10. n + 1 \in 1..(n + 1) /\ (n + 1) - 1 = n
    BY <1>1
  <1>11. g[n + 1] = g[n] + m.bytes
    BY <1>1, <1>5, <1>10
  <1>12. Bytes(q) \in Nat /\ Bytes(p) = Bytes(q) + m.bytes
    BY <1>2, <1>3, <1>9, <1>11
  <1>13. QED
    BY <1>12 DEF p

-----------------------------------------------------------------------------
(* What messages are.                                                      *)

LEMMA MessageFields ==
  ASSUME NEW m \in Messages
  PROVE  /\ m.kind \in {"input", "resize"} /\ m.bytes \in Nat
         /\ m.kind = "resize" => m.size \in Sizes /\ m.size # None
  BY NodeTerminalAssumption DEF Messages

LEMMA ReplyFields ==
  ASSUME NEW m \in Replies
  PROVE  /\ m.kind \in {"chunk", "ready", "close"} /\ m.bytes \in Nat
         /\ m.kind = "chunk" => m \in Chunked
  BY NodeTerminalAssumption DEF Replies, Chunked, CloseFrame

LEMMA SentMessages ==
  /\ \A n \in Inputs : Input(n) \in Messages
  /\ \A s \in Sizes : Resize(s) \in Messages
  /\ \A n \in Nodes : ReadyOf(n) \in Replies /\ ReadyOf(n).kind = "ready"
  /\ CloseFrame \in Replies /\ CloseFrame.kind = "close"
  /\ Chunked \subseteq Replies
  BY DEF Messages, Replies, Input, Resize, ReadyOf, CloseFrame, Chunked

LEMMA ChunkWeights == \A m \in Chunked : m.bytes \in Nat /\ m.kind = "chunk"
  BY NodeTerminalAssumption DEF Chunked

LEMMA BytesOfNone == Bytes(<<>>) = 0
  <1> DEFINE e == <<>>
  <1>1. e \in Seq(Chunked) /\ Len(e) = 0
    OBVIOUS
  <1> HIDE DEF e
  <1>2. PICK f \in Sums(e) : Bytes(e) = f[Len(e)]
    BY <1>1, ChunkWeights, BytesSteps
  <1>3. Bytes(e) = 0
    BY <1>1, <1>2 DEF Sums
  <1>4. QED
    BY <1>3 DEF e

-----------------------------------------------------------------------------
(* What a step may do to the messages without misplacing one.              *)

\* The agent has taken what it had taken, and what is under way to it still
\* is, or is lost with the connection.
LEMMA InboundKeeps ==
  ASSUME Inv, typed' = typed, container'.read = container.read,
         toAgent' = toAgent \/ toAgent' = <<>>,
         link' = "up" => link = "up" /\ toAgent' = toAgent,
         ~agent'.closed => /\ ~agent.closed /\ Wanted' = Wanted
                           /\ agent'.pendingSize # None => agent'.resizing # None
  PROVE  Inbound'
  <1>1. PICK n \in 0..Len(typed) : Arrived(n)
    BY DEF Inv, Inbound
  <1>2. typed \in Seq(Messages) /\ toAgent \in Seq(Messages)
    BY DEF Inv, Types, TypeOK
  <1>3. Len(<<>>) = 0 /\ n + 0 <= Len(typed)
    BY <1>2
  <1>4. /\ n + Len(toAgent') <= Len(typed')
        /\ \A i \in 1..Len(toAgent') : toAgent'[i] = typed'[n + i]
    BY <1>1, <1>2, <1>3 DEF Arrived
  <1>5. link' = "up" => n + Len(toAgent') = Len(typed')
    BY <1>1 DEF Arrived
  <1>6. ~agent'.closed =>
            /\ container'.read = Only("input", SubSeq(typed', 1, n))
            /\ Wanted' = LastSize(SubSeq(typed', 1, n), None)
            /\ agent'.pendingSize # None => agent'.resizing # None
    BY <1>1 DEF Arrived
  <1>7. Arrived(n)'
    BY <1>4, <1>5, <1>6 DEF Arrived
  <1>8. IsPrefix(container'.read, Only("input", typed'))
    BY DEF Inv, Inbound
  <1>9. QED
    BY <1>7, <1>8 DEF Inbound

\* Nothing moves towards the manager, or the agent says that it closes.
LEMMA OutboundKeeps ==
  ASSUME Inv, taken' = taken, produced' = produced,
         manager'.readable = manager.readable,
         \/ toManager' = toManager
         \/ agent'.closed /\ toManager' = Append(toManager, CloseFrame),
         container'.shell = "none" => container.shell = "none",
         container.shell = "none" => container'.shell = "none" \/ agent'.closed,
         agent.closed => agent'.closed,
         link' = "up" => link = "up" \/ container.shell = "none"
  PROVE  Outbound'
  <1>1. Outbound /\ toManager \in Seq(Replies) /\ toManager' \in Seq(Replies)
    <2>1. Outbound /\ toManager \in Seq(Replies) /\ CloseFrame \in Replies
      BY SentMessages DEF Inv, Types, TypeOK
    <2>2. Append(toManager, CloseFrame) \in Seq(Replies)
      BY <2>1
    <2>3. QED
      BY <2>1, <2>2
  <1>2. Had' = Had
    BY DEF Had
  <1>3. Offset' = Offset
    <2>1. CASE toManager' = toManager
      BY <2>1 DEF Offset
    <2>2. CASE toManager' = Append(toManager, CloseFrame)
      <3>1. CASE toManager = <<>>
        BY <2>2, <3>1, SentMessages DEF Offset
      <3>2. CASE toManager # <<>>
        <4>1. toManager' # <<>> /\ toManager'[1] = toManager[1]
          BY <1>1, <2>2, <3>2
        <4>2. QED
          BY <3>2, <4>1 DEF Offset
      <3>3. QED
        BY <3>1, <3>2
    <2>3. QED
      BY <2>1, <2>2
  <1>4. ASSUME NEW i \in 1..Len(toManager') PROVE UnderWay(i)'
    <2>1. CASE i \in 1..Len(toManager)
      <3>1. toManager'[i] = toManager[i]
        BY <1>1, <2>1
      <3>2. UnderWay(i)
        BY <1>1, <2>1 DEF Outbound
      <3>3. QED
        BY <1>2, <1>3, <3>1, <3>2 DEF UnderWay
    <2>2. CASE i \notin 1..Len(toManager)
      <3>1. toManager'[i] = CloseFrame /\ agent'.closed
        BY <1>1, <2>2
      <3>2. QED
        BY <3>1, SentMessages DEF UnderWay
    <2>3. QED
      BY <2>1, <2>2
  <1>5. QED
    BY <1>1, <1>2, <1>3, <1>4 DEF Outbound

\* What is under way to the manager is lost, and what its stream keeps, if
\* that is.
LEMMA OutboundCut ==
  ASSUME Inv, taken' = taken, produced' = produced,
         manager'.readable \in {manager.readable, <<>>},
         toManager' = <<>>, link' # "up",
         container'.shell = container.shell
  PROVE  Outbound'
  <1>1. /\ Outbound /\ Len(<<>>) = 0
        /\ taken \in Seq(Chunked) /\ manager.readable \in Seq(Chunked)
        /\ produced \in Seq(Chunked)
    BY DEF Inv, Types, ManagerType
  <1>2. Had' \in 0..Had /\ Had' <= Len(produced')
    BY <1>1 DEF Had, Outbound
  <1>3. \A i \in 1..Len(manager'.readable) :
            manager'.readable[i] = produced[Len(taken) + i]
    BY <1>1 DEF Outbound
  <1>4. \A i \in 1..Len(toManager') : FALSE
    BY <1>1
  <1>5. QED
    BY <1>1, <1>2, <1>3, <1>4 DEF Outbound

-----------------------------------------------------------------------------
(* The invariant.                                                          *)

LEMMA InitInv == Init => Inv
  <1> SUFFICES ASSUME Init PROVE Inv
    OBVIOUS
  <1>1. /\ link = "none" /\ toAgent = <<>> /\ toManager = <<>>
        /\ manager = NewManager /\ agent = NoAgent
        /\ container = [shell |-> "none", size |-> None, read |-> <<>>]
        /\ typed = <<>> /\ produced = <<>> /\ taken = <<>>
        /\ asked \in Nodes /\ place \in [node : Nodes, ours : BOOLEAN]
    BY DEF Init
  <1>2. 0 \in 0..MaxBuffered /\ 0 <= MaxBuffered /\ Bytes(<<>>) = 0
    BY NodeTerminalAssumption, BytesOfNone
  <1>3. Types
    <2>1. agent \in AgentType
      BY <1>1, <1>2 DEF NoAgent, NewAgent, AgentType
    <2>2. /\ <<>> \in Seq(Messages) /\ <<>> \in Seq(Replies)
          /\ <<>> \in Seq(Chunked)
      OBVIOUS
    <2>3. manager \in ManagerType
      BY <1>1, <2>2 DEF NewManager, ManagerType
    <2>4. container \in ContainerType
      BY <1>1, <2>2 DEF ContainerType
    <2>5. TypeOK
      BY <1>1, <1>2, <2>1, <2>2 DEF TypeOK, NewManager
    <2>6. QED
      BY <1>1, <2>2, <2>3, <2>4, <2>5 DEF Types
  <1>4. Stages
    BY <1>1 DEF Stages, NewManager, NoAgent, NewAgent
  <1>5. Inbound
    <2>1. /\ Len(<<>>) = 0 /\ SubSeq(<<>>, 1, 0) = <<>> /\ 0 \in 0..0
          /\ <<>> \in Seq(Messages)
      OBVIOUS
    <2>2. Wanted = None
      BY <1>1 DEF Wanted, NoAgent, NewAgent
    <2>3. Arrived(0)
      <3>1. /\ container.read = Only("input", SubSeq(typed, 1, 0))
            /\ Wanted = LastSize(SubSeq(typed, 1, 0), None)
        BY <1>1, <2>1, <2>2, OnlyOfNone, LastSizeOfNone
      <3>2. agent.pendingSize = None
        BY <1>1 DEF NoAgent, NewAgent
      <3>3. 0 + Len(toAgent) = Len(typed) /\ 1..Len(toAgent) = {}
        BY <1>1, <2>1
      <3>4. QED
        BY <3>1, <3>2, <3>3, <1>1, <2>1 DEF Arrived
    <2>4. IsPrefix(<<>>, <<>>)
      BY <2>1, PrefixSelf
    <2>5. QED
      BY <1>1, <2>1, <2>3, <2>4, OnlyOfNone DEF Inbound
  <1>6. Outbound
    <2>1. Len(<<>>) = 0
      OBVIOUS
    <2>2. Had = 0 /\ Len(produced) = 0 /\ Len(taken) = 0
          /\ Len(manager.readable) = 0 /\ Len(toManager) = 0
      BY <1>1, <2>1 DEF Had, NewManager
    <2>3. QED
      BY <1>1, <2>2 DEF Outbound
  <1>7. QED
    BY <1>3, <1>4, <1>5, <1>6 DEF Inv

\* The manager's end gives up, and with it the connection.
LEMMA FailedManager ==
  ASSUME Inv
  PROVE  /\ Failed(manager) \in ManagerType
         /\ Failed(manager).readable = <<>>
         /\ Failed(manager).promise \in {"resolved", "rejected"}
         /\ Failed(manager).promise = "resolved" => manager.promise = "resolved"
         /\ Bytes(Failed(manager).readable) <= MaxBuffered
  <1>1. manager \in ManagerType /\ <<>> \in Seq(Chunked)
    BY DEF Inv, Types
  <1>2. Failed(manager).readable = <<>> /\ Bytes(<<>>) <= MaxBuffered
    BY <1>1, BytesOfNone, NodeTerminalAssumption DEF Failed, ManagerType
  <1>3. QED
    BY <1>1, <1>2 DEF Failed, ManagerType

\* It does, at whatever moment.
LEMMA ManagerFails ==
  ASSUME Inv, manager' = Failed(manager), toManager' = <<>>,
         link' \in {link, "cut"}, link' # "up", link = "none" => link' = "none",
         UNCHANGED <<toAgent, asked, place, agent, container, typed, produced, taken>>
  PROVE  Inv'
  <1>1. Types'
    <2>1. <<>> \in Seq(Replies)
      OBVIOUS
    <2>2. TypeOK'
      BY <2>1, FailedManager DEF Inv, Types, TypeOK
    <2>3. QED
      BY <2>2, FailedManager DEF Inv, Types
  <1>2. Stages'
    BY FailedManager DEF Inv, Stages, Types, TypeOK
  <1>3. Inbound'
    BY InboundKeeps DEF Wanted, Inv, Inbound, Arrived
  <1>4. Outbound'
    BY FailedManager, OutboundCut
  <1>5. QED
    BY <1>1, <1>2, <1>3, <1>4 DEF Inv

LEMMA ManagerEndsStep == ASSUME Inv, ManagerEnds PROVE Inv'
  BY ManagerFails DEF ManagerEnds, Inv, Types, TypeOK

LEMMA ConnectStep == ASSUME Inv, Connect PROVE Inv'
  <1>1. /\ link = "none" /\ ~manager.destroyed /\ place.node = asked
        /\ link' = "up" /\ agent' = NewAgent /\ agent = NoAgent
        /\ UNCHANGED <<toAgent, toManager, asked, place, manager, container,
                       typed, produced, taken>>
        /\ container.shell # "alive" /\ container.shell = "none"
        /\ typed = <<>> /\ toAgent = <<>>
    BY DEF Connect, Admitted, Inv, Stages, NoAgent, NewAgent
  <1>2. Types'
    <2>1. 0 \in 0..MaxBuffered
      BY NodeTerminalAssumption
    <2>2. NewAgent \in AgentType
      BY <2>1 DEF NewAgent, AgentType
    <2>3. QED
      BY <1>1, <2>2 DEF Inv, Types, TypeOK
  <1>3. Stages'
    BY <1>1 DEF Inv, Stages, NewAgent
  <1>4. Inbound'
    <2>1. PICK n \in 0..Len(typed) : Arrived(n)
      BY DEF Inv, Inbound
    <2>2. Len(typed) = 0 /\ n = 0 /\ Len(toAgent) = 0
      BY <1>1
    <2>3. Wanted' = Wanted /\ ~agent.closed /\ agent'.pendingSize = None
      BY <1>1 DEF Wanted, NewAgent, NoAgent
    <2>4. Arrived(n)'
      BY <1>1, <2>1, <2>2, <2>3 DEF Arrived
    <2>5. QED
      BY <1>1, <2>4 DEF Inv, Inbound
  <1>c. ~agent.closed
    BY <1>1 DEF NoAgent, NewAgent
  <1>d. /\ manager'.readable = manager.readable
        /\ \/ toManager' = toManager
           \/ agent'.closed /\ toManager' = Append(toManager, CloseFrame)
        /\ container'.shell = "none" <=> container.shell = "none"
        /\ link' = "up" => link = "up" \/ container.shell = "none"
        /\ taken' = taken /\ produced' = produced
        /\ agent.closed => agent'.closed
    BY <1>1, <1>c
  <1>5. Outbound'
    BY <1>d, OutboundKeeps
  <1>6. QED
    BY <1>2, <1>3, <1>4, <1>5 DEF Inv

\* The promise is resolved: "ready" leaves the way free for the chunks.
LEMMA ReadyStep ==
  ASSUME Inv, link \in {"up", "cut"}, toManager # <<>>,
         IsReady(Head(toManager)),
         manager' = [manager EXCEPT !.promise = "resolved", !.readyTimer = FALSE],
         toManager' = Tail(toManager),
         UNCHANGED <<link, toAgent, asked, place, agent, container, typed,
                     produced, taken>>
  PROVE  Inv'
  <1>1. /\ toManager \in Seq(Replies) /\ toManager' \in Seq(Replies)
        /\ Len(toManager') = Len(toManager) - 1 /\ Len(toManager) >= 1
        /\ \A i \in 1..Len(toManager') : /\ i + 1 \in 1..Len(toManager)
                                         /\ toManager'[i] = toManager[i + 1]
        /\ 1 \in 1..Len(toManager) /\ toManager[1] = Head(toManager)
    BY DEF Inv, Types, TypeOK
  <1>2. /\ manager' \in ManagerType /\ manager'.readable = manager.readable
        /\ manager'.promise = "resolved"
    BY DEF Inv, Types, ManagerType
  <1>3. toManager[1].kind = "ready" /\ Offset = 1
    BY <1>1 DEF IsReady, Offset
  <1>4. container.shell # "none" /\ \A i \in 1..Len(toManager) : UnderWay(i)
    BY <1>1, <1>3 DEF Inv, Outbound, UnderWay
  <1>5. Types'
    BY <1>1, <1>2 DEF Inv, Types, TypeOK
  <1>6. Stages'
    BY <1>2, <1>4 DEF Inv, Stages
  <1>7. Inbound'
    BY DEF Inv, Inbound, Arrived, Wanted
  <1>8. Outbound'
    <2>1. Had' = Had /\ Had \in Nat
      BY <1>2 DEF Had, Inv, Types, ManagerType
    <2>2. Offset' = 0
      <3>1. CASE toManager' = <<>>
        BY <3>1 DEF Offset
      <3>2. CASE toManager' # <<>>
        <4>1. 1 \in 1..Len(toManager')
          BY <1>1, <3>2
        <4>2. toManager'[1].kind # "ready"
          BY <1>1, <1>4, <4>1 DEF UnderWay
        <4>3. QED
          BY <4>2 DEF Offset
      <3>3. QED
        BY <3>1, <3>2
    <2>3. ASSUME NEW i \in 1..Len(toManager') PROVE UnderWay(i)'
      <3>1. UnderWay(i + 1) /\ toManager'[i] = toManager[i + 1] /\ i \in Nat /\ i # 0
        BY <1>1, <1>4
      <3>2. Had' + i - Offset' = Had + (i + 1) - Offset
        BY <1>3, <2>1, <2>2
      <3>3. QED
        BY <3>1, <3>2 DEF UnderWay
    <2>4. Had' + Len(toManager') - Offset' = Had + Len(toManager) - Offset
      BY <1>1, <1>3, <2>1, <2>2
    <2>5. QED
      BY <1>2, <1>4, <2>1, <2>3, <2>4 DEF Inv, Outbound
  <1>9. QED
    BY <1>5, <1>6, <1>7, <1>8 DEF Inv

\* The next chunk goes from the way into the stream.
LEMMA ChunkStep ==
  ASSUME Inv, link \in {"up", "cut"}, toManager # <<>>,
         manager.promise = "resolved",
         Head(toManager).kind = "chunk",
         Bytes(manager.readable) + Head(toManager).bytes <= MaxBuffered,
         manager' = Pushed(Head(toManager)), toManager' = Tail(toManager),
         UNCHANGED <<link, toAgent, asked, place, agent, container, typed,
                     produced, taken>>
  PROVE  Inv'
  <1> DEFINE msg == Head(toManager)
  <1>1. /\ toManager \in Seq(Replies) /\ toManager' \in Seq(Replies)
        /\ Len(toManager') = Len(toManager) - 1 /\ Len(toManager) >= 1
        /\ \A i \in 1..Len(toManager') : /\ i + 1 \in 1..Len(toManager)
                                         /\ toManager'[i] = toManager[i + 1]
        /\ 1 \in 1..Len(toManager) /\ toManager[1] = msg /\ msg \in Replies
    BY DEF Inv, Types, TypeOK
  <1>2. msg.kind = "chunk" /\ msg \in Chunked
    BY <1>1, ReplyFields
  <1>3. /\ manager \in ManagerType /\ manager.readable \in Seq(Chunked)
        /\ taken \in Seq(Chunked) /\ produced \in Seq(Chunked)
    BY DEF Inv, Types, ManagerType
  <1>4. Offset = 0
    BY <1>1, <1>2 DEF Offset
  <1>5. \A i \in 1..Len(toManager) : UnderWay(i)
    BY DEF Inv, Outbound
  <1>6. Had \in Nat /\ Had + 1 \in 1..Len(produced) /\ msg = produced[Had + 1]
    <2>1. Had \in Nat /\ Had + 1 - Offset = Had + 1
      BY <1>3, <1>4 DEF Had
    <2>2. QED
      BY <1>1, <1>2, <1>5, <2>1 DEF UnderWay
  <1> HIDE DEF msg
  <1> DEFINE old == manager.readable
             new == Append(old, msg)
  <1>a. /\ old \in Seq(Chunked) /\ new \in Seq(Chunked) /\ Len(new) = Len(old) + 1
        /\ new[Len(old) + 1] = msg /\ \A i \in 1..Len(old) : new[i] = old[i]
        /\ Len(old) \in Nat /\ Len(taken) \in Nat /\ Had = Len(taken) + Len(old)
    BY <1>2, <1>3 DEF Had
  <1>b. /\ Bytes(new) = Bytes(old) + msg.bytes
        /\ Bytes(old) \in Nat /\ msg.bytes \in Nat
    <2> HIDE DEF old
    <2>1. QED
      BY <1>2, <1>a, ChunkWeights, BytesAppend
  <1> HIDE DEF new
  <1>7. /\ manager' \in ManagerType /\ manager'.readable = new
        /\ manager'.promise = manager.promise
    <2>1. manager' = Pushed(msg)
      BY DEF msg
    <2>2. (Bytes(old) + msg.bytes >= HighWater) \in BOOLEAN
      BY <1>b, NodeTerminalAssumption
    <2>3. QED
      BY <1>3, <1>a, <2>1, <2>2 DEF Pushed, ManagerType, new
  <1>8. Bytes(manager'.readable) <= MaxBuffered
    BY <1>7, <1>b DEF msg
  <1>9. Types'
    BY <1>1, <1>7, <1>8 DEF Inv, Types, TypeOK
  <1>10. Stages'
    BY <1>7 DEF Inv, Stages
  <1>11. Inbound'
    BY DEF Inv, Inbound, Arrived, Wanted
  <1>12. Outbound'
    <2>1. Had' = Had + 1
      <3>1. Had' = Len(taken) + Len(new)
        BY <1>7 DEF Had
      <3>2. QED
        BY <1>a, <3>1
    <2>2. Offset' = 0
      <3>1. CASE toManager' = <<>>
        BY <3>1 DEF Offset
      <3>2. CASE toManager' # <<>>
        <4>1. 1 \in 1..Len(toManager')
          BY <1>1, <3>2
        <4>2. toManager'[1].kind # "ready"
          BY <1>1, <1>5, <4>1 DEF UnderWay
        <4>3. QED
          BY <4>2 DEF Offset
      <3>3. QED
        BY <3>1, <3>2
    <2>3. ASSUME NEW i \in 1..Len(toManager') PROVE UnderWay(i)'
      <3>1. UnderWay(i + 1) /\ toManager'[i] = toManager[i + 1] /\ i \in Nat /\ i # 0
        BY <1>1, <1>5
      <3>2. Had' + i - Offset' = Had + (i + 1) - Offset
        BY <1>4, <1>6, <2>1, <2>2, <3>1
      <3>3. i + 1 # 1
        BY <3>1
      <3>4. QED
        BY <3>1, <3>2, <3>3 DEF UnderWay
    <2>4. Had' + Len(toManager') - Offset' = Had + Len(toManager) - Offset
      BY <1>1, <1>4, <1>6, <2>1, <2>2
    <2>5. ASSUME NEW i \in 1..Len(new) PROVE new[i] = produced[Len(taken) + i]
      <3>1. CASE i \in 1..Len(old)
        BY <1>a, <3>1 DEF Inv, Outbound
      <3>2. CASE i \notin 1..Len(old)
        <4>1. i = Len(old) + 1
          BY <1>a, <3>2
        <4>2. Len(taken) + i = Had + 1
          BY <1>a, <4>1
        <4>3. QED
          BY <1>6, <1>a, <4>1, <4>2
      <3>3. QED
        BY <3>1, <3>2
    <2>6. Had' <= Len(produced')
      BY <1>6, <2>1
    <2>7. QED
      BY <1>1, <1>7, <2>3, <2>4, <2>5, <2>6 DEF Inv, Outbound
  <1>13. QED
    BY <1>9, <1>10, <1>11, <1>12 DEF Inv

LEMMA ManagerReceivesStep == ASSUME Inv, ManagerReceives PROVE Inv'
  <1> DEFINE msg == Head(toManager)
  <1>1. /\ link \in {"up", "cut"} /\ toManager # <<>> /\ msg \in Replies
        /\ UNCHANGED <<toAgent, asked, place, agent, container, typed, produced,
                       taken>>
    BY DEF ManagerReceives, Inv, Types, TypeOK
  <1>2. CASE manager' = Failed(manager) /\ toManager' = <<>> /\ link' = "cut"
    BY <1>1, <1>2, ManagerFails
  <1>3. CASE /\ manager.promise = "waiting" /\ IsReady(msg)
             /\ manager' = [manager EXCEPT !.promise = "resolved",
                                           !.readyTimer = FALSE]
             /\ toManager' = Tail(toManager) /\ UNCHANGED link
    BY <1>1, <1>3, ReadyStep
  <1>4. CASE /\ manager.promise = "resolved" /\ msg.kind = "chunk"
             /\ TakeChunk(msg)
    <2>1. CASE Bytes(manager.readable) + msg.bytes > MaxBuffered
      BY <1>2, <1>4, <2>1 DEF TakeChunk
    <2>2. CASE ~(Bytes(manager.readable) + msg.bytes > MaxBuffered)
      <3>1. Bytes(manager.readable) \in Nat /\ msg.bytes \in Nat /\ MaxBuffered \in Nat
        <4>1. manager.readable \in Seq(Chunked) /\ msg \in Chunked
          BY <1>1, <1>4, ReplyFields DEF Inv, Types, ManagerType
        <4>2. QED
          BY <4>1, BytesAppend, ChunkWeights, NodeTerminalAssumption
      <3>2. /\ manager' = Pushed(msg) /\ toManager' = Tail(toManager)
            /\ UNCHANGED link
        BY <1>4, <2>2 DEF TakeChunk
      <3>3. Bytes(manager.readable) + msg.bytes <= MaxBuffered
        BY <2>2, <3>1
      <3>4. QED
        BY <1>1, <1>4, <3>2, <3>3, ChunkStep
    <2>3. QED
      BY <2>1, <2>2
  <1>5. QED
    BY <1>2, <1>3, <1>4 DEF ManagerReceives

\* The consumer has what the stream kept.
LEMMA ConsumerReadsStep == ASSUME Inv, ConsumerReads PROVE Inv'
  <1> DEFINE old == manager.readable
             all == taken \o old
  <1>1. /\ taken' = all
        /\ manager' = [manager EXCEPT !.readable = <<>>, !.paused = FALSE]
        /\ UNCHANGED <<link, toAgent, toManager, asked, place, agent, container,
                       typed, produced>>
    BY DEF ConsumerReads
  <1>2. /\ manager \in ManagerType /\ old \in Seq(Chunked) /\ taken \in Seq(Chunked)
        /\ <<>> \in Seq(Chunked) /\ Len(<<>>) = 0
    BY DEF Inv, Types, ManagerType
  <1>3. /\ all \in Seq(Chunked) /\ Len(all) = Len(taken) + Len(old)
        /\ \A i \in 1..Len(taken) : all[i] = taken[i]
        /\ \A i \in 1..Len(old) : all[Len(taken) + i] = old[i]
        /\ Len(taken) \in Nat /\ Len(old) \in Nat
    BY <1>2
  <1>4. manager' \in ManagerType /\ manager'.readable = <<>>
        /\ manager'.promise = manager.promise /\ manager'.readyTimer = manager.readyTimer
    BY <1>1, <1>2 DEF ManagerType
  <1>5. Types'
    <2>1. Bytes(manager'.readable) <= MaxBuffered
      BY <1>4, BytesOfNone, NodeTerminalAssumption
    <2>2. QED
      BY <1>1, <1>3, <1>4, <2>1 DEF Inv, Types, TypeOK
  <1>6. Stages'
    BY <1>1, <1>4 DEF Inv, Stages
  <1>7. Inbound'
    BY <1>1 DEF Inv, Inbound, Arrived, Wanted
  <1>8. Outbound'
    <2>1. Had' = Had /\ Offset' = Offset /\ Had = Len(taken) + Len(old)
      BY <1>1, <1>2, <1>3, <1>4 DEF Had, Offset
    <2> HIDE DEF all
    <2>2. ASSUME NEW i \in 1..Len(all) PROVE all[i] = produced[i]
      <3>1. CASE i \in 1..Len(taken)
        BY <1>3, <3>1 DEF Inv, Outbound
      <3>2. CASE i \notin 1..Len(taken)
        <4>1. i - Len(taken) \in 1..Len(old) /\ Len(taken) + (i - Len(taken)) = i
          BY <1>3, <3>2
        <4>2. all[i] = old[i - Len(taken)]
          BY <1>3, <4>1
        <4>3. old[i - Len(taken)] = produced[i]
          BY <4>1 DEF Inv, Outbound
        <4>4. QED
          BY <4>2, <4>3
      <3>3. QED
        BY <3>1, <3>2
    <2>3. ASSUME NEW i \in 1..Len(toManager) PROVE UnderWay(i)'
      BY <1>1, <2>1 DEF Inv, Outbound, UnderWay
    <2>4. QED
      BY <1>1, <1>2, <1>4, <2>1, <2>2, <2>3 DEF Inv, Outbound
  <1>9. QED
    BY <1>5, <1>6, <1>7, <1>8 DEF Inv

\* What the consumer sends is under way, if there still is one.
LEMMA ConsumerSendsStep ==
  ASSUME Inv, NEW msg \in Messages, ConsumerSends(msg)
  PROVE  Inv'
  <1>1. CASE ManagerEnds
    BY <1>1, ManagerEndsStep
  <1>2. CASE ~ManagerEnds
    <2> DEFINE longer == Append(typed, msg)
    <2>1. /\ manager.promise = "resolved"
          /\ typed' = longer
          /\ toAgent' = IF link = "up" THEN Append(toAgent, msg) ELSE toAgent
          /\ UNCHANGED <<link, toManager, asked, place, manager, agent,
                         container, produced, taken>>
      BY <1>2 DEF ConsumerSends
    <2>2. /\ typed \in Seq(Messages) /\ toAgent \in Seq(Messages)
          /\ longer \in Seq(Messages) /\ Len(longer) = Len(typed) + 1
          /\ \A i \in 1..Len(typed) : longer[i] = typed[i]
          /\ longer[Len(typed) + 1] = msg /\ Len(typed) \in Nat
          /\ toAgent' \in Seq(Messages)
      BY <2>1 DEF Inv, Types, TypeOK
    <2>3. Types'
      BY <2>1, <2>2 DEF Inv, Types, TypeOK
    <2>4. Stages'
      BY <2>1 DEF Inv, Stages
    <2>5. PICK n \in 0..Len(typed) : Arrived(n)
      BY DEF Inv, Inbound
    <2>6. SubSeq(longer, 1, n) = SubSeq(typed, 1, n)
      <3> HIDE DEF longer
      <3>1. n \in Nat /\ n <= Len(typed) /\ n <= Len(longer)
        BY <2>2
      <3> DEFINE a == SubSeq(typed, 1, n)
                 b == SubSeq(longer, 1, n)
      <3>2. /\ a \in Seq(Messages) /\ Len(a) = n /\ \A i \in 1..n : a[i] = typed[i]
            /\ b \in Seq(Messages) /\ Len(b) = n /\ \A i \in 1..n : b[i] = longer[i]
        BY <2>2, <3>1
      <3>3. \A i \in 1..n : a[i] = b[i]
        BY <2>2, <3>1, <3>2
      <3> HIDE DEF a, b
      <3>4. a = b
        BY <3>2, <3>3
      <3>5. QED
        BY <3>4 DEF a, b
    <2>7. Arrived(n)'
      <3>1. /\ n + Len(toAgent') <= Len(longer)
            /\ \A i \in 1..Len(toAgent') : toAgent'[i] = longer[n + i]
            /\ link = "up" => n + Len(toAgent') = Len(longer)
        <4> HIDE DEF longer
        <4>1. /\ n + Len(toAgent) <= Len(typed) /\ n \in Nat /\ Len(toAgent) \in Nat
              /\ \A i \in 1..Len(toAgent) : toAgent[i] = typed[n + i]
              /\ link = "up" => n + Len(toAgent) = Len(typed)
          BY <2>2, <2>5 DEF Arrived
        <4>2. \A i \in 1..Len(toAgent) : n + i \in 1..Len(typed)
          BY <2>2, <4>1
        <4>3. \A i \in 1..Len(toAgent) : toAgent[i] = longer[n + i]
          BY <2>2, <4>1, <4>2
        <4>4. CASE link = "up"
          <5>1. /\ Len(toAgent') = Len(toAgent) + 1 /\ toAgent'[Len(toAgent) + 1] = msg
                /\ \A i \in 1..Len(toAgent) : toAgent'[i] = toAgent[i]
            BY <2>1, <2>2, <4>4
          <5>2. \A i \in 1..Len(toAgent') : i \in 1..Len(toAgent) \/ i = Len(toAgent) + 1
            BY <4>1, <5>1
          <5>3. n + (Len(toAgent) + 1) = Len(typed) + 1
            BY <4>1, <4>4
          <5>4. \A i \in 1..Len(toAgent') : toAgent'[i] = longer[n + i]
            BY <2>2, <4>3, <5>1, <5>2, <5>3
          <5>5. n + Len(toAgent') = Len(longer) /\ Len(longer) \in Nat
            BY <2>2, <5>1, <5>3
          <5>6. QED
            BY <5>4, <5>5
        <4>5. CASE link # "up"
          BY <2>1, <2>2, <4>1, <4>3, <4>5
        <4>6. QED
          BY <4>4, <4>5
      <3>2. Wanted' = Wanted
        BY <2>1 DEF Wanted
      <3>3. QED
        BY <2>1, <2>5, <2>6, <3>1, <3>2 DEF Arrived
    <2>8. IsPrefix(container.read, Only("input", longer))
      <3>1. /\ container.read \in Seq(Messages) /\ Only("input", typed) \in Seq(Messages)
            /\ IsPrefix(container.read, Only("input", typed))
        BY <2>2, OnlyType DEF Inv, Types, Inbound, ContainerType
      <3>2. IsPrefix(container.read, Append(Only("input", typed), msg))
        BY <3>1, PrefixGrows
      <3>3. QED
        BY <2>2, <3>1, <3>2, OnlyAppend
    <2>9. Inbound'
      <3>1. n \in 0..Len(longer)
        BY <2>2
      <3>2. QED
        BY <2>1, <2>7, <2>8, <3>1 DEF Inbound
    <2>10. Outbound'
      BY <2>1 DEF Inv, Outbound, UnderWay, Had, Offset
    <2>11. QED
      BY <2>3, <2>4, <2>9, <2>10 DEF Inv
  <1>3. QED
    BY <1>1, <1>2

\* An event of the agent that sends nothing but that it closes.
LEMMA AgentMoves ==
  ASSUME Inv, agent' \in AgentType, container' \in ContainerType,
         agent.stage # "none", agent'.stage # "none", agent.closed => agent'.closed,
         agent'.stage \in {"exec", "start", "open"} => place.ours,
         agent'.stage \in {"inspect", "exec", "start"} => container'.shell = "none",
         container'.shell = "alive" => agent'.stage = "open" /\ ~agent'.closed,
         container'.shell = "none" => container.shell = "none",
         container.shell = "none" => container'.shell = "none" \/ agent'.closed,
         ~agent'.closed => agent'.idleTimer /\ agent'.sessionTimer,
         Inbound', toAgent' \in Seq(Messages),
         \/ toManager' = toManager
         \/ agent'.closed /\ toManager' = Append(toManager, CloseFrame),
         link' \in {link, "cut"},
         UNCHANGED <<asked, place, manager, typed, produced, taken>>
  PROVE  Inv'
  <1>1. link # "none" /\ link' # "none"
    BY DEF Inv, Stages, NoAgent, NewAgent
  <1>2. Types'
    <2>1. toManager \in Seq(Replies) /\ CloseFrame \in Replies
      BY SentMessages DEF Inv, Types, TypeOK
    <2>2. toManager' \in Seq(Replies)
      BY <2>1
    <2>3. container'.shell \in {"none", "alive", "dead"}
      BY DEF ContainerType
    <2>4. QED
      BY <1>1, <2>2, <2>3 DEF Inv, Types, TypeOK
  <1>3. Stages'
    BY <1>1 DEF Inv, Stages
  <1>4. Outbound'
    BY OutboundKeeps
  <1>5. QED
    BY <1>2, <1>3, <1>4 DEF Inv

\* One that takes nothing from the manager either.
LEMMA AgentStep ==
  ASSUME Inv, agent' \in AgentType, container' \in ContainerType,
         agent.stage # "none", agent'.stage # "none", agent.closed => agent'.closed,
         agent'.stage \in {"exec", "start", "open"} => place.ours,
         agent'.stage \in {"inspect", "exec", "start"} => container'.shell = "none",
         container'.shell = "alive" => agent'.stage = "open" /\ ~agent'.closed,
         container'.shell = "none" => container.shell = "none",
         container.shell = "none" => container'.shell = "none" \/ agent'.closed,
         container'.read = container.read,
         ~agent'.closed => /\ agent'.idleTimer /\ agent'.sessionTimer
                           /\ Wanted' = Wanted
                           /\ agent'.pendingSize # None => agent'.resizing # None,
         \/ toManager' = toManager
         \/ agent'.closed /\ toManager' = Append(toManager, CloseFrame),
         link' \in {link, "cut"},
         UNCHANGED <<toAgent, asked, place, manager, typed, produced, taken>>
  PROVE  Inv'
  <1>1. Inbound'
    BY InboundKeeps
  <1>2. toAgent' \in Seq(Messages)
    BY DEF Inv, Types, TypeOK
  <1>3. QED
    BY <1>1, <1>2, AgentMoves

\* What AgentIs says when there is nothing to send.
LEMMA AgentIsEffect ==
  ASSUME Inv, NEW a \in AgentType, AgentIs(a, <<>>), agent.closed => a.closed
  PROVE  /\ agent' = a /\ container' \in ContainerType
         /\ container'.read = container.read /\ container'.size = container.size
         /\ container'.shell = "none" <=> container.shell = "none"
         /\ container'.shell = "alive" => container.shell = "alive" /\ ~a.closed
         /\ \/ toManager' = toManager
            \/ agent'.closed /\ toManager' = Append(toManager, CloseFrame)
  <1>1. toManager \o <<>> = toManager
    BY DEF Inv, Types, TypeOK
  <1>2. agent' = a /\ container \in ContainerType
    BY DEF AgentIs, Inv, Types
  <1>3. \/ toManager' = toManager
        \/ agent'.closed /\ toManager' = Append(toManager, CloseFrame)
    BY <1>1 DEF AgentIs
  <1>4. container' = IF a.closed /\ container.shell = "alive"
                     THEN [container EXCEPT !.shell = "dead"] ELSE container
    BY DEF AgentIs
  <1>5. QED
    BY <1>2, <1>3, <1>4 DEF ContainerType

\* What the invariant says of an agent that there is.
LEMMA AgentFacts ==
  ASSUME Inv
  PROVE  /\ agent \in AgentType /\ Closed(agent) \in AgentType
         /\ Closed(agent).closed /\ Closed(agent).stage = agent.stage
         /\ container \in ContainerType
         /\ ~agent.closed /\ agent.pendingSize # None => agent.resizing # None
         /\ Stages
  <1>1. agent \in AgentType /\ container \in ContainerType /\ Stages
    BY DEF Inv, Types, TypeOK
  <1>2. ~agent.closed /\ agent.pendingSize # None => agent.resizing # None
    BY DEF Inv, Inbound, Arrived
  <1>3. QED
    BY <1>1, <1>2 DEF AgentType, Closed

LEMMA AgentEndsStep == ASSUME Inv, AgentEnds PROVE Inv'
  <1>1. /\ agent.stage # "none" /\ ~agent.closed
        /\ AgentIs(Closed(agent), <<>>)
        /\ UNCHANGED <<link, toAgent, asked, place, manager, typed, produced, taken>>
    BY DEF AgentEnds
  <1>2. /\ agent' = Closed(agent) /\ container' \in ContainerType
        /\ container'.read = container.read
        /\ container'.shell = "none" <=> container.shell = "none"
        /\ container'.shell # "alive"
        /\ \/ toManager' = toManager
           \/ agent'.closed /\ toManager' = Append(toManager, CloseFrame)
    BY <1>1, AgentFacts, AgentIsEffect
  <1>3. /\ agent' \in AgentType /\ agent'.closed /\ agent'.stage = agent.stage
    BY <1>2, AgentFacts
  <1>4. Stages
    BY AgentFacts
  <1>5. /\ agent'.stage \in {"exec", "start", "open"} => place.ours
        /\ agent'.stage \in {"inspect", "exec", "start"} => container'.shell = "none"
    BY <1>2, <1>3, <1>4 DEF Stages
  <1>6. QED
    BY <1>1, <1>2, <1>3, <1>5, AgentStep

LEMMA InspectedStep == ASSUME Inv, Inspected PROVE Inv'
  <1> DEFINE a == IF agent.closed THEN [agent EXCEPT !.stage = "over"]
                  ELSE IF Ours THEN [agent EXCEPT !.stage = "exec"]
                  ELSE [Closed(agent) EXCEPT !.stage = "over"]
  <1>1. /\ agent.stage = "inspect" /\ AgentIs(a, <<>>)
        /\ UNCHANGED <<link, toAgent, asked, place, manager, typed, produced, taken>>
    BY DEF Inspected
  <1>2. /\ a \in AgentType
        /\ agent.closed => a.closed
        /\ a.stage \in {"exec", "over"}
        /\ a.stage = "exec" => place.ours
        /\ ~a.closed => /\ ~agent.closed /\ a.resizing = agent.resizing
                        /\ a.pendingSize = agent.pendingSize
                        /\ a.idleTimer = agent.idleTimer
                        /\ a.sessionTimer = agent.sessionTimer
    BY AgentFacts DEF Ours, AgentType, Closed
  <1> HIDE DEF a
  <1>3. container.shell = "none" /\ (~agent.closed => agent.idleTimer /\ agent.sessionTimer)
    BY <1>1, AgentFacts DEF Stages
  <1>4. /\ agent' = a /\ container' \in ContainerType
        /\ container'.read = container.read /\ container'.size = container.size
        /\ container'.shell = "none"
        /\ \/ toManager' = toManager
           \/ agent'.closed /\ toManager' = Append(toManager, CloseFrame)
    BY <1>1, <1>2, <1>3, AgentIsEffect
  <1>5. ~agent'.closed => /\ agent'.idleTimer /\ agent'.sessionTimer
                          /\ Wanted' = Wanted
                          /\ agent'.pendingSize # None => agent'.resizing # None
    BY <1>2, <1>3, <1>4, AgentFacts DEF Wanted
  <1>6. QED
    BY <1>1, <1>2, <1>3, <1>4, <1>5, AgentStep

LEMMA ExecCreatedStep == ASSUME Inv, ExecCreated PROVE Inv'
  <1>1. /\ agent.stage = "exec"
        /\ agent' = [agent EXCEPT !.stage = IF agent.closed THEN "over" ELSE "start"]
        /\ UNCHANGED <<link, toAgent, toManager, asked, place, manager, container,
                       typed, produced, taken>>
    BY DEF ExecCreated
  <1>2. /\ agent' \in AgentType /\ agent'.closed = agent.closed
        /\ agent'.stage \in {"start", "over"}
        /\ agent'.resizing = agent.resizing
        /\ agent'.pendingSize = agent.pendingSize
        /\ agent'.idleTimer = agent.idleTimer
        /\ agent'.sessionTimer = agent.sessionTimer
    BY <1>1, AgentFacts DEF AgentType
  <1>3. /\ container.shell = "none" /\ place.ours
        /\ ~agent.closed => agent.idleTimer /\ agent.sessionTimer
    BY <1>1, AgentFacts DEF Stages
  <1>4. container' = container /\ container \in ContainerType /\ Wanted' = Wanted
    BY <1>1, <1>2, AgentFacts DEF Wanted
  <1>5. ~agent.closed /\ agent.pendingSize # None => agent.resizing # None
    BY AgentFacts
  <1>6. QED
    BY <1>1, <1>2, <1>3, <1>4, <1>5, AgentStep

\* The shell is there: "ready" is the first that is under way to the manager,
\* unless nobody waits for it any more.
LEMMA StartedStep == ASSUME Inv, Started PROVE Inv'
  <1>1. agent.stage = "start" /\ container.shell = "none" /\ place.ours
        /\ place.node = asked
        /\ (~agent.closed => agent.idleTimer /\ agent.sessionTimer)
        /\ link # "none"
    BY AgentFacts DEF Started, Stages, NoAgent, NewAgent
  <1>2. UNCHANGED <<link, toAgent, asked, place, manager, typed, produced, taken>>
    BY DEF Started
  <1>3. CASE StillWanted
    <2>1. /\ agent' = [agent EXCEPT !.stage = "open", !.startTimer = FALSE]
          /\ container' = [container EXCEPT !.shell = "alive"]
          /\ toManager' = IF link = "up" THEN Append(toManager, ReadyOf(place.node))
                          ELSE toManager
          /\ ~agent.closed
      BY <1>3 DEF Started, StillWanted
    <2>2. /\ agent' \in AgentType /\ agent'.stage = "open" /\ ~agent'.closed
          /\ agent'.resizing = agent.resizing
          /\ agent'.pendingSize = agent.pendingSize
          /\ agent'.idleTimer = agent.idleTimer
          /\ agent'.sessionTimer = agent.sessionTimer
      BY <2>1, AgentFacts DEF AgentType
    <2>3. /\ container' \in ContainerType /\ container'.shell = "alive"
          /\ container'.read = container.read /\ container'.size = container.size
      BY <2>1, AgentFacts DEF ContainerType
    <2>4. toManager = <<>> /\ produced = <<>>
      BY <1>1, <2>1 DEF Inv, Outbound
    <2> DEFINE r == ReadyOf(place.node)
    <2>5. r \in Replies /\ r.kind = "ready"
      BY SentMessages DEF Inv, Types, TypeOK
    <2>6. toManager' \in Seq(Replies) /\ toManager' \in {<<>>, <<r>>}
          /\ (link = "up" => toManager' = <<r>>)
      BY <2>1, <2>4, <2>5
    <2> HIDE DEF r
    <2>7. Types'
      BY <1>2, <2>2, <2>3, <2>6 DEF Inv, Types, TypeOK, ContainerType
    <2>8. Stages'
      <3>1. agent'.idleTimer /\ agent'.sessionTimer
        BY <1>1, <2>1, <2>2
      <3>2. QED
        BY <1>1, <1>2, <2>2, <2>3, <3>1, AgentFacts DEF Stages
    <2>9. Inbound'
      <3>1. Wanted' = Wanted
        BY <2>2, <2>3 DEF Wanted
      <3>2. ~agent.closed /\ agent.pendingSize # None => agent.resizing # None
        BY AgentFacts
      <3>3. QED
        BY <1>2, <2>1, <2>2, <2>3, <3>1, <3>2, InboundKeeps
    <2>10. Outbound'
      <3>1. Had = 0 /\ Had' = 0 /\ Len(produced) = 0
        <4>1. Had \in Nat /\ Len(produced) = 0
          BY <2>4 DEF Inv, Types, ManagerType, Had
        <4>2. Had <= 0
          BY <2>4, <4>1 DEF Inv, Outbound
        <4>3. QED
          BY <1>2, <4>1, <4>2 DEF Had
      <3>2. CASE toManager' = <<>>
        <4>1. Len(toManager') = 0 /\ link # "up"
          BY <2>6, <3>2
        <4>2. QED
          BY <1>2, <2>3, <2>4, <3>1, <4>1 DEF Inv, Outbound
      <3>3. CASE toManager' = <<r>>
        <4>1. /\ Len(toManager') = 1 /\ toManager'[1] = r /\ toManager' # <<>>
          BY <3>3
        <4>2. Offset' = 1
          BY <2>5, <4>1 DEF Offset
        <4>3. \A i \in 1..Len(toManager') : UnderWay(i)'
          BY <2>3, <2>5, <4>1 DEF UnderWay
        <4>4. Len(produced') = Had' + Len(toManager') - Offset'
          BY <1>2, <3>1, <4>1, <4>2
        <4>5. QED
          BY <1>2, <2>3, <4>3, <4>4, <3>1 DEF Inv, Outbound
      <3>4. QED
        BY <2>6, <3>2, <3>3
    <2>11. QED
      BY <2>7, <2>8, <2>9, <2>10 DEF Inv
  <1>4. CASE ~StillWanted
    <2>1. /\ agent' = [agent EXCEPT !.stage = "over"] /\ agent.closed
          /\ container' = [container EXCEPT !.shell = "dead"]
          /\ UNCHANGED toManager
      BY <1>4 DEF Started, StillWanted
    <2>2. /\ agent' \in AgentType /\ agent'.stage = "over" /\ agent'.closed
          /\ container' \in ContainerType /\ container'.shell = "dead"
          /\ container'.read = container.read
      BY <2>1, AgentFacts DEF AgentType, ContainerType
    <2>3. QED
      BY <1>1, <1>2, <2>1, <2>2, AgentStep
  <1>5. QED
    BY <1>3, <1>4

\* The next message is taken from the way.
LEMMA ArrivedNext ==
  ASSUME Inv, NEW n \in 0..Len(typed), Arrived(n), toAgent # <<>>,
         toAgent' = Tail(toAgent), typed' = typed, link' = link
  PROVE  /\ n + 1 \in 0..Len(typed) /\ Head(toAgent) \in Messages
         /\ toAgent' \in Seq(Messages)
         /\ SubSeq(typed, 1, n) \in Seq(Messages)
         /\ SubSeq(typed, 1, n + 1) = Append(SubSeq(typed, 1, n), Head(toAgent))
         /\ (n + 1) + Len(toAgent') <= Len(typed')
         /\ \A i \in 1..Len(toAgent') : toAgent'[i] = typed'[(n + 1) + i]
         /\ link' = "up" => (n + 1) + Len(toAgent') = Len(typed')
  <1>1. /\ typed \in Seq(Messages) /\ toAgent \in Seq(Messages)
        /\ n \in Nat /\ Len(typed) \in Nat
    BY DEF Inv, Types, TypeOK
  <1>2. /\ toAgent' \in Seq(Messages) /\ Len(toAgent') = Len(toAgent) - 1
        /\ Len(toAgent) >= 1 /\ Head(toAgent) = toAgent[1] /\ Head(toAgent) \in Messages
        /\ \A i \in 1..Len(toAgent') : toAgent'[i] = toAgent[i + 1]
        /\ Len(toAgent) \in Nat
    BY <1>1
  <1>3. /\ n + Len(toAgent) <= Len(typed)
        /\ \A i \in 1..Len(toAgent) : toAgent[i] = typed[n + i]
        /\ link = "up" => n + Len(toAgent) = Len(typed)
    BY DEF Arrived
  <1>4. n + 1 \in 0..Len(typed) /\ Head(toAgent) = typed[n + 1]
    BY <1>1, <1>2, <1>3
  <1>5. ASSUME NEW i \in 1..Len(toAgent') PROVE toAgent'[i] = typed[(n + 1) + i]
    <2>1. i + 1 \in 1..Len(toAgent) /\ n + (i + 1) = (n + 1) + i
      BY <1>1, <1>2
    <2>2. QED
      BY <1>2, <1>3, <2>1
  <1>6. /\ (n + 1) + Len(toAgent') <= Len(typed)
        /\ link' = "up" => (n + 1) + Len(toAgent') = Len(typed)
    BY <1>1, <1>2, <1>3
  <1>7. /\ SubSeq(typed, 1, n) \in Seq(Messages)
        /\ SubSeq(typed, 1, n + 1) = Append(SubSeq(typed, 1, n), typed[n + 1])
    BY <1>1, <1>4
  <1>8. QED
    BY <1>2, <1>4, <1>5, <1>6, <1>7

\* What a message does to the agent, and to what its shell has to read.
LEMMA AgentReceivesEffect ==
  ASSUME Inv, AgentReceives
  PROVE  /\ agent' \in AgentType /\ container' \in ContainerType
         /\ agent.closed => agent'.closed
         /\ agent'.stage = agent.stage
         /\ container'.shell = "alive" => container.shell = "alive" /\ ~agent'.closed
         /\ container'.shell = "none" <=> container.shell = "none"
         /\ agent'.closed => container'.read = container.read
         /\ \/ toManager' = toManager
            \/ agent'.closed /\ toManager' = Append(toManager, CloseFrame)
         /\ ~agent'.closed =>
              /\ ~agent.closed /\ agent'.idleTimer
              /\ agent'.sessionTimer = agent.sessionTimer
              /\ container'.size = container.size
              /\ \/ /\ Head(toAgent).kind = "input"
                    /\ container'.read = Append(container.read, Head(toAgent))
                    /\ agent'.pendingSize = agent.pendingSize
                    /\ agent'.resizing = agent.resizing
                 \/ /\ Head(toAgent).kind = "resize"
                    /\ container'.read = container.read
                    /\ agent'.resizing # None
                    /\ IF agent.resizing # None
                       THEN agent'.pendingSize = Head(toAgent).size
                       ELSE /\ agent'.resizing = Head(toAgent).size
                            /\ agent'.pendingSize = agent.pendingSize
  <1> DEFINE msg == Head(toAgent)
             awake == [agent EXCEPT !.idleTimer = TRUE]
             next == IF agent.closed THEN agent
                     ELSE IF agent.stage # "open" THEN Closed(agent)
                     ELSE IF msg.kind = "input" THEN Written(awake, msg.bytes)
                     ELSE Resized(awake, msg.size)
  <1>1. /\ toAgent # <<>> /\ agent' = next
        /\ toManager' = IF link = "up" /\ next.closed /\ ~agent.closed
                        THEN Append(toManager, CloseFrame) ELSE toManager
        /\ container' =
             IF next.closed
             THEN [container EXCEPT !.shell = IF @ = "alive" THEN "dead" ELSE @]
             ELSE IF msg.kind = "input"
                  THEN [container EXCEPT !.read = Append(@, msg)]
                  ELSE container
    BY DEF AgentReceives
  <1>2. msg \in Messages
    BY <1>1 DEF Inv, Types, TypeOK
  <1>3. /\ msg.kind \in {"input", "resize"} /\ msg.bytes \in Nat
        /\ msg.kind = "resize" => msg.size \in Sizes /\ msg.size # None
    BY <1>2, MessageFields
  <1>4. /\ agent \in AgentType /\ container \in ContainerType
        /\ awake \in AgentType /\ Closed(agent) \in AgentType /\ Closed(agent).closed
    BY AgentFacts DEF AgentType
  <1> HIDE DEF next, msg
  <1>5. /\ next \in AgentType /\ next.stage = agent.stage
        /\ ~next.closed =>
              /\ ~agent.closed /\ next.idleTimer
              /\ next.sessionTimer = agent.sessionTimer
              /\ \/ /\ msg.kind = "input"
                    /\ next.pendingSize = agent.pendingSize
                    /\ next.resizing = agent.resizing
                 \/ /\ msg.kind = "resize"
                    /\ next.resizing # None
                    /\ IF agent.resizing # None
                       THEN next.pendingSize = msg.size
                       ELSE /\ next.resizing = msg.size
                            /\ next.pendingSize = agent.pendingSize
    <2>1. CASE agent.closed \/ agent.stage # "open"
      BY <1>4, <2>1, AgentFacts DEF next
    <2>2. CASE ~agent.closed /\ agent.stage = "open" /\ msg.kind = "input"
      <3>1. next = Written(awake, msg.bytes)
        BY <2>2 DEF next
      <3>2. agent.writable \in Nat /\ MaxBuffered \in Nat /\ HighWater \in Nat
            /\ msg.bytes \in Nat /\ MaxInput \in Nat /\ awake.writable = agent.writable
        BY <1>3, <1>4, NodeTerminalAssumption DEF AgentType
      <3>3. CASE msg.bytes > MaxInput \/ awake.writable + msg.bytes > MaxBuffered
        <4>1. next = Closed(awake)
          BY <3>1, <3>3 DEF Written
        <4>2. /\ next \in AgentType /\ next.closed
              /\ next.stage = agent.stage
          BY <1>4, <4>1 DEF Closed, AgentType
        <4>3. QED
          BY <4>2
      <3>4. CASE ~(msg.bytes > MaxInput \/ awake.writable + msg.bytes > MaxBuffered)
        <4> DEFINE w == agent.writable + msg.bytes
        <4>1. w \in 0..MaxBuffered /\ (w >= HighWater) \in BOOLEAN
          BY <3>2, <3>4
        <4>2. next = [awake EXCEPT !.writable = w, !.paused = (w >= HighWater)]
          BY <1>4, <3>1, <3>2, <3>4 DEF Written, AgentType
        <4> HIDE DEF w
        <4>3. QED
          BY <1>4, <2>2, <4>1, <4>2 DEF AgentType
      <3>5. QED
        BY <3>3, <3>4
    <2>3. CASE ~agent.closed /\ agent.stage = "open" /\ msg.kind = "resize"
      <3>1. next = Resized(awake, msg.size)
        BY <2>3 DEF next
      <3>2. QED
        BY <1>3, <1>4, <2>3, <3>1 DEF Resized, AgentType
    <2>4. QED
      BY <1>3, <2>1, <2>2, <2>3
  <1>6. agent.closed => next.closed
    BY DEF next
  <1>7. container.shell = "alive" => ~agent.closed
    BY AgentFacts DEF Stages
  <1>8. CASE next.closed
    <2>1. container' = [container EXCEPT !.shell = IF @ = "alive" THEN "dead" ELSE @]
      BY <1>1, <1>8
    <2>2. /\ container' \in ContainerType /\ container'.read = container.read
          /\ container'.shell # "alive"
          /\ container'.shell = "none" <=> container.shell = "none"
      BY <1>4, <2>1 DEF ContainerType
    <2>3. QED
      BY <1>1, <1>5, <1>6, <1>8, <2>2
  <1>9. CASE ~next.closed
    <2>1. container' = IF msg.kind = "input"
                       THEN [container EXCEPT !.read = Append(@, msg)] ELSE container
      BY <1>1, <1>9
    <2>2. Append(container.read, msg) \in Seq(Messages)
      BY <1>2, <1>4 DEF ContainerType
    <2>3. /\ container' \in ContainerType /\ container'.shell = container.shell
          /\ container'.size = container.size
          /\ container'.read = IF msg.kind = "input" THEN Append(container.read, msg)
                               ELSE container.read
      BY <1>4, <2>1, <2>2 DEF ContainerType
    <2>4. /\ agent' = next /\ toManager' = toManager
      BY <1>1, <1>9
    <2> USE DEF msg
    <2>5. QED
      BY <1>3, <1>5, <1>6, <1>9, <2>3, <2>4
  <1>10. QED
    BY <1>8, <1>9

LEMMA AgentReceivesStep == ASSUME Inv, AgentReceives PROVE Inv'
  <1> DEFINE msg == Head(toAgent)
  <1>1. /\ toAgent # <<>> /\ agent.stage # "none" /\ toAgent' = Tail(toAgent)
        /\ UNCHANGED <<link, asked, place, manager, typed, produced, taken>>
    BY DEF AgentReceives
  <1>2. Stages /\ agent.closed => agent'.closed /\ agent'.stage = agent.stage
    BY AgentReceivesEffect
  <1>3. PICK n \in 0..Len(typed) : Arrived(n)
    BY DEF Inv, Inbound
  <1> DEFINE before == SubSeq(typed, 1, n)
             after == SubSeq(typed, 1, n + 1)
  <1>4. /\ n + 1 \in 0..Len(typed) /\ msg \in Messages
        /\ toAgent' \in Seq(Messages) /\ before \in Seq(Messages)
        /\ after = Append(before, msg)
        /\ (n + 1) + Len(toAgent') <= Len(typed')
        /\ \A i \in 1..Len(toAgent') : toAgent'[i] = typed'[(n + 1) + i]
        /\ link' = "up" => (n + 1) + Len(toAgent') = Len(typed')
    BY <1>1, <1>3, ArrivedNext
  <1> HIDE DEF msg
  <1>5. /\ Only("input", after) = IF msg.kind = "input"
                                  THEN Append(Only("input", before), msg)
                                  ELSE Only("input", before)
        /\ LastSize(after, None) = IF msg.kind = "resize" THEN msg.size
                                   ELSE LastSize(before, None)
    <2> HIDE DEF before, after
    <2>1. QED
      BY <1>4, OnlyAppend, LastSizeAppend
  <1>6. ASSUME ~agent'.closed
        PROVE  /\ container'.read = Only("input", after)
               /\ Wanted' = LastSize(after, None)
               /\ agent'.pendingSize # None => agent'.resizing # None
    <2>1. /\ ~agent.closed
          /\ container'.size = container.size
          /\ \/ /\ msg.kind = "input"
                /\ container'.read = Append(container.read, msg)
                /\ agent'.pendingSize = agent.pendingSize
                /\ agent'.resizing = agent.resizing
             \/ /\ msg.kind = "resize"
                /\ container'.read = container.read
                /\ agent'.resizing # None
                /\ IF agent.resizing # None
                   THEN agent'.pendingSize = msg.size
                   ELSE /\ agent'.resizing = msg.size
                        /\ agent'.pendingSize = agent.pendingSize
      BY <1>6, AgentReceivesEffect DEF msg
    <2>2. /\ container.read = Only("input", before)
          /\ Wanted = LastSize(before, None)
          /\ agent.pendingSize # None => agent.resizing # None
      BY <1>3, <2>1 DEF Arrived
    <2>3. msg.kind = "resize" => msg.size # None
      BY <1>4, MessageFields
    <2> HIDE DEF before, after
    <2>4. QED
      BY <1>5, <2>1, <2>2, <2>3 DEF Wanted
  <1>7. Arrived(n + 1)'
    <2>1. typed' = typed
      BY <1>1
    <2>2. QED
      BY <1>4, <1>6, <2>1 DEF Arrived
  <1>8. IsPrefix(container'.read, Only("input", typed'))
    <2>1. CASE agent'.closed
      BY <1>1, <2>1, AgentReceivesEffect DEF Inv, Inbound
    <2>2. CASE ~agent'.closed
      <3>1. typed \in Seq(Messages)
        BY DEF Inv, Types
      <3>2. IsPrefix(Only("input", after), Only("input", typed))
        BY <1>4, <3>1, OnlyPrefix
      <3>3. QED
        BY <1>1, <1>6, <2>2, <3>2
    <2>3. QED
      BY <2>1, <2>2
  <1>9. Inbound'
    BY <1>1, <1>4, <1>7, <1>8 DEF Inbound
  <1> HIDE DEF before, after
  <1>10. /\ agent' \in AgentType /\ container' \in ContainerType
         /\ agent.closed => agent'.closed
         /\ agent'.stage = agent.stage
         /\ container'.shell = "alive" => container.shell = "alive" /\ ~agent'.closed
         /\ container'.shell = "none" <=> container.shell = "none"
         /\ \/ toManager' = toManager
            \/ agent'.closed /\ toManager' = Append(toManager, CloseFrame)
         /\ ~agent'.closed => /\ ~agent.closed /\ agent'.idleTimer
                              /\ agent'.sessionTimer = agent.sessionTimer
    BY AgentReceivesEffect
  <1>11. Stages
    BY AgentFacts
  <1>12. /\ agent'.stage \in {"exec", "start", "open"} => place.ours
         /\ agent'.stage \in {"inspect", "exec", "start"} => container'.shell = "none"
         /\ container'.shell = "alive" => agent'.stage = "open" /\ ~agent'.closed
         /\ ~agent'.closed => agent'.idleTimer /\ agent'.sessionTimer
    BY <1>1, <1>10, <1>11 DEF Stages
  <1>13. QED
    BY <1>1, <1>4, <1>9, <1>10, <1>12, AgentMoves

LEMMA ShellReadsStep == ASSUME Inv, ShellReads PROVE Inv'
  <1>1. /\ agent.writable > 0
        /\ agent' = [agent EXCEPT !.writable = 0, !.paused = FALSE]
        /\ UNCHANGED <<link, toAgent, toManager, asked, place, manager, container,
                       typed, produced, taken>>
    BY DEF ShellReads
  <1>2. agent.stage # "none"
    <2>1. agent.stage = "none" => agent = NoAgent
      BY AgentFacts DEF Stages
    <2>2. NoAgent.writable = 0
      BY DEF NoAgent, NewAgent
    <2>3. agent.writable # 0
      BY <1>1
    <2>4. QED
      BY <2>1, <2>2, <2>3
  <1>3. 0 \in 0..MaxBuffered
    BY NodeTerminalAssumption
  <1>4. /\ agent' \in AgentType /\ agent'.closed = agent.closed
        /\ agent'.stage = agent.stage
        /\ agent'.resizing = agent.resizing
        /\ agent'.pendingSize = agent.pendingSize
        /\ agent'.idleTimer = agent.idleTimer
        /\ agent'.sessionTimer = agent.sessionTimer
    BY <1>1, <1>3, AgentFacts DEF AgentType
  <1>5. /\ agent.stage \in {"exec", "start", "open"} => place.ours
        /\ agent.stage \in {"inspect", "exec", "start"} => container.shell = "none"
        /\ container.shell = "alive" => agent.stage = "open" /\ ~agent.closed
        /\ ~agent.closed => agent.idleTimer /\ agent.sessionTimer
    BY <1>2, AgentFacts DEF Stages
  <1>6. /\ container' = container /\ container \in ContainerType /\ Wanted' = Wanted
        /\ ~agent.closed /\ agent.pendingSize # None => agent.resizing # None
    BY <1>1, <1>4, AgentFacts DEF Wanted
  <1>7. QED
    BY <1>1, <1>2, <1>4, <1>5, <1>6, AgentStep

\* The window gets the size that was being applied, and the last one that came
\* in the meantime is next.
LEMMA ResizeDoneStep == ASSUME Inv, ResizeDone PROVE Inv'
  <1>1. /\ agent.resizing # None
        /\ container' = [container EXCEPT !.size = agent.resizing]
        /\ agent' = [agent EXCEPT
              !.resizing = IF agent.closed THEN None ELSE agent.pendingSize,
              !.pendingSize = IF agent.closed THEN @ ELSE None]
        /\ UNCHANGED <<link, toAgent, toManager, asked, place, manager, typed,
                       produced, taken>>
    BY DEF ResizeDone
  <1>2. agent.stage # "none"
    BY <1>1, AgentFacts DEF Stages, NoAgent, NewAgent
  <1>3. agent \in AgentType /\ container \in ContainerType
    BY AgentFacts
  <1>4. /\ agent' \in AgentType /\ agent'.closed = agent.closed
        /\ agent'.stage = agent.stage
        /\ agent'.idleTimer = agent.idleTimer
        /\ agent'.sessionTimer = agent.sessionTimer
        /\ ~agent.closed => /\ agent'.resizing = agent.pendingSize
                            /\ agent'.pendingSize = None
    BY <1>1, <1>3 DEF AgentType
  <1>5. /\ container' \in ContainerType /\ container'.read = container.read
        /\ container'.shell = container.shell /\ container'.size = agent.resizing
    BY <1>1, <1>3 DEF ContainerType, AgentType
  <1>6. /\ agent.stage \in {"exec", "start", "open"} => place.ours
        /\ agent.stage \in {"inspect", "exec", "start"} => container.shell = "none"
        /\ container.shell = "alive" => agent.stage = "open" /\ ~agent.closed
        /\ ~agent.closed => agent.idleTimer /\ agent.sessionTimer
    BY <1>2, AgentFacts DEF Stages
  <1>7. ~agent'.closed => /\ Wanted' = Wanted
                          /\ agent'.pendingSize # None => agent'.resizing # None
    BY <1>1, <1>4, <1>5 DEF Wanted
  <1>8. QED
    BY <1>1, <1>2, <1>4, <1>5, <1>6, <1>7, AgentStep

LEMMA ResizeFailsStep == ASSUME Inv, ResizeFails PROVE Inv'
  <1> DEFINE a == [Closed(agent) EXCEPT !.resizing = None]
  <1>1. /\ agent.resizing # None /\ AgentIs(a, <<>>)
        /\ UNCHANGED <<link, toAgent, asked, place, manager, typed, produced, taken>>
    BY DEF ResizeFails
  <1>2. agent.stage # "none"
    BY <1>1, AgentFacts DEF Stages, NoAgent, NewAgent
  <1>3. a \in AgentType /\ a.closed /\ a.stage = agent.stage
    BY AgentFacts DEF AgentType
  <1> HIDE DEF a
  <1>4. /\ agent' = a /\ container' \in ContainerType
        /\ container'.read = container.read
        /\ container'.shell = "none" <=> container.shell = "none"
        /\ container'.shell # "alive"
        /\ \/ toManager' = toManager
           \/ agent'.closed /\ toManager' = Append(toManager, CloseFrame)
    BY <1>1, <1>3, AgentIsEffect
  <1>5. /\ agent.stage \in {"exec", "start", "open"} => place.ours
        /\ agent.stage \in {"inspect", "exec", "start"} => container.shell = "none"
    BY AgentFacts DEF Stages
  <1>6. QED
    BY <1>1, <1>2, <1>3, <1>4, <1>5, AgentStep

LEMMA SendDoneStep == ASSUME Inv, SendDone PROVE Inv'
  <1>1. /\ agent.sending /\ agent' = [agent EXCEPT !.sending = FALSE]
        /\ UNCHANGED <<link, toAgent, toManager, asked, place, manager, container,
                       typed, produced, taken>>
    BY DEF SendDone
  <1>2. agent.stage # "none"
    BY <1>1, AgentFacts DEF Stages, NoAgent, NewAgent
  <1>4. /\ agent' \in AgentType /\ agent'.closed = agent.closed
        /\ agent'.stage = agent.stage
        /\ agent'.resizing = agent.resizing
        /\ agent'.pendingSize = agent.pendingSize
        /\ agent'.idleTimer = agent.idleTimer
        /\ agent'.sessionTimer = agent.sessionTimer
    BY <1>1, AgentFacts DEF AgentType
  <1>5. /\ agent.stage \in {"exec", "start", "open"} => place.ours
        /\ agent.stage \in {"inspect", "exec", "start"} => container.shell = "none"
        /\ container.shell = "alive" => agent.stage = "open" /\ ~agent.closed
        /\ ~agent.closed => agent.idleTimer /\ agent.sessionTimer
    BY <1>2, AgentFacts DEF Stages
  <1>6. /\ container' = container /\ container \in ContainerType /\ Wanted' = Wanted
        /\ ~agent.closed /\ agent.pendingSize # None => agent.resizing # None
    BY <1>1, <1>4, AgentFacts DEF Wanted
  <1>7. QED
    BY <1>1, <1>2, <1>4, <1>5, <1>6, AgentStep

\* One more was written, and one more is under way.
LEMMA OneMore ==
  ASSUME NEW had \in Nat, NEW way \in Nat, NEW offset \in {0, 1}, NEW all \in Nat,
         all = had + way - offset
  PROVE  had + (way + 1) - offset = all + 1
  OBVIOUS

\* The last chunk goes behind all that is under way, or there is no room for it
\* and the handler ends.
LEMMA OutputStep == ASSUME Inv, NEW c \in Chunks, Output(c) PROVE Inv'
  <1> DEFINE chunk == Chunk(Len(produced) + 1, c)
             longer == Append(produced, chunk)
  <1>1. /\ container.shell = "alive" /\ ~agent.sending
        /\ Len(produced) < MaxProduced /\ produced' = longer
        /\ IF Bytes(toManager) + c > MaxBuffered
           THEN AgentIs(Closed(agent), <<>>)
           ELSE AgentIs([agent EXCEPT !.sending = TRUE], <<chunk>>)
        /\ UNCHANGED <<link, toAgent, asked, place, manager, typed, taken>>
    BY DEF Output, TooMuch
  <1>2. /\ agent.stage = "open" /\ ~agent.closed /\ link # "none"
        /\ place.ours /\ place.node = asked
        /\ agent.idleTimer /\ agent.sessionTimer
    BY <1>1, AgentFacts DEF Stages, NoAgent, NewAgent
  <1>3. /\ produced \in Seq(Chunked) /\ Len(produced) \in Nat
        /\ toManager \in Seq(Replies) /\ MaxProduced \in Nat
    BY NodeTerminalAssumption DEF Inv, Types, TypeOK
  <1>4. chunk \in Chunked /\ chunk \in Replies /\ chunk.kind = "chunk"
    BY <1>1, <1>3 DEF Chunk, Chunked, Replies
  <1> HIDE DEF chunk
  <1>5. /\ longer \in Seq(Chunked) /\ Len(longer) = Len(produced) + 1
        /\ longer[Len(produced) + 1] = chunk
        /\ \A i \in 1..Len(produced) : longer[i] = produced[i]
    BY <1>3, <1>4
  <1> HIDE DEF longer
  <1>6. /\ agent' \in AgentType /\ agent'.stage = "open"
        /\ container' \in ContainerType /\ container'.read = container.read
        /\ container'.shell \in {"alive", "dead"}
        /\ \/ /\ agent'.closed /\ container'.shell = "dead"
              /\ toManager' \in {toManager, Append(toManager, CloseFrame)}
           \/ /\ ~agent'.closed /\ container'.shell = "alive"
              /\ agent'.idleTimer /\ agent'.sessionTimer
              /\ agent'.resizing = agent.resizing
              /\ agent'.pendingSize = agent.pendingSize
              /\ container'.size = container.size
              /\ toManager' = IF link = "up" THEN Append(toManager, chunk)
                              ELSE toManager
    <2>1. CASE Bytes(toManager) + c > MaxBuffered
      <3>1. AgentIs(Closed(agent), <<>>)
        BY <1>1, <2>1
      <3>2. /\ agent' = Closed(agent) /\ container' \in ContainerType
            /\ container'.read = container.read
            /\ container'.shell = "none" <=> container.shell = "none"
            /\ container'.shell # "alive"
            /\ \/ toManager' = toManager
               \/ agent'.closed /\ toManager' = Append(toManager, CloseFrame)
        BY <3>1, AgentFacts, AgentIsEffect
      <3>3. agent' \in AgentType /\ agent'.closed /\ agent'.stage = "open"
        BY <1>2, <3>2, AgentFacts
      <3>4. container'.shell = "dead"
        BY <1>1, <3>2 DEF ContainerType
      <3>5. QED
        BY <3>2, <3>3, <3>4
    <2>2. CASE ~(Bytes(toManager) + c > MaxBuffered)
      <3> DEFINE a == [agent EXCEPT !.sending = TRUE]
      <3>1. AgentIs(a, <<chunk>>)
        BY <1>1, <2>2
      <3>2. /\ a \in AgentType /\ a.stage = "open" /\ ~a.closed
            /\ a.idleTimer /\ a.sessionTimer
            /\ a.resizing = agent.resizing /\ a.pendingSize = agent.pendingSize
        BY <1>2, AgentFacts DEF AgentType
      <3> HIDE DEF a
      <3>3. toManager \o <<chunk>> = Append(toManager, chunk)
        BY <1>3, <1>4
      <3>4. /\ agent' = a /\ container' = container
            /\ toManager' = IF link = "up" THEN Append(toManager, chunk)
                            ELSE toManager
        BY <3>1, <3>2, <3>3 DEF AgentIs
      <3>5. QED
        BY <1>1, <3>2, <3>4, AgentFacts
    <2>3. QED
      BY <2>1, <2>2
  <1>7. toManager' \in Seq(Replies)
    <2>1. CloseFrame \in Replies
      BY SentMessages
    <2>2. /\ Append(toManager, CloseFrame) \in Seq(Replies)
          /\ Append(toManager, chunk) \in Seq(Replies)
      BY <1>3, <1>4, <2>1
    <2>3. QED
      BY <1>6, <1>3, <2>2
  <1>8. Types'
    BY <1>1, <1>5, <1>6, <1>7 DEF Inv, Types, TypeOK
  <1>9. Stages'
    BY <1>1, <1>2, <1>6, AgentFacts DEF Stages
  <1>10. Inbound'
    <2>1. ~agent'.closed =>
            /\ Wanted' = Wanted
            /\ agent'.pendingSize # None => agent'.resizing # None
      BY <1>2, <1>6, AgentFacts DEF Wanted
    <2>2. QED
      BY <1>1, <1>2, <1>6, <2>1, InboundKeeps
  <1>11. Outbound'
    <2>1. /\ Had' = Had /\ Had \in Nat /\ Had <= Len(produced)
          /\ Len(taken) \in Nat /\ Len(manager.readable) \in Nat
          /\ Had = Len(taken) + Len(manager.readable)
      BY <1>1 DEF Had, Inv, Outbound, Types, ManagerType
    <2>2. /\ \A i \in 1..Len(taken) : taken[i] = produced[i]
          /\ \A i \in 1..Len(manager.readable) :
                manager.readable[i] = produced[Len(taken) + i]
          /\ \A i \in 1..Len(toManager) : UnderWay(i)
          /\ link = "up" => Len(produced) = Had + Len(toManager) - Offset
      BY <1>1, <1>2 DEF Inv, Outbound
    <2>3. /\ \A i \in 1..Len(taken) : taken[i] = longer[i]
          /\ \A i \in 1..Len(manager.readable) :
                manager.readable[i] = longer[Len(taken) + i]
      <3>1. /\ \A i \in 1..Len(taken) : i \in 1..Len(produced)
            /\ \A i \in 1..Len(manager.readable) : Len(taken) + i \in 1..Len(produced)
        BY <1>3, <2>1
      <3>2. QED
        BY <1>5, <2>2, <3>1
    <2>4. Offset' = Offset
      <3>1. CASE toManager' = toManager
        BY <3>1 DEF Offset
      <3>2. ASSUME NEW m \in {chunk, CloseFrame}, toManager' = Append(toManager, m)
            PROVE  Offset' = Offset
        <4>1. m.kind # "ready" /\ m \in Replies
          BY <1>4, SentMessages
        <4>2. CASE toManager = <<>>
          BY <3>2, <4>1, <4>2 DEF Offset
        <4>3. CASE toManager # <<>>
          <5>1. toManager' # <<>> /\ toManager'[1] = toManager[1]
            BY <1>3, <3>2, <4>1, <4>3
          <5>2. QED
            BY <4>3, <5>1 DEF Offset
        <4>4. QED
          BY <4>2, <4>3
      <3>3. QED
        BY <1>6, <3>1, <3>2
    <2>5. Offset \in {0, 1} /\ Len(toManager) \in Nat
      BY <1>3 DEF Offset
    <2>up. ASSUME link = "up"
          PROVE  Had + (Len(toManager) + 1) - Offset = Len(produced) + 1
      <3>1. Len(produced) = Had + Len(toManager) - Offset
        BY <2>2, <2>up
      <3>2. Had \in Nat
        BY <2>1
      <3>3. Len(toManager) \in Nat
        BY <2>5
      <3>4. Len(produced) \in Nat
        BY <1>3
      <3>5. Offset \in {0, 1}
        BY <2>5
      <3>6. QED
        BY <3>1, <3>2, <3>3, <3>4, <3>5, OneMore
    <2>6. ASSUME NEW i \in 1..Len(toManager') PROVE UnderWay(i)'
      <3>1. CASE i \in 1..Len(toManager)
        <4>1. toManager'[i] = toManager[i]
          <5>1. CloseFrame \in Replies
            BY SentMessages
          <5>2. /\ Append(toManager, CloseFrame)[i] = toManager[i]
                /\ Append(toManager, chunk)[i] = toManager[i]
            BY <1>3, <1>4, <3>1, <5>1
          <5>3. QED
            BY <1>6, <5>2
        <4>2. UnderWay(i)
          BY <2>2, <3>1
        <4>3. Had + i - Offset \in 1..Len(produced)
                => /\ Had + i - Offset \in 1..Len(longer)
                   /\ longer[Had + i - Offset] = produced[Had + i - Offset]
          BY <1>3, <1>5
        <4>4. agent.closed => agent'.closed
          BY <1>2
        <4>5. QED
          BY <1>1, <1>6, <2>1, <2>4, <4>1, <4>2, <4>3, <4>4 DEF UnderWay
      <3>2. CASE i \notin 1..Len(toManager)
        <4>1. \/ toManager' = Append(toManager, CloseFrame) /\ agent'.closed
              \/ toManager' = Append(toManager, chunk) /\ link = "up"
          BY <1>6, <3>2
        <4>2. CASE toManager' = Append(toManager, CloseFrame) /\ agent'.closed
          <5>1. toManager'[i] = CloseFrame
            BY <1>3, <3>2, <4>2, SentMessages
          <5>2. QED
            BY <4>2, <5>1, SentMessages DEF UnderWay
        <4>3. CASE toManager' = Append(toManager, chunk) /\ link = "up"
          <5>1. toManager'[i] = chunk /\ i = Len(toManager) + 1
            BY <1>3, <1>4, <3>2, <4>3
          <5>2. Had + i - Offset = Len(produced) + 1
            BY <2>up, <4>3, <5>1
          <5>3. Len(produced) + 1 \in 1..Len(longer)
            BY <1>3, <1>5
          <5>4. QED
            BY <1>1, <1>4, <1>5, <2>1, <2>4, <5>1, <5>2, <5>3 DEF UnderWay
        <4>4. QED
          BY <4>1, <4>2, <4>3
      <3>3. QED
        BY <3>1, <3>2
    <2>7. link = "up" /\ ~agent'.closed =>
              Len(longer) = Had + Len(toManager') - Offset
      <3>1. SUFFICES ASSUME link = "up", ~agent'.closed
                     PROVE  Len(longer) = Had + Len(toManager') - Offset
        OBVIOUS
      <3>2. toManager' = Append(toManager, chunk)
        BY <1>6, <3>1
      <3>3. Len(toManager') = Len(toManager) + 1
        BY <1>3, <1>4, <3>2
      <3>4. QED
        BY <1>5, <2>up, <3>1, <3>3
    <2>8. Had <= Len(longer)
      BY <1>3, <1>5, <2>1
    <2>9. container'.shell # "none"
      BY <1>6
    <2>10. QED
      BY <1>1, <2>1, <2>3, <2>4, <2>6, <2>7, <2>8, <2>9 DEF Outbound
  <1>12. QED
    BY <1>8, <1>9, <1>10, <1>11 DEF Inv

LEMMA TerminateStep == ASSUME Inv, Terminate PROVE Inv'
  <1>1. /\ agent.closed /\ link = "up" /\ link' = "cut"
        /\ UNCHANGED <<toAgent, toManager, asked, place, manager, agent, container,
                       typed, produced, taken>>
    BY DEF Terminate
  <1>2. agent.stage # "none"
    BY <1>1, AgentFacts DEF Stages, NoAgent, NewAgent
  <1>3. /\ agent.stage \in {"exec", "start", "open"} => place.ours
        /\ agent.stage \in {"inspect", "exec", "start"} => container.shell = "none"
        /\ container.shell = "alive" => agent.stage = "open" /\ ~agent.closed
    BY AgentFacts DEF Stages
  <1>4. QED
    BY <1>1, <1>2, <1>3, AgentFacts, AgentStep

LEMMA VanishStep == ASSUME Inv, Vanish PROVE Inv'
  <1>1. /\ link = "up" /\ link' = "lost" /\ toAgent' = <<>> /\ toManager' = <<>>
        /\ UNCHANGED <<asked, place, manager, agent, container, typed, produced,
                       taken>>
    BY DEF Vanish
  <1>2. <<>> \in Seq(Messages) /\ <<>> \in Seq(Replies)
    OBVIOUS
  <1>3. Types'
    BY <1>1, <1>2 DEF Inv, Types, TypeOK
  <1>4. Stages'
    BY <1>1 DEF Inv, Stages
  <1>5. Inbound'
    <2>1. ~agent.closed /\ agent.pendingSize # None => agent.resizing # None
      BY AgentFacts
    <2>2. Wanted' = Wanted
      BY <1>1 DEF Wanted
    <2>3. QED
      BY <1>1, <2>1, <2>2, InboundKeeps
  <1>6. Outbound'
    BY <1>1, OutboundCut
  <1>7. QED
    BY <1>3, <1>4, <1>5, <1>6 DEF Inv

LEMMA NextInv == Inv /\ [Next]_nodeVars => Inv'
  <1> SUFFICES ASSUME Inv, [Next]_nodeVars PROVE Inv'
    OBVIOUS
  <1>1. CASE Connect
    BY <1>1, ConnectStep
  <1>2. CASE ConnectFails \/ ReadyTimeout \/ ConsumerCloses \/ ManagerLosesLink
    BY <1>2, ManagerEndsStep
       DEF ConnectFails, ReadyTimeout, ConsumerCloses, ManagerLosesLink
  <1>3. CASE ManagerReceives
    BY <1>3, ManagerReceivesStep
  <1>4. CASE ConsumerReads
    BY <1>4, ConsumerReadsStep
  <1>5. CASE \E n \in Inputs : ConsumerSends(Input(n))
    BY <1>5, ConsumerSendsStep, SentMessages
  <1>6. CASE \E s \in Sizes : ConsumerSends(Resize(s))
    BY <1>6, ConsumerSendsStep, SentMessages
  <1>7. CASE \/ IdleTimeout \/ SessionTimeout \/ StartTimeout
             \/ StreamEnds \/ AgentLosesLink \/ DockerFails
    BY <1>7, AgentEndsStep
       DEF IdleTimeout, SessionTimeout, StartTimeout, StreamEnds,
           AgentLosesLink, DockerFails
  <1>8. CASE Inspected
    BY <1>8, InspectedStep
  <1>9. CASE ExecCreated
    BY <1>9, ExecCreatedStep
  <1>10. CASE Started
    BY <1>10, StartedStep
  <1>11. CASE AgentReceives
    BY <1>11, AgentReceivesStep
  <1>12. CASE ShellReads
    BY <1>12, ShellReadsStep
  <1>13. CASE ResizeDone
    BY <1>13, ResizeDoneStep
  <1>14. CASE ResizeFails
    BY <1>14, ResizeFailsStep
  <1>15. CASE \E n \in Chunks : Output(n)
    BY <1>15, OutputStep
  <1>16. CASE SendDone
    BY <1>16, SendDoneStep
  <1>17. CASE Terminate
    BY <1>17, TerminateStep
  <1>18. CASE Vanish
    BY <1>18, VanishStep
  <1>19. CASE UNCHANGED nodeVars
    <2>1. Types' /\ Stages'
      BY <1>19 DEF nodeVars, Inv, Types, TypeOK, Stages
    <2>2. Inbound'
      BY <1>19 DEF nodeVars, Inv, Inbound, Arrived, Wanted
    <2>3. Outbound'
      BY <1>19 DEF nodeVars, Inv, Outbound, UnderWay, Had, Offset
    <2>4. QED
      BY <2>1, <2>2, <2>3 DEF Inv
  <1>20. QED
    BY <1>1, <1>2, <1>3, <1>4, <1>5, <1>6, <1>7, <1>8, <1>9, <1>10, <1>11,
       <1>12, <1>13, <1>14, <1>15, <1>16, <1>17, <1>18, <1>19 DEF Next

-----------------------------------------------------------------------------
(* What follows.                                                           *)

\* The messages are where the invariant places them, whatever is lost and
\* whichever end gives up first.
THEOREM InvHolds == Spec => []Inv
  BY InitInv, NextInv, PTL DEF Spec

\* Both ends' buffers stay within the limits the code gives them
\* (MAX_BUFFERED_BYTES), for every limit and every size of message.
THEOREM TypeCorrect == Spec => []TypeOK
  <1>1. Inv => TypeOK
    BY DEF Inv, Types
  <1>2. QED
    BY <1>1, InvHolds, PTL

\* What the shell reads is what was typed, and what the browser gets is what
\* the shell wrote, in order and without a gap: the handlers of the two
\* sockets, of the stream and of the shell never drop a message and go on.
THEOREM OrderHolds == Spec => []BytesInOrder
  <1>1. Inv => BytesInOrder
    <2> SUFFICES ASSUME Inv PROVE IsPrefix(taken \o manager.readable, produced)
      BY DEF BytesInOrder, Inv, Inbound
    <2> DEFINE s == taken \o manager.readable
    <2>2. /\ taken \in Seq(Chunked) /\ manager.readable \in Seq(Chunked)
          /\ produced \in Seq(Chunked)
      BY DEF Inv, Types, ManagerType
    <2>3. /\ s \in Seq(Chunked) /\ Len(s) = Len(taken) + Len(manager.readable)
          /\ \A i \in 1..Len(s) :
                s[i] = IF i <= Len(taken) THEN taken[i]
                       ELSE manager.readable[i - Len(taken)]
          /\ Len(taken) \in Nat /\ Len(manager.readable) \in Nat
      BY <2>2
    <2> HIDE DEF s
    <2>4. Len(s) <= Len(produced)
      BY <2>3 DEF Inv, Outbound, Had
    <2>5. ASSUME NEW i \in 1..Len(s) PROVE s[i] = produced[i]
      <3>1. CASE i <= Len(taken)
        <4>1. i \in 1..Len(taken) /\ s[i] = taken[i]
          BY <2>3, <3>1
        <4>2. QED
          BY <4>1 DEF Inv, Outbound
      <3>2. CASE ~(i <= Len(taken))
        <4>1. /\ i - Len(taken) \in 1..Len(manager.readable)
              /\ Len(taken) + (i - Len(taken)) = i
              /\ s[i] = manager.readable[i - Len(taken)]
          BY <2>3, <3>2
        <4>2. QED
          BY <4>1 DEF Inv, Outbound
      <3>3. QED
        BY <3>1, <3>2
    <2>6. IsPrefix(s, produced)
      BY <2>2, <2>3, <2>4, <2>5, PrefixIs
    <2>7. QED
      BY <2>6 DEF s
  <1>2. QED
    BY <1>1, InvHolds, PTL

\* A shell lives only in an open session of its handler, with both timers that
\* end it, and in a container of the task and the node that were asked for.
THEOREM ShellsEnd == Spec => []NoShellLeftBehind
  <1>1. Inv => NoShellLeftBehind
    BY DEF Inv, Stages, NoShellLeftBehind
  <1>2. QED
    BY <1>1, InvHolds, PTL

\* A promise is resolved only when the shell was started; and once all that was
\* typed is there and applied, the window has the last of the sizes, although
\* sizes that come in between are left out.
THEOREM ReadyHolds == Spec => []ReadyIsTrue
  <1>1. Inv => ReadyIsTrue
    <2> SUFFICES ASSUME Inv, manager.promise = "resolved"
                   PROVE  /\ container.shell # "none"
                          /\ link = "up" /\ ~agent.closed /\ toAgent = <<>>
                                 /\ agent.resizing = None
                             => container.size = LastSize(typed, None)
      BY DEF ReadyIsTrue
    <2>2. container.shell # "none"
      BY DEF Inv, Stages
    <2>3. ASSUME link = "up", ~agent.closed, toAgent = <<>>, agent.resizing = None
          PROVE  container.size = LastSize(typed, None)
      <3>1. PICK n \in 0..Len(typed) : Arrived(n)
        BY DEF Inv, Inbound
      <3>2. typed \in Seq(Messages) /\ Len(<<>>) = 0
        BY DEF Inv, Types
      <3>3. n = Len(typed)
        BY <2>3, <3>1, <3>2 DEF Arrived
      <3>4. SubSeq(typed, 1, n) = typed
        BY <3>2, <3>3
      <3>5. /\ Wanted = LastSize(SubSeq(typed, 1, n), None)
            /\ agent.pendingSize = None
        BY <2>3, <3>1 DEF Arrived
      <3>6. QED
        BY <2>3, <3>4, <3>5 DEF Wanted
    <2>4. QED
      BY <2>2, <2>3
  <1>2. QED
    BY <1>1, InvHolds, PTL

=============================================================================

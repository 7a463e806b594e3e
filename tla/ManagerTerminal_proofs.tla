------------------------ MODULE ManagerTerminal_proofs -----------------------
(***************************************************************************)
(* Proofs about the two halves of the manager's terminal, TerminalTickets  *)
(* and TerminalBridge, for all tickets, connections and descriptions and   *)
(* every lifetime, and for all frames, window sizes, chunks and limits: a  *)
(* ticket is good once and for its lifetime, neither side of a terminal    *)
(* loses what the other sends, and nothing of a terminal outlives it.      *)
(*                                                                         *)
(* The bridge comes first.  Its invariant says how the session stands to   *)
(* what the browser has sent.  While it lives it has taken every frame;    *)
(* the same holds of what is kept before there is a session, so that the   *)
(* replay only has to be shown to take one frame after the other.          *)
(***************************************************************************)
EXTENDS TerminalTickets, TerminalBridge, WellFoundedInduction,
        SequenceTheorems, TLAPS

-----------------------------------------------------------------------------
(* The inductive invariant.                                                *)

\* The size a session is going to have in the end.
Wanted(s, size) ==
    IF s.pendingResize # None THEN s.pendingResize
    ELSE IF s.resizing # None THEN s.resizing ELSE size

\* The numbers of a sequence rise.
InOrder(w) == \A i, j \in DOMAIN w : i < j => w[i] < w[j]

\* A session, in a window of a size, that the frames q have led to.
Follows(s, size, q) ==
    /\ s \in SessionType
    /\ InOrder(s.written)
    /\ \E n \in 0..Len(q) : Range(s.written) = {i \in Those("input", q) : i <= n}
    /\ s.closed => ~s.idleTimer /\ ~s.sessionTimer
    /\ ~s.closed => /\ s.idleTimer /\ s.sessionTimer
                    /\ Range(s.written) = Those("input", q)
                    /\ AskedLast(Wanted(s, size), q)
                    /\ s.pendingResize # None => s.resizing # None

\* Before the shell is there, and when there will be none.
Before ==
    phase # "open" => /\ session = NoSession /\ windowSize = None
                      /\ shell # "alive" /\ delivered = <<>> /\ produced = 0
Kept ==
    phase = "opening" /\ ~disconnected =>
        /\ Len(pendingInput) = Len(received)
        /\ \A i \in 1..Len(received) : pendingInput[i] = i

\* While there is a session, and after.
During == phase = "open" => Follows(session, windowSize, received)
Ends == /\ shell = "alive" => Live
        /\ session.closed => shell = "dead" /\ socket # "open"
        /\ socket = "closed" => disconnected /\ shell # "alive"

Inv == TypeOK /\ Before /\ Kept /\ During /\ Ends /\ OutputIsComplete

-----------------------------------------------------------------------------
(* Recursion over a sequence: induction as the least number outside a set, *)
(* and the existence of what a recursive function defines.                 *)

\* A set that holds 0 and with each number the next one holds them all.
LEMMA SetInduction ==
  ASSUME NEW S, 0 \in S, \A n \in Nat : n \in S => n + 1 \in S
  PROVE  Nat \subseteq S
  <1> DEFINE T == {n \in Nat : n \notin S}
  <1>1. CASE T = {}
    BY <1>1
  <1>2. CASE T # {}
    <2>1. PICK x \in T : \A y \in T : ~(<<y, x>> \in OpToRel(<, Nat))
      BY <1>2, WFMin, NatLessThanWellFounded
    <2>2. x # 0 /\ x - 1 \in Nat /\ x - 1 < x
      OBVIOUS
    <2>3. <<x - 1, x>> \in OpToRel(<, Nat)
      BY <2>2 DEF OpToRel
    <2>4. x - 1 \in S
      BY <2>1, <2>2, <2>3
    <2>5. QED
      BY <2>2, <2>4
  <1>3. QED
    BY <1>1, <1>2

\* n steps over S, and the runs that start with b and take them.
Steps(S, n) == [S \X (1..n) -> S]
Runs(S, b, n, h) ==
    {g \in [0..n -> S] : g[0] = b /\ \A i \in 1..n : g[i] = h[<<g[i - 1], i>>]}

\* There is one.
LEMMA Iteration ==
  ASSUME NEW S, NEW b \in S, NEW n \in Nat, NEW h \in Steps(S, n)
  PROVE  Runs(S, b, n, h) # {}
  <1> USE DEF Steps
  <1> DEFINE Upto(k, g) == g[0] = b /\ \A i \in 1..k : g[i] = h[<<g[i - 1], i>>]
             P == {k \in Nat : k <= n => \E g \in [0..k -> S] : Upto(k, g)}
  <1>1. 0 \in P
    <2> DEFINE g == [i \in 0..0 |-> b]
    <2>1. g \in [0..0 -> S] /\ Upto(0, g)
      OBVIOUS
    <2>2. QED
      BY <2>1
  <1>2. ASSUME NEW k \in Nat, k \in P PROVE k + 1 \in P
    <2>1. SUFFICES ASSUME k + 1 <= n
                   PROVE  \E g \in [0..(k + 1) -> S] : Upto(k + 1, g)
      OBVIOUS
    <2>2. PICK f \in [0..k -> S] : Upto(k, f)
      BY <1>2, <2>1
    <2>3. k \in 0..k /\ k + 1 \in 1..n
      BY <2>1
    <2>4. h[<<f[k], k + 1>>] \in S
      BY <2>3
    <2> DEFINE g == [i \in 0..(k + 1) |->
                        IF i = k + 1 THEN h[<<f[k], k + 1>>] ELSE f[i]]
    <2>5. g \in [0..(k + 1) -> S]
      BY <2>4
    <2>6. Upto(k + 1, g)
      <3>1. g[0] = b /\ g[k] = f[k] /\ g[k + 1] = h[<<f[k], k + 1>>]
        BY <2>2
      <3>2. ASSUME NEW i \in 1..(k + 1) PROVE g[i] = h[<<g[i - 1], i>>]
        <4>1. CASE i = k + 1
          <5>1. i - 1 = k
            BY <4>1
          <5>2. QED
            BY <5>1, <4>1, <3>1
        <4>2. CASE i # k + 1
          <5>1. i \in 1..k /\ i - 1 \in 0..k
            BY <4>2
          <5>2. g[i] = f[i] /\ g[i - 1] = f[i - 1]
            BY <5>1
          <5>3. QED
            BY <5>1, <5>2, <2>2
        <4>3. QED
          BY <4>1, <4>2
      <3>3. QED
        BY <3>1, <3>2
    <2>7. QED
      BY <2>5, <2>6
  <1> HIDE DEF P
  <1>3. n \in P
    BY <1>1, <1>2, SetInduction
  <1>4. PICK g \in [0..n -> S] : Upto(n, g)
    BY <1>3 DEF P
  <1>5. g \in Runs(S, b, n, h)
    BY <1>4 DEF Runs
  <1>6. QED
    BY <1>5

-----------------------------------------------------------------------------
(* What an event does to a session that follows the frames.                *)

LEMMA FrameFields ==
  ASSUME NEW m \in Frames
  PROVE  /\ m.kind \in {"input", "resize", "junk"}
         /\ m.bytes \in Nat \ {0}
         /\ m.kind = "resize" => m.size \in Sizes
  BY FramesAssumption DEF FrameKinds

\* Whatever comes, a session keeps within its limits.
LEMMA HandledType ==
  ASSUME NEW s \in SessionType, NEW m \in Frames, NEW nr \in Nat
  PROVE  Handled(s, m, nr) \in SessionType
  <1>1. Closed(s) \in SessionType
    BY DEF Closed, SessionType
  <1>2. CASE /\ m.kind = "input"
             /\ ~(m.bytes > MaxInput \/ s.writable + m.bytes > MaxBuffered)
    <2>1. s.writable \in Nat /\ m.bytes \in Nat /\ MaxBuffered \in Nat
      BY FrameFields, LimitsAssumption DEF SessionType
    <2>2. s.writable + m.bytes \in 0..MaxBuffered
      BY <1>2, <2>1
    <2>3. Append(s.written, nr) \in Seq(Nat)
      BY DEF SessionType
    <2>4. [s EXCEPT !.idleTimer = TRUE, !.written = Append(@, nr),
                    !.writable = @ + m.bytes] \in SessionType
      BY <2>2, <2>3 DEF SessionType
    <2>5. QED
      BY <1>2, <2>4 DEF Handled
  <1>3. CASE m.kind = "resize"
    BY <1>1, <1>3, FrameFields DEF Handled, Resized, SessionType
  <1>4. QED
    BY <1>1, <1>2, <1>3 DEF Handled

\* A frame that is added is one of its kind, and asks for its size.
LEMMA OneMoreFrame ==
  ASSUME NEW q \in Seq(Frames), NEW m \in Frames, NEW kind
  PROVE  /\ Those(kind, Append(q, m)) =
              IF m.kind = kind THEN Those(kind, q) \cup {Len(q) + 1} ELSE Those(kind, q)
         /\ \A i \in Those(kind, q) : i \in 1..Len(q) /\ Append(q, m)[i] = q[i]
         /\ Append(q, m)[Len(q) + 1] = m
         /\ Append(q, m) \in Seq(Frames) /\ Len(Append(q, m)) = Len(q) + 1
         /\ Len(q) \in Nat
  <1> DEFINE p == Append(q, m)
  <1>1. /\ p \in Seq(Frames) /\ Len(q) \in Nat /\ Len(p) = Len(q) + 1
        /\ DOMAIN p = 1..(Len(q) + 1) /\ DOMAIN q = 1..Len(q)
        /\ p[Len(q) + 1] = m /\ \A i \in 1..Len(q) : p[i] = q[i]
    OBVIOUS
  <1> HIDE DEF p
  <1>2. Those(kind, p) =
            IF m.kind = kind THEN Those(kind, q) \cup {Len(q) + 1} ELSE Those(kind, q)
    BY <1>1 DEF Those
  <1>3. \A i \in Those(kind, q) : i \in 1..Len(q) /\ p[i] = q[i]
    BY <1>1 DEF Those
  <1>4. QED
    BY <1>1, <1>2, <1>3 DEF p

LEMMA AskedNext ==
  ASSUME NEW q \in Seq(Frames), NEW m \in Frames, NEW size
  PROVE  /\ m.kind = "resize" => AskedLast(m.size, Append(q, m))
         /\ m.kind # "resize" /\ AskedLast(size, q) => AskedLast(size, Append(q, m))
  <1> DEFINE p == Append(q, m)
             new == Those("resize", p)
             old == Those("resize", q)
  <1>1. /\ new = IF m.kind = "resize" THEN old \cup {Len(q) + 1} ELSE old
        /\ \A i \in old : i \in 1..Len(q) /\ p[i] = q[i]
        /\ p[Len(q) + 1] = m /\ Len(q) \in Nat
    BY OneMoreFrame
  <1> HIDE DEF p, new, old
  <1>2. ASSUME m.kind = "resize" PROVE AskedLast(m.size, p)
    <2>1. Len(q) + 1 \in new /\ \A i \in new : i <= Len(q) + 1
      BY <1>1, <1>2
    <2>2. QED
      BY <1>1, <2>1 DEF AskedLast, new
  <1>3. ASSUME m.kind # "resize", AskedLast(size, q) PROVE AskedLast(size, p)
    BY <1>1, <1>3 DEF AskedLast, new, old
  <1>4. QED
    BY <1>2, <1>3 DEF p

\* What was read of some frames was read of more.
LEMMA ReadOfMore ==
  ASSUME NEW q \in Seq(Frames), NEW m \in Frames, NEW w,
         \E n \in 0..Len(q) : w = {i \in Those("input", q) : i <= n}
  PROVE  \E n \in 0..Len(Append(q, m)) :
            w = {i \in Those("input", Append(q, m)) : i <= n}
  <1>1. PICK n \in 0..Len(q) : w = {i \in Those("input", q) : i <= n}
    OBVIOUS
  <1>2. n \in 0..(Len(q) + 1) /\ ~(Len(q) + 1 <= n)
    BY OneMoreFrame
  <1>3. {i \in Those("input", Append(q, m)) : i <= n} = w
    BY <1>1, <1>2, OneMoreFrame
  <1>4. QED
    BY <1>2, <1>3, OneMoreFrame

\* A session that is closed stays what it is, whatever comes.
LEMMA ClosedFollows ==
  ASSUME NEW s, NEW size, NEW q \in Seq(Frames), NEW m \in Frames,
         Follows(s, size, q)
  PROVE  /\ Follows(Closed(s), size, q)
         /\ Follows(Closed(s), size, Append(q, m))
         /\ Closed(s).closed
  <1>1. /\ Closed(s) \in SessionType /\ Closed(s).written = s.written
        /\ Closed(s).closed /\ ~Closed(s).idleTimer /\ ~Closed(s).sessionTimer
    BY DEF Follows, Closed, SessionType
  <1>2. /\ InOrder(s.written)
        /\ \E n \in 0..Len(q) : Range(s.written) = {i \in Those("input", q) : i <= n}
        /\ \E n \in 0..Len(Append(q, m)) :
              Range(s.written) = {i \in Those("input", Append(q, m)) : i <= n}
    <2> DEFINE w == Range(s.written)
    <2>1. InOrder(s.written) /\ \E n \in 0..Len(q) : w = {i \in Those("input", q) : i <= n}
      BY DEF Follows
    <2> HIDE DEF w
    <2>2. \E n \in 0..Len(Append(q, m)) :
              w = {i \in Those("input", Append(q, m)) : i <= n}
      BY <2>1, ReadOfMore
    <2>3. QED
      BY <2>1, <2>2 DEF w
  <1>3. QED
    BY <1>1, <1>2 DEF Follows

\* A frame that is handled has been followed.
LEMMA HandledFollows ==
  ASSUME NEW s, NEW size, NEW q \in Seq(Frames), NEW m \in Frames,
         Follows(s, size, q)
  PROVE  Follows(Handled(s, m, Len(q) + 1), size, Append(q, m))
  <1> DEFINE p == Append(q, m)
             nr == Len(q) + 1
             t == Handled(s, m, nr)
             typed == Those("input", p)
  <1>1. /\ typed = IF m.kind = "input" THEN Those("input", q) \cup {nr}
                   ELSE Those("input", q)
        /\ \A i \in Those("input", q) : i \in 1..Len(q)
        /\ p \in Seq(Frames) /\ Len(p) = nr /\ Len(q) \in Nat
    BY OneMoreFrame
  <1>2. typed = {i \in typed : i <= nr} /\ nr \in 0..Len(p)
    BY <1>1
  <1>3. CASE s.closed
    <2>1. t = s
      BY <1>3 DEF Handled
    <2>2. Closed(s) = s
      BY <1>3 DEF Follows, Closed, SessionType
    <2>3. QED
      BY <2>1, <2>2, ClosedFollows
  <1>4. CASE ~s.closed /\ t = Closed(s)
    BY <1>4, ClosedFollows
  <1>5. CASE /\ ~s.closed /\ m.kind = "input"
             /\ ~(m.bytes > MaxInput \/ s.writable + m.bytes > MaxBuffered)
    <2>1. t = [s EXCEPT !.idleTimer = TRUE, !.written = Append(@, nr),
                        !.writable = @ + m.bytes]
      BY <1>5 DEF Handled
    <2>2. /\ s \in SessionType /\ Range(s.written) = Those("input", q)
          /\ InOrder(s.written)
          /\ s.sessionTimer /\ AskedLast(Wanted(s, size), q)
          /\ s.pendingResize # None => s.resizing # None
      BY <1>5 DEF Follows
    <2>3. /\ t \in SessionType /\ ~t.closed /\ t.idleTimer /\ t.sessionTimer
          /\ t.written = Append(s.written, nr)
          /\ t.pendingResize = s.pendingResize /\ t.resizing = s.resizing
      <3>1. t \in SessionType
        BY <1>1, <2>2, HandledType
      <3>2. QED
        BY <1>5, <2>1, <2>2, <3>1 DEF SessionType
    <2> DEFINE w == s.written
               v == Append(w, nr)
    <2>4. /\ w \in Seq(Nat) /\ v \in Seq(Nat) /\ Len(w) \in Nat
          /\ DOMAIN w = 1..Len(w) /\ DOMAIN v = 1..(Len(w) + 1)
          /\ v[Len(w) + 1] = nr /\ \A i \in 1..Len(w) : v[i] = w[i]
      BY <1>1, <2>2 DEF SessionType
    <2>5. \A i \in 1..Len(w) : w[i] \in 1..Len(q)
      BY <1>1, <2>2, <2>4 DEF Range
    <2>a. InOrder(w)
      BY <2>2
    <2> HIDE DEF t, w, v, nr
    <2>6. Range(v) = Range(w) \cup {nr}
      <3>1. DOMAIN v = DOMAIN w \cup {Len(w) + 1}
        BY <2>4
      <3>2. v[Len(w) + 1] = nr /\ \A i \in DOMAIN w : v[i] = w[i]
        BY <2>4
      <3>3. QED
        BY <3>1, <3>2 DEF Range
    <2>7. InOrder(v)
      <3> SUFFICES ASSUME NEW i \in DOMAIN v, NEW j \in DOMAIN v, i < j
                   PROVE  v[i] < v[j]
        BY DEF InOrder
      <3>1. i \in 1..Len(w) /\ v[i] = w[i]
        BY <2>4
      <3>2. CASE j = Len(w) + 1
        BY <1>1, <2>4, <2>5, <3>1, <3>2 DEF nr
      <3>3. CASE j # Len(w) + 1
        <4>1. j \in DOMAIN w /\ i \in DOMAIN w /\ v[j] = w[j]
          BY <2>4, <3>1, <3>3
        <4>2. QED
          BY <2>a, <3>1, <4>1 DEF InOrder
      <3>4. QED
        BY <3>2, <3>3
    <2>8. Range(t.written) = typed /\ InOrder(t.written)
      BY <1>1, <1>5, <2>2, <2>3, <2>6, <2>7 DEF v, w
    <2>9. AskedLast(Wanted(t, size), p)
      BY <1>5, <2>2, <2>3, AskedNext DEF Wanted
    <2>10. QED
      BY <1>2, <2>2, <2>3, <2>8, <2>9 DEF Follows, t, nr
  <1>6. CASE ~s.closed /\ m.kind = "resize"
    <2>1. t = Resized([s EXCEPT !.idleTimer = TRUE], m.size)
      BY <1>6 DEF Handled
    <2>2. /\ s \in SessionType /\ Range(s.written) = Those("input", q)
          /\ InOrder(s.written) /\ s.sessionTimer
          /\ s.pendingResize # None => s.resizing # None
      BY <1>6 DEF Follows
    <2>3. m.size \in Sizes /\ m.size # None
      BY <1>6, FrameFields, NoneAssumption
    <2>4. /\ t \in SessionType /\ ~t.closed /\ t.idleTimer /\ t.sessionTimer
          /\ t.written = s.written
          /\ t.resizing # None
          /\ IF s.resizing # None THEN t.pendingResize = m.size
             ELSE t.resizing = m.size /\ t.pendingResize = s.pendingResize
      BY <1>6, <2>1, <2>2, <2>3 DEF SessionType, Resized
    <2> HIDE DEF t
    <2>5. Range(t.written) = typed /\ InOrder(t.written)
      BY <1>1, <1>6, <2>2, <2>4
    <2>6. Wanted(t, size) = m.size
      BY <2>2, <2>3, <2>4 DEF Wanted
    <2>7. AskedLast(m.size, p)
      BY <1>6, AskedNext
    <2>8. QED
      BY <1>2, <2>4, <2>5, <2>6, <2>7 DEF Follows, t
  <1>7. QED
    BY <1>3, <1>4, <1>5, <1>6 DEF Handled

\* So have all that are replayed.
LEMMA ReplayedFollows ==
  ASSUME NEW s, NEW size, received \in Seq(Frames), Follows(s, size, <<>>),
         Len(pendingInput) = Len(received),
         \A i \in 1..Len(received) : pendingInput[i] = i
  PROVE  Follows(Replayed(s), size, received)
  <1> DEFINE n == Len(pendingInput)
             h == [x \in SessionType \X (1..n) |-> Handled(x[1], received[x[2]], x[2])]
  <1>1. n \in Nat /\ s \in SessionType /\ n = Len(received)
        /\ \A i \in 1..n : received[i] \in Frames /\ pendingInput[i] = i
    BY DEF Follows
  <1>2. h \in Steps(SessionType, n)
    BY <1>1, HandledType DEF Steps
  <1> HIDE DEF h
  <1>3. PICK g \in [0..n -> SessionType] :
            g[0] = s /\ \A i \in 1..n : g[i] = h[<<g[i - 1], i>>]
    <2>1. Runs(SessionType, s, n, h) # {}
      BY <1>1, <1>2, Iteration
    <2>2. QED
      BY <2>1 DEF Runs
  <1> DEFINE Is(f) == f = [i \in 0..n |->
                             IF i = 0 THEN s
                             ELSE Handled(f[i - 1], received[pendingInput[i]],
                                          pendingInput[i])]
  <1>4. Is(g)
    <2>1. \A i \in 0..n : i # 0 => i - 1 \in 0..n /\ i \in 1..n
      BY <1>1
    <2>2. \A i \in 0..n : i # 0 => g[i] = Handled(g[i - 1], received[i], i)
      BY <2>1, <1>3 DEF h
    <2>3. \A i \in 0..n : i # 0 => pendingInput[i] = i
      BY <1>1, <2>1
    <2>4. QED
      BY <1>3, <2>2, <2>3
  <1> DEFINE f == CHOOSE f1 : Is(f1)
  <1>5. Is(f)
    BY <1>4
  <1>6. Replayed(s) = f[n]
    BY DEF Replayed
  <1> HIDE DEF f
  <1>7. /\ f[0] = s
        /\ \A i \in 1..n : f[i] = Handled(f[i - 1], received[i], i)
    <2>1. \A i \in 1..n : i \in 0..n /\ i # 0
      BY <1>1
    <2>2. \A i \in 1..n : f[i] = Handled(f[i - 1], received[pendingInput[i]],
                                         pendingInput[i])
      BY <1>5, <2>1
    <2>3. QED
      BY <1>1, <1>5, <2>2
  <1> DEFINE P == {i \in Nat : i <= n => Follows(f[i], size, SubSeq(received, 1, i))}
  <1>8. 0 \in P
    <2>1. SubSeq(received, 1, 0) = <<>>
      BY <1>1
    <2>2. QED
      BY <1>7, <2>1
  <1>9. ASSUME NEW i \in Nat, i \in P PROVE i + 1 \in P
    <2>1. SUFFICES ASSUME i + 1 <= n
                   PROVE  Follows(f[i + 1], size, SubSeq(received, 1, i + 1))
      OBVIOUS
    <2> DEFINE q == SubSeq(received, 1, i)
    <2>2. /\ q \in Seq(Frames) /\ received[i + 1] \in Frames /\ Len(q) = i
          /\ SubSeq(received, 1, i + 1) = Append(q, received[i + 1])
      BY <1>1, <2>1
    <2>3. Follows(f[i], size, q)
      BY <1>9, <2>1, <1>1
    <2>4. f[i + 1] = Handled(f[i], received[i + 1], i + 1)
      BY <1>1, <1>7, <2>1
    <2> HIDE DEF q
    <2>5. QED
      BY <2>2, <2>3, <2>4, HandledFollows
  <1> HIDE DEF P
  <1>10. n \in P
    BY <1>1, <1>8, <1>9, SetInduction
  <1>11. SubSeq(received, 1, n) = received
    BY <1>1
  <1>12. QED
    BY <1>1, <1>6, <1>10, <1>11 DEF P

\* The buffers drain and fill without it.
LEMMA BuffersFollow ==
  ASSUME NEW s, NEW size, NEW q \in Seq(Frames), NEW n \in 0..MaxBuffered,
         Follows(s, size, q)
  PROVE  /\ Follows([s EXCEPT !.buffered = n], size, q)
         /\ Follows([s EXCEPT !.writable = n], size, q)
  BY DEF Follows, SessionType, Wanted

\* Both timers run before the first frame is handled.
LEMMA ArmedFollows == Follows(Armed(NoSession), None, <<>>)
  <1> DEFINE e == <<>>
             a == Armed(NoSession)
  <1>1. 0 \in 0..MaxBuffered /\ <<>> \in Seq(Nat)
    BY LimitsAssumption
  <1>2. /\ Armed(NoSession) \in SessionType
        /\ ~Armed(NoSession).closed /\ Armed(NoSession).idleTimer
        /\ Armed(NoSession).sessionTimer /\ Armed(NoSession).written = <<>>
        /\ Armed(NoSession).pendingResize = None /\ Armed(NoSession).resizing = None
    BY <1>1 DEF Armed, NoSession, SessionType
  <1>3. Those("input", <<>>) = {} /\ Those("resize", <<>>) = {} /\ Len(<<>>) = 0
    BY DEF Those
  <1>4. Range(e) = {} /\ InOrder(e)
    BY DEF Range, InOrder
  <1>5. /\ a \in SessionType /\ ~a.closed /\ a.idleTimer /\ a.sessionTimer
        /\ a.written = e /\ a.pendingResize = None /\ a.resizing = None
        /\ Those("input", e) = {} /\ Those("resize", e) = {} /\ Len(e) = 0
    BY <1>2, <1>3
  <1> HIDE DEF e, a
  <1>6. \E n \in 0..Len(e) : Range(a.written) = {i \in Those("input", e) : i <= n}
    <2>1. 0 \in 0..Len(e)
      BY <1>5
    <2>2. Range(a.written) = {i \in Those("input", e) : i <= 0}
      BY <1>4, <1>5
    <2>3. QED
      BY <2>1, <2>2
  <1>7. AskedLast(Wanted(a, None), e)
    BY <1>5 DEF Wanted, AskedLast
  <1>8. Follows(a, None, e)
    BY <1>4, <1>5, <1>6, <1>7 DEF Follows
  <1>9. QED
    BY <1>8 DEF e, a

-----------------------------------------------------------------------------
(* The invariant.                                                          *)

LEMMA InitInv == Init => Inv
  <1> SUFFICES ASSUME Init PROVE Inv
    OBVIOUS
  <1>1. 0 \in 0..MaxBuffered /\ 0 \in 0..MaxProduced /\ 0 <= MaxPending
    BY LimitsAssumption
  <1>2. NoSession \in SessionType
    BY <1>1 DEF NoSession, SessionType
  <1>e. /\ <<>> \in Seq(Frames) /\ <<>> \in Seq(Nat) /\ <<>> \in Seq(0..MaxProduced)
        /\ Len(<<>>) = 0
    OBVIOUS
  <1>3. TypeOK
    BY <1>1, <1>2, <1>e DEF Init, TypeOK
  <1>4. Before /\ Kept /\ During /\ Ends /\ OutputIsComplete
    BY DEF Init, Before, Kept, During, Ends, OutputIsComplete, Live, NoSession
  <1>5. QED
    BY <1>3, <1>4 DEF Inv

\* An event of a session leaves it following what has been received, and ends
\* everything else with it; what the browser got stays as it is.
LEMMA SessionStep ==
  ASSUME Inv, phase = "open",
         Follows(session', windowSize', received'),
         windowSize' \in Sizes \cup {None}, received' \in Seq(Frames),
         produced' \in 0..MaxProduced,
         socket' = socket \/ socket' = "closing",
         session'.closed => shell' = "dead" /\ socket' # "open",
         ~session'.closed => /\ ~session.closed /\ produced' = produced
                             /\ shell' = shell /\ socket' = socket,
         shell' \in {shell, "dead"},
         UNCHANGED <<phase, disconnected, pendingInput, pendingBytes, delivered>>
  PROVE  Inv'
  <1>1. session' \in SessionType
    BY DEF Follows
  <1>2. TypeOK'
    BY <1>1 DEF Inv, TypeOK
  <1>3. Before' /\ Kept' /\ During'
    BY DEF Before, Kept, During
  <1>4. Ends'
    BY <1>1 DEF Inv, Ends, Live, SessionType
  <1>5. OutputIsComplete'
    BY <1>1 DEF Inv, OutputIsComplete, Live, SessionType
  <1>6. QED
    BY <1>2, <1>3, <1>4, <1>5 DEF Inv

\* The same of an event whose session ends with End.
LEMMA EndStep ==
  ASSUME Inv, phase = "open",
         NEW s, End(s), Follows(s, windowSize, received'),
         received' \in Seq(Frames), produced' \in 0..MaxProduced,
         ~s.closed => ~session.closed /\ produced' = produced,
         UNCHANGED <<phase, disconnected, pendingInput, pendingBytes, delivered,
                     windowSize>>
  PROVE  Inv'
  <1>1. /\ session' = s
        /\ socket' = socket \/ socket' = "closing"
        /\ s.closed => shell' = "dead" /\ socket' # "open"
        /\ ~s.closed => shell' = shell /\ socket' = socket
        /\ shell' \in {shell, "dead"}
    BY DEF End
  <1>2. windowSize' \in Sizes \cup {None}
    BY DEF Inv, TypeOK
  <1>3. Follows(session', windowSize', received')
    BY <1>1
  <1>4. QED
    BY <1>1, <1>2, <1>3, SessionStep

\* A frame arrives before there is a session.
LEMMA KeepStep ==
  ASSUME Inv, NEW m \in Frames, Receive(m), phase # "open"
  PROVE  Inv'
  <1>1. /\ received' = Append(received, m)
        /\ Keep(m, Len(received'))
        /\ UNCHANGED <<phase, session, shell, windowSize, delivered, produced>>
    BY DEF Receive
  <1>2. m.bytes \in Nat /\ pendingBytes + m.bytes \in Nat
    BY FrameFields DEF Inv, TypeOK
  <1>3. TypeOK'
    <2> USE DEF Inv, TypeOK
    <2>1. /\ pendingInput \in Seq(Nat) /\ Len(pendingInput) \in Nat
          /\ Len(pendingInput) <= MaxPending /\ MaxPending \in Nat
          /\ received' \in Seq(Frames) /\ Len(received') \in Nat
      BY <1>1, LimitsAssumption
    <2>2. /\ \/ pendingInput' = pendingInput
             \/ /\ ~(Len(pendingInput) >= MaxPending)
                /\ pendingInput' = Append(pendingInput, Len(received'))
          /\ disconnected' \in {disconnected, TRUE}
          /\ socket' \in {socket, "closing"}
          /\ pendingBytes' = pendingBytes + m.bytes
      BY <1>1 DEF Keep
    <2>3. pendingInput' \in Seq(Nat) /\ Len(pendingInput') <= MaxPending
      <3>1. CASE pendingInput' = pendingInput
        BY <2>1, <3>1
      <3>2. CASE /\ ~(Len(pendingInput) >= MaxPending)
                 /\ pendingInput' = Append(pendingInput, Len(received'))
        <4>1. /\ pendingInput' \in Seq(Nat)
              /\ Len(pendingInput') = Len(pendingInput) + 1
          BY <2>1, <3>2
        <4>2. QED
          BY <2>1, <3>2, <4>1
      <3>3. QED
        BY <2>2, <3>1, <3>2
    <2>4. received' \in Seq(Frames) /\ pendingBytes' \in Nat
      BY <1>1, <1>2, <2>2
    <2>5. /\ socket' \in {"open", "closing", "closed"} /\ disconnected' \in BOOLEAN
      BY <2>2
    <2>6. QED
      BY <1>1, <2>3, <2>4, <2>5
  <1>4. Before' /\ During'
    BY <1>1 DEF Inv, Before, During
  <1>5. Kept'
    <2>1. SUFFICES ASSUME phase = "opening", ~disconnected'
                   PROVE  /\ Len(pendingInput') = Len(received')
                          /\ \A i \in 1..Len(received') : pendingInput'[i] = i
      BY <1>1 DEF Kept
    <2>2. ~disconnected /\ pendingInput' = Append(pendingInput, Len(received'))
      BY <1>1, <2>1 DEF Keep, Inv, TypeOK
    <2>3. /\ Len(pendingInput) = Len(received)
          /\ \A i \in 1..Len(received) : pendingInput[i] = i
      BY <2>1, <2>2 DEF Inv, Kept
    <2>4. /\ Len(received') = Len(received) + 1 /\ Len(received) \in Nat
          /\ pendingInput \in Seq(Nat)
      BY <1>1 DEF Inv, TypeOK
    <2>5. QED
      BY <2>2, <2>3, <2>4
  <1>6. Ends'
    BY <1>1 DEF Keep, Inv, Ends, Before, Live, TypeOK, NoSession
  <1>7. OutputIsComplete'
    BY <1>1 DEF Inv, OutputIsComplete, Live
  <1>8. QED
    BY <1>3, <1>4, <1>5, <1>6, <1>7 DEF Inv

\* A frame arrives while there is one.
LEMMA HandleStep ==
  ASSUME Inv, NEW m \in Frames, Receive(m), phase = "open"
  PROVE  Inv'
  <1>1. /\ received' = Append(received, m)
        /\ End(Handled(session, m, Len(received')))
        /\ UNCHANGED <<phase, disconnected, pendingInput, pendingBytes,
                       windowSize, delivered, produced>>
    BY DEF Receive
  <1>2. /\ received \in Seq(Frames) /\ received' \in Seq(Frames)
        /\ Len(received') = Len(received) + 1
    BY <1>1 DEF Inv, TypeOK
  <1>3. Follows(Handled(session, m, Len(received')), windowSize, received')
    BY <1>1, <1>2, HandledFollows DEF Inv, During
  <1>4. ~Handled(session, m, Len(received')).closed => ~session.closed
    BY DEF Handled
  <1>5. produced' \in 0..MaxProduced /\ produced' = produced
    BY <1>1 DEF Inv, TypeOK
  <1>6. QED
    BY <1>1, <1>2, <1>3, <1>4, <1>5, EndStep

\* The session ends, for whatever reason.
LEMMA EndsStep ==
  ASSUME Inv, phase = "open", End(Closed(session)), produced' \in 0..MaxProduced,
         UNCHANGED <<phase, disconnected, pendingInput, pendingBytes, windowSize,
                     received, delivered>>
  PROVE  Inv'
  <1>1. received \in Seq(Frames) /\ session \in SessionType
    BY DEF Inv, TypeOK
  <1>2. Closed(session).closed
    BY <1>1 DEF Closed, SessionType
  <1>3. Follows(Closed(session), windowSize, received)
    BY <1>1, <1>2 DEF Inv, During, Follows, Closed, SessionType
  <1>4. QED
    BY <1>1, <1>2, <1>3, EndStep

LEMMA CloseBeginsStep == ASSUME Inv, CloseBegins PROVE Inv'
  <1> USE DEF CloseBegins, Inv
  <1>1. TypeOK'
    BY DEF TypeOK
  <1>2. Before' /\ Kept' /\ During'
    BY DEF Before, Kept, During
  <1>3. Ends' /\ OutputIsComplete'
    BY DEF Ends, OutputIsComplete, Live
  <1>4. QED
    BY <1>1, <1>2, <1>3

LEMMA CloseEventStep == ASSUME Inv, CloseEvent PROVE Inv'
  <1>1. CASE phase = "open"
    <2>1. received \in Seq(Frames) /\ session \in SessionType
      BY DEF Inv, TypeOK
    <2>2. session' = Closed(session) /\ session'.closed
      BY <1>1, <2>1 DEF CloseEvent, Closed, SessionType
    <2>3. Follows(session', windowSize', received')
      BY <1>1, <2>1, <2>2 DEF CloseEvent, Inv, During, Follows, Closed, SessionType
    <2>4. TypeOK'
      BY <1>1, <2>3 DEF CloseEvent, Inv, TypeOK, Follows
    <2>5. Before' /\ Kept' /\ During'
      BY <1>1, <2>3 DEF CloseEvent, Before, Kept, During
    <2>6. Ends' /\ OutputIsComplete'
      BY <1>1, <2>2 DEF CloseEvent, Inv, Ends, OutputIsComplete, Live
    <2>7. QED
      BY <2>4, <2>5, <2>6 DEF Inv
  <1>2. CASE phase # "open"
    <2> USE <1>2 DEF CloseEvent, Inv
    <2>1. TypeOK'
      BY DEF TypeOK
    <2>2. Before' /\ Kept' /\ During'
      BY DEF Before, Kept, During
    <2>3. Ends' /\ OutputIsComplete'
      BY DEF Ends, OutputIsComplete, Live, Before, NoSession
    <2>4. QED
      BY <2>1, <2>2, <2>3
  <1>3. QED
    BY <1>1, <1>2

\* The shell is there: what was kept is replayed, or the shell is let go.
LEMMA OpenSucceedsStep == ASSUME Inv, OpenSucceeds PROVE Inv'
  <1>1. /\ phase = "opening" /\ session = NoSession /\ windowSize = None
        /\ delivered = <<>> /\ produced = 0
        /\ UNCHANGED <<disconnected, pendingBytes, windowSize, received, produced>>
    BY DEF OpenSucceeds, Inv, Before
  <1>2. TypeOK
    BY DEF Inv
  <1>3. CASE StillWanted
    <2> DEFINE s == Replayed(Armed(session))
    <2>1. /\ phase' = "open" /\ session' = s /\ pendingInput' = <<>>
          /\ shell' = IF s.closed THEN "dead" ELSE "alive"
          /\ socket' = IF s.closed /\ socket = "open" THEN "closing" ELSE socket
          /\ delivered' = Sent(Ready)
      BY <1>3 DEF OpenSucceeds
    <2>2. /\ ~disconnected /\ received \in Seq(Frames)
          /\ Len(pendingInput) = Len(received)
          /\ \A i \in 1..Len(received) : pendingInput[i] = i
      BY <1>1, <1>2, <1>3 DEF StillWanted, Inv, Kept, TypeOK
    <2>3. Follows(s, None, received)
      BY <1>1, <2>2, ArmedFollows, ReplayedFollows
    <2> HIDE DEF s
    <2>4. s \in SessionType
      BY <2>3 DEF Follows
    <2>5. /\ delivered' \in {<<>>, <<0>>}
          /\ socket = "open" => delivered' = <<0>>
      BY <1>1, <2>1 DEF Sent, Ready
    <2>6. TypeOK'
      <3>1. <<>> \in Seq(Nat) /\ Len(<<>>) = 0 /\ 0 <= MaxPending
        BY LimitsAssumption
      <3>2. delivered' \in Seq(0..MaxProduced)
        <4>1. <<>> \in Seq(0..MaxProduced)
          OBVIOUS
        <4>2. 0 \in 0..MaxProduced
          BY LimitsAssumption
        <4>3. <<0>> \in Seq(0..MaxProduced)
          BY <4>2
        <4>4. QED
          BY <2>5, <4>1, <4>3
      <3>3. /\ phase' \in {"opening", "open", "refused"}
            /\ socket' \in {"open", "closing", "closed"}
            /\ shell' \in {"none", "alive", "dead"}
        BY <1>2, <2>1 DEF TypeOK
      <3>4. QED
        BY <1>1, <1>2, <2>1, <2>4, <3>1, <3>2, <3>3 DEF TypeOK
    <2>7. Before' /\ Kept' /\ During'
      BY <1>1, <2>1, <2>3 DEF Before, Kept, During
    <2>8. Ends'
      BY <1>1, <2>1, <2>2, <2>4 DEF Ends, Live, SessionType, Inv
    <2>9. OutputIsComplete'
      BY <1>1, <2>1, <2>5 DEF OutputIsComplete, Live
    <2>10. QED
      BY <2>6, <2>7, <2>8, <2>9 DEF Inv
  <1>4. CASE ~StillWanted
    <2>1. /\ phase' = "refused" /\ shell' = "dead"
          /\ UNCHANGED <<socket, session, pendingInput, delivered>>
      BY <1>4 DEF OpenSucceeds
    <2>2. TypeOK'
      BY <1>1, <1>2, <2>1 DEF TypeOK
    <2>3. Before' /\ Kept' /\ During'
      BY <1>1, <2>1 DEF Before, Kept, During
    <2>4. Ends' /\ OutputIsComplete'
      BY <1>1, <2>1 DEF Inv, Ends, OutputIsComplete, Live, NoSession
    <2>5. QED
      BY <2>2, <2>3, <2>4 DEF Inv
  <1>5. QED
    BY <1>3, <1>4

LEMMA OpenFailsStep == ASSUME Inv, OpenFails PROVE Inv'
  <1> USE DEF OpenFails, Inv
  <1>1. TypeOK'
    BY DEF TypeOK
  <1>2. Before' /\ Kept' /\ During'
    BY DEF Before, Kept, During
  <1>3. Ends' /\ OutputIsComplete'
    BY DEF Ends, OutputIsComplete, Live, Before, NoSession
  <1>4. QED
    BY <1>1, <1>2, <1>3

\* A chunk of the shell reaches the browser behind the others.
LEMMA OutputStep ==
  ASSUME Inv, NEW bytes \in Chunks, Output(bytes)
  PROVE  Inv'
  <1>1. /\ phase = "open" /\ shell = "alive" /\ produced' = produced + 1
        /\ UNCHANGED <<phase, disconnected, pendingInput, pendingBytes,
                       windowSize, received>>
    BY DEF Output
  <1>2. produced' \in 0..MaxProduced
    BY LimitsAssumption DEF Output, Inv, TypeOK
  <1>3. CASE session.buffered + bytes > MaxBuffered
    <2>1. End(Closed(session)) /\ UNCHANGED delivered
      BY <1>3 DEF Output, TooMuch
    <2>2. QED
      BY <1>1, <1>2, <2>1, EndsStep
  <1>4. CASE ~(session.buffered + bytes > MaxBuffered)
    <2> DEFINE n == session.buffered + bytes
    <2>1. /\ session' = [session EXCEPT !.buffered = n]
          /\ delivered' = Sent(produced')
          /\ UNCHANGED <<shell, socket>>
      BY <1>4 DEF Output
    <2>2. n \in 0..MaxBuffered
      <3>1. session.buffered \in Nat /\ bytes \in Nat /\ MaxBuffered \in Nat
        BY ChunksAssumption, LimitsAssumption DEF Inv, TypeOK, SessionType
      <3>2. QED
        BY <1>4, <3>1
    <2> HIDE DEF n
    <2>3. Follows(session', windowSize', received')
      BY <1>1, <2>1, <2>2, BuffersFollow DEF Inv, During, TypeOK
    <2>4. Live /\ session'.closed = session.closed
      BY <1>1, <2>1 DEF Inv, Ends, TypeOK, SessionType
    <2>5. delivered \in Seq(0..MaxProduced) /\ produced \in Nat
      BY DEF Inv, TypeOK
    <2>6. delivered' \in Seq(0..MaxProduced) /\ OutputIsComplete'
      <3>1. CASE socket = "open"
        <4>1. delivered' = Append(delivered, produced + 1)
          BY <1>1, <2>1, <3>1 DEF Sent
        <4>2. /\ Len(delivered) = produced + 1
              /\ \A k \in DOMAIN delivered : delivered[k] = k - 1
          BY <2>4, <3>1 DEF Inv, OutputIsComplete
        <4>3. /\ delivered' \in Seq(0..MaxProduced)
              /\ Len(delivered') = produced' + 1
          BY <1>1, <1>2, <2>5, <4>1, <4>2
        <4>4. \A k \in DOMAIN delivered' : delivered'[k] = k - 1
          BY <2>5, <4>1, <4>2
        <4>5. QED
          BY <4>3, <4>4 DEF OutputIsComplete
      <3>2. CASE socket # "open"
        BY <2>1, <2>5, <3>2 DEF Sent, Inv, OutputIsComplete
      <3>3. QED
        BY <3>1, <3>2
    <2>7. TypeOK'
      BY <1>1, <1>2, <2>1, <2>3, <2>6 DEF Inv, TypeOK, Follows
    <2>8. Before' /\ Kept' /\ During'
      BY <1>1, <2>3 DEF Before, Kept, During
    <2>9. Ends'
      BY <1>1, <2>1, <2>4 DEF Inv, Ends, Live
    <2>10. QED
      BY <2>6, <2>7, <2>8, <2>9 DEF Inv
  <1>5. QED
    BY <1>3, <1>4

LEMMA EndsSessionStep == ASSUME Inv, EndsSession PROVE Inv'
  BY EndsStep DEF EndsSession, Inv, TypeOK

\* There is a resize, a buffer to drain or one to read only in a session.
LEMMA InSession ==
  ASSUME Inv, session.resizing # None \/ session.buffered > 0 \/ session.writable > 0
  PROVE  /\ phase = "open" /\ Follows(session, windowSize, received)
         /\ received \in Seq(Frames) /\ produced \in 0..MaxProduced
         /\ session \in SessionType /\ windowSize \in Sizes \cup {None}
  BY DEF Inv, TypeOK, Before, During, NoSession

\* Docker answers a resize: the window has the size, and the next one follows.
LEMMA ResizeDoneStep == ASSUME Inv, ResizeDone PROVE Inv'
  <1>1. /\ session.resizing # None /\ windowSize' = session.resizing
        /\ session' = [session EXCEPT
              !.resizing = IF session.closed THEN None ELSE session.pendingResize,
              !.pendingResize = None]
        /\ UNCHANGED <<phase, socket, disconnected, pendingInput, pendingBytes,
                       shell, received, delivered, produced>>
    BY DEF ResizeDone
  <1>2. /\ phase = "open" /\ Follows(session, windowSize, received)
        /\ received \in Seq(Frames) /\ produced \in 0..MaxProduced
        /\ session \in SessionType
    BY <1>1, InSession
  <1>3. /\ session' \in SessionType /\ windowSize' \in Sizes \cup {None}
        /\ session'.pendingResize = None /\ session'.closed = session.closed
        /\ session'.idleTimer = session.idleTimer
        /\ session'.sessionTimer = session.sessionTimer
        /\ session'.written = session.written
        /\ ~session.closed => session'.resizing = session.pendingResize
    BY <1>1, <1>2 DEF SessionType
  <1>4. ~session.closed => Wanted(session', windowSize') = Wanted(session, windowSize)
    BY <1>1, <1>3 DEF Wanted
  <1>5. Follows(session', windowSize', received')
    BY <1>1, <1>2, <1>3, <1>4 DEF Follows
  <1>6. session.closed => shell = "dead" /\ socket # "open"
    BY DEF Inv, Ends
  <1>7. QED
    BY <1>1, <1>2, <1>3, <1>5, <1>6, SessionStep

LEMMA ResizeFailsStep == ASSUME Inv, ResizeFails PROVE Inv'
  <1> DEFINE s == [Closed(session) EXCEPT !.resizing = None, !.pendingResize = None]
  <1>1. /\ session.resizing # None /\ End(s)
        /\ UNCHANGED <<phase, disconnected, pendingInput, pendingBytes, windowSize,
                       received, delivered, produced>>
    BY DEF ResizeFails
  <1>2. /\ phase = "open" /\ Follows(session, windowSize, received)
        /\ received \in Seq(Frames) /\ produced \in 0..MaxProduced
        /\ session \in SessionType
    BY <1>1, InSession
  <1>3. /\ s \in SessionType /\ s.closed /\ ~s.idleTimer /\ ~s.sessionTimer
        /\ s.written = session.written
    BY <1>2 DEF SessionType, Closed
  <1> HIDE DEF s
  <1>4. Follows(s, windowSize, received')
    BY <1>1, <1>2, <1>3 DEF Follows
  <1>5. QED
    BY <1>1, <1>2, <1>3, <1>4, EndStep

LEMMA BufferStep == ASSUME Inv, Drain \/ ShellReads PROVE Inv'
  <1>1. /\ session' = [session EXCEPT !.buffered = 0]
           \/ session' = [session EXCEPT !.writable = 0]
        /\ session.buffered > 0 \/ session.writable > 0
        /\ UNCHANGED <<phase, socket, disconnected, pendingInput, pendingBytes,
                       shell, windowSize, received, delivered, produced>>
    BY DEF Drain, ShellReads
  <1>2. /\ phase = "open" /\ Follows(session, windowSize, received)
        /\ received \in Seq(Frames) /\ produced \in 0..MaxProduced
        /\ session \in SessionType /\ windowSize \in Sizes \cup {None}
    BY <1>1, InSession
  <1>3. 0 \in 0..MaxBuffered
    BY LimitsAssumption
  <1>b. /\ Follows([session EXCEPT !.buffered = 0], windowSize, received)
        /\ Follows([session EXCEPT !.writable = 0], windowSize, received)
    BY <1>2, <1>3, BuffersFollow
  <1>4. Follows(session', windowSize', received')
    BY <1>1, <1>b
  <1>c. session'.closed = session.closed
    BY <1>1, <1>2 DEF SessionType
  <1>5. session.closed => shell = "dead" /\ socket # "open"
    BY DEF Inv, Ends
  <1>6. QED
    BY <1>1, <1>2, <1>4, <1>c, <1>5, SessionStep

LEMMA NextInv == Inv /\ [Next]_vars => Inv'
  <1> SUFFICES ASSUME Inv, [Next]_vars PROVE Inv'
    OBVIOUS
  <1>1. ASSUME NEW m \in Frames, Receive(m) PROVE Inv'
    BY <1>1, KeepStep, HandleStep
  <1>2. ASSUME NEW bytes \in Chunks, Output(bytes) PROVE Inv'
    BY <1>2, OutputStep
  <1>3. CASE CloseBegins \/ CloseEvent
    BY <1>3, CloseBeginsStep, CloseEventStep
  <1>4. CASE OpenSucceeds \/ OpenFails
    BY <1>4, OpenSucceedsStep, OpenFailsStep
  <1>5. CASE StreamEnds \/ IdleTimeout \/ SessionTimeout
    BY <1>5, EndsSessionStep DEF StreamEnds, IdleTimeout, SessionTimeout
  <1>6. CASE ResizeDone \/ ResizeFails
    BY <1>6, ResizeDoneStep, ResizeFailsStep
  <1>7. CASE Drain \/ ShellReads
    BY <1>7, BufferStep
  <1>8. CASE UNCHANGED vars
    BY <1>8 DEF vars, Inv, TypeOK, Before, Kept, During, Ends, OutputIsComplete, Live
  <1>9. QED
    BY <1>1, <1>2, <1>3, <1>4, <1>5, <1>6, <1>7, <1>8 DEF Next

-----------------------------------------------------------------------------
(* What follows.                                                           *)

\* The invariant of every reachable state.
THEOREM InvHolds == Spec => []Inv
  BY InitInv, NextInv, PTL DEF Spec

\* The buffers towards browser and shell, and what is kept for the shell, stay
\* within the limits of the code.
THEOREM TypeCorrect == Spec => []TypeOK
  <1>1. Inv => TypeOK
    BY DEF Inv
  <1>2. QED
    BY <1>1, InvHolds, PTL

\* Keys, output and window sizes reach the other side whole and in order, the
\* keys that were typed before there was a shell too: receiveInput and its
\* replay after the await, and queueResize.
THEOREM NothingIsLostHolds == Spec => []NothingIsLost
  <1>1. Inv => NothingIsLost
    <2> SUFFICES ASSUME Inv PROVE NothingIsLost
      OBVIOUS
    <2>1. InputIsComplete
      <3>1. CASE phase = "open"
        BY <3>1 DEF Inv, During, Follows, InOrder, InputIsComplete, Live
      <3>2. CASE phase # "open"
        <4>1. session.written = <<>> /\ ~Live
          BY <3>2 DEF Inv, Before, NoSession, Live
        <4>2. Len(received) \in Nat /\ \A i \in Those("input", received) : ~(i <= 0)
          BY DEF Inv, TypeOK, Those
        <4>3. Range(<<>>) = {} /\ DOMAIN <<>> = {}
          BY DEF Range
        <4>4. 0 \in 0..Len(received) /\ {} = {i \in Those("input", received) : i <= 0}
          BY <4>2
        <4>5. QED
          BY <4>1, <4>3, <4>4 DEF InputIsComplete
      <3>3. QED
        BY <3>1, <3>2
    <2>2. ResizeSettles
      BY DEF Inv, During, Follows, ResizeSettles, Live, Wanted
    <2>3. QED
      BY <2>1, <2>2 DEF Inv, NothingIsLost
  <1>2. QED
    BY <1>1, InvHolds, PTL

\* closeTerminal ends timers, shell and socket together, and no shell is left
\* to a browser that is gone, not even one that came up too late for it.
THEOREM EndsTogetherHolds == Spec => []EndsTogether
  <1>1. Inv => EndsTogether
    <2> SUFFICES ASSUME Inv PROVE EndsTogether
      OBVIOUS
    <2>1. session.closed => phase = "open"
      BY DEF Inv, Before, NoSession
    <2>2. NoOrphanShell
      BY DEF Inv, Ends, During, Follows, Live, NoOrphanShell
    <2>3. OverIsOver
      BY <2>1 DEF Inv, Ends, During, Follows, OverIsOver
    <2>4. QED
      BY <2>2, <2>3 DEF EndsTogether
  <1>2. QED
    BY <1>1, InvHolds, PTL

-----------------------------------------------------------------------------
(* The tickets: each step preserves TicketInv.                             *)

\* The registry starts empty and satisfies the inductive invariant.
LEMMA TicketInitInv == TicketInit => TicketInv
  <1>1. SUFFICES ASSUME TicketInit PROVE TicketInv
    OBVIOUS
  <1>2. TicketTypeOK
    BY <1>1 DEF TicketInit, TicketTypeOK, NoRecord, StoredSession, IssueRecord
  <1>3. SingleUse /\ NoEarlyLoss /\ StoredAsIssued /\ UnissuedUnused
    BY <1>1 DEF TicketInit, SingleUse, NoEarlyLoss, StoredAsIssued, UnissuedUnused,
                Present
  <1>4. QED
    BY <1>2, <1>3 DEF TicketInv

\* Creating a ticket, with the sweep it starts with, preserves the invariant.
LEMMA CreateInv ==
  ASSUME TicketInv, NEW t \in Tickets, NEW input \in Inputs, Create(t, input)
  PROVE  TicketInv'
  <1>0. /\ Lifetime \in Nat \ {0} /\ NoInput \notin Inputs
        /\ currentTime \in Nat /\ currentTime' = currentTime
    BY LifetimeAssumption, NoInputAssumption DEF TicketInv, TicketTypeOK, Create
  <1> DEFINE entry == [input |-> input, expiresAt |-> currentTime + Lifetime]
             record == [input |-> input, at |-> currentTime]
  <1>1. entry \in StoredSession /\ entry # NoRecord
    BY <1>0 DEF StoredSession, NoRecord
  <1>2. record \in IssueRecord /\ record # NoRecord
    BY <1>0 DEF IssueRecord, NoRecord
  <1>3. Swept \in [Tickets -> StoredSession \cup {NoRecord}]
    BY DEF TicketInv, TicketTypeOK, Swept
  <1>4. \A u \in Tickets :
          /\ sessions'[u] = IF u = t THEN entry ELSE Swept[u]
          /\ issued'[u] = IF u = t THEN record ELSE issued[u]
    BY <1>3 DEF Create, TicketInv, TicketTypeOK
  <1>5. TicketTypeOK'
    BY <1>0, <1>1, <1>2, <1>3 DEF Create, TicketInv, TicketTypeOK
  <1>6. SingleUse' /\ UnissuedUnused'
    BY <1>2, <1>4 DEF Create, TicketInv, SingleUse, UnissuedUnused
  <1>7. NoEarlyLoss'
    <2>1. SUFFICES ASSUME NEW u \in Tickets, issued'[u] # NoRecord,
                          admissions'[u] = 0, currentTime' < Deadline(u)'
                   PROVE  sessions'[u] # NoRecord
      BY DEF NoEarlyLoss, Present
    <2>2. CASE u = t
      BY <2>2, <1>1, <1>4
    <2>3. CASE u # t
      <3>1. issued'[u] = issued[u] /\ sessions'[u] = Swept[u]
        BY <2>3, <1>4
      <3>2. sessions[u] # NoRecord
        BY <2>1, <3>1, <1>0 DEF TicketInv, NoEarlyLoss, Create, Deadline, Present
      <3>3. sessions[u].expiresAt = Deadline(u)
        BY <3>2 DEF TicketInv, StoredAsIssued, Present
      <3>4. ~(sessions[u].expiresAt <= currentTime)
        <4>1. issued[u] \in IssueRecord
          BY <2>1, <3>1 DEF TicketInv, TicketTypeOK
        <4>2. Deadline(u) \in Nat
          BY <4>1, <1>0 DEF Deadline, IssueRecord
        <4>3. currentTime < Deadline(u)
          BY <2>1, <3>1, <1>0 DEF Deadline
        <4>4. QED
          BY <3>3, <4>2, <4>3, <1>0
      <3>5. Swept[u] = sessions[u]
        BY <3>4 DEF Swept, Expired
      <3>6. QED
        BY <3>1, <3>2, <3>5
    <2>4. QED
      BY <2>2, <2>3
  <1>8. StoredAsIssued'
    <2>1. SUFFICES ASSUME NEW u \in Tickets, sessions'[u] # NoRecord
                   PROVE  /\ issued'[u] # NoRecord
                          /\ sessions'[u].input = issued'[u].input
                          /\ sessions'[u].expiresAt = Deadline(u)'
                          /\ admissions'[u] = 0
      BY DEF StoredAsIssued, Present
    <2>2. CASE u = t
      BY <2>2, <1>2, <1>4 DEF Create, TicketInv, UnissuedUnused, Deadline
    <2>3. CASE u # t
      <3>1. issued'[u] = issued[u] /\ sessions'[u] = Swept[u]
        BY <2>3, <1>4
      <3>2. Swept[u] = sessions[u] /\ sessions[u] # NoRecord
        BY <2>1, <3>1 DEF Swept
      <3>3. QED
        BY <3>1, <3>2 DEF Create, TicketInv, StoredAsIssued, Present, Deadline
    <2>4. QED
      BY <2>2, <2>3
  <1>9. QED
    BY <1>5, <1>6, <1>7, <1>8 DEF TicketInv

\* A refused upgrade deletes at most an entry that has expired.
LEMMA RefuseInv ==
  ASSUME TicketInv, NEW c \in Connections, NEW t \in Tickets, Refuse(c, t)
  PROVE  TicketInv'
  <1>1. \A u \in Tickets :
          sessions'[u] = IF u = t THEN NoRecord ELSE sessions[u]
    BY DEF Refuse, TicketInv, TicketTypeOK
  <1>2. TicketTypeOK'
    BY DEF Refuse, TicketInv, TicketTypeOK
  <1>3. SingleUse' /\ UnissuedUnused'
    BY DEF Refuse, TicketInv, SingleUse, UnissuedUnused
  <1>4. NoEarlyLoss'
    <2>1. SUFFICES ASSUME NEW u \in Tickets, issued[u] # NoRecord,
                          admissions[u] = 0, currentTime < Deadline(u)
                   PROVE  sessions'[u] # NoRecord
      BY DEF NoEarlyLoss, Present, Refuse, Deadline
    <2>2. sessions[u] # NoRecord /\ sessions[u].expiresAt = Deadline(u)
      BY <2>1 DEF TicketInv, NoEarlyLoss, StoredAsIssued, Present
    <2>3. issued[u] \in IssueRecord /\ Lifetime \in Nat /\ currentTime \in Nat
      BY <2>1, LifetimeAssumption DEF TicketInv, TicketTypeOK
    <2>4. Deadline(u) \in Nat
      BY <2>3 DEF Deadline, IssueRecord
    <2>5. ~Expired(u)
      BY <2>1, <2>2, <2>3, <2>4 DEF Expired
    <2>6. u # t
      BY <2>2, <2>5 DEF Refuse, Present
    <2>7. QED
      BY <1>1, <2>2, <2>6
  <1>5. StoredAsIssued'
    BY <1>1 DEF Refuse, TicketInv, StoredAsIssued, Present, Deadline
  <1>6. QED
    BY <1>2, <1>3, <1>4, <1>5 DEF TicketInv

\* An admission finds an entry nobody has used and deletes it.
LEMMA AdmitInv ==
  ASSUME TicketInv, NEW c \in Connections, NEW t \in Tickets, Admit(c, t)
  PROVE  TicketInv'
  <1>1. \A u \in Tickets :
          /\ sessions'[u] = IF u = t THEN NoRecord ELSE sessions[u]
          /\ admissions'[u] = IF u = t THEN 1 ELSE admissions[u]
    BY DEF Admit, TicketInv, TicketTypeOK, StoredAsIssued
  <1>2. sessions[t] \in StoredSession /\ issued[t] # NoRecord
    BY DEF Admit, TicketInv, TicketTypeOK, StoredAsIssued, Present
  <1>3. TicketTypeOK'
    BY <1>2 DEF Admit, TicketInv, TicketTypeOK, StoredSession
  <1>4. SingleUse'
    BY <1>1 DEF TicketInv, SingleUse
  <1>5. NoEarlyLoss'
    BY <1>1 DEF Admit, TicketInv, NoEarlyLoss, Present, Deadline
  <1>6. StoredAsIssued' /\ UnissuedUnused'
    BY <1>1, <1>2 DEF Admit, TicketInv, StoredAsIssued, UnissuedUnused, Present,
                      Deadline
  <1>7. QED
    BY <1>3, <1>4, <1>5, <1>6 DEF TicketInv

\* Time and disconnections touch neither the map nor its history.
LEMMA TicketOtherInv ==
  ASSUME TicketInv, Tick \/ (\E c \in Connections : Disconnect(c)) \/ UNCHANGED ticketVars
  PROVE  TicketInv'
  <1>1. CASE Tick
    <2>1. TicketTypeOK'
      BY <1>1 DEF Tick, TicketInv, TicketTypeOK
    <2>2. SingleUse' /\ StoredAsIssued' /\ UnissuedUnused'
      BY <1>1 DEF Tick, TicketInv, SingleUse, StoredAsIssued, UnissuedUnused, Present,
                  Deadline
    <2>3. NoEarlyLoss'
      <3>1. SUFFICES ASSUME NEW u \in Tickets, issued[u] # NoRecord,
                            admissions[u] = 0, currentTime + 1 < Deadline(u)
                     PROVE  Present(u)
        BY <1>1 DEF NoEarlyLoss, Tick, Present, Deadline
      <3>2. issued[u] \in IssueRecord /\ Lifetime \in Nat /\ currentTime \in Nat
        BY <3>1, LifetimeAssumption DEF TicketInv, TicketTypeOK
      <3>3. currentTime < Deadline(u)
        BY <3>1, <3>2 DEF Deadline, IssueRecord
      <3>4. QED
        BY <3>1, <3>3 DEF TicketInv, NoEarlyLoss
    <2>4. QED
      BY <2>1, <2>2, <2>3 DEF TicketInv
  <1>2. CASE \E c \in Connections : Disconnect(c)
    BY <1>2 DEF Disconnect, TicketInv, TicketTypeOK, SingleUse, NoEarlyLoss, StoredAsIssued,
                UnissuedUnused, Present, Deadline
  <1>3. CASE UNCHANGED ticketVars
    BY <1>3 DEF ticketVars, TicketInv, TicketTypeOK, SingleUse, NoEarlyLoss, StoredAsIssued,
                UnissuedUnused, Present, Deadline
  <1>4. QED
    BY <1>1, <1>2, <1>3

\* Every step preserves the invariant.
LEMMA TicketStepInv == TicketInv /\ [TicketNext]_ticketVars => TicketInv'
  <1>1. SUFFICES ASSUME TicketInv, [TicketNext]_ticketVars PROVE TicketInv'
    OBVIOUS
  <1>2. ASSUME NEW t \in Tickets, NEW input \in Inputs, Create(t, input)
        PROVE  TicketInv'
    BY <1>1, <1>2, CreateInv
  <1>3. ASSUME NEW c \in Connections, NEW t \in Tickets,
               Refuse(c, t) \/ Admit(c, t)
        PROVE  TicketInv'
    BY <1>1, <1>3, RefuseInv, AdmitInv
  <1>4. QED
    BY <1>1, <1>2, <1>3, TicketOtherInv DEF TicketNext

\* In every reachable state the registry is well typed, no ticket has let two
\* connections in, no unused ticket is lost before its deadline, and what is
\* stored is what was issued (TerminalSessionService create and consume).
THEOREM TicketInvariance == TicketSpec => []TicketInv
  BY TicketInitInv, TicketStepInv, PTL DEF TicketSpec

\* The registry, the clock and the request objects keep their types.
THEOREM TicketTypesHold == TicketSpec => []TicketTypeOK
  <1>1. TicketInv => TicketTypeOK
    BY DEF TicketInv
  <1>2. QED
    BY <1>1, TicketInvariance, PTL

\* A ticket lets at most one connection in: the consume() of the terminal
\* WebSocket deletes what it reads before any other upgrade can run.
THEOREM TicketsAreSingleUse == TicketSpec => []SingleUse
  <1>1. TicketInv => SingleUse
    BY DEF TicketInv
  <1>2. QED
    BY TicketInvariance, <1>1, PTL

\* An unused ticket is still accepted until its lifetime is over.
THEOREM TicketsAreNotLostEarly == TicketSpec => []NoEarlyLoss
  <1>1. TicketInv => NoEarlyLoss
    BY DEF TicketInv
  <1>2. QED
    BY TicketInvariance, <1>1, PTL

\* Both at once, as the registry is used.
THEOREM TicketsAlwaysHold == TicketSpec => []TicketsHold
BY TicketsAreSingleUse, TicketsAreNotLostEarly, PTL DEF TicketsHold

\* An entry of the map is the one its ticket was issued for, with the deadline
\* create() computed, and has not been handed out: consume() deletes what it
\* reads before it answers.
THEOREM TicketsAreStoredAsIssued == TicketSpec => []StoredAsIssued
  <1>1. TicketInv => StoredAsIssued
    BY DEF TicketInv
  <1>2. QED
    BY <1>1, TicketInvariance, PTL

-----------------------------------------------------------------------------
(* The tickets: each step is one of the one-time ticket, or none.          *)

\* A creation is an Issue that drops what the sweep removed.
LEMMA CreateRefines ==
  ASSUME TicketInv, NEW t \in Tickets, NEW input \in Inputs, Create(t, input)
  PROVE  \E dropped \in SUBSET Tickets : Promise!Issue(t, input, dropped)
  <1> DEFINE expired == {u \in Tickets : Present(u) /\ Expired(u)}
             entry == [input |-> input, expiresAt |-> currentTime + Lifetime]
             record == [input |-> input, at |-> currentTime]
  <1>0. /\ Lifetime \in Nat \ {0} /\ NoInput \notin Inputs
        /\ currentTime \in Nat /\ currentTime' = currentTime
    BY LifetimeAssumption, NoInputAssumption DEF TicketInv, TicketTypeOK, Create
  <1>1. entry # NoRecord /\ record # NoRecord
    BY <1>0 DEF NoRecord
  <1>2. \A u \in Tickets :
          /\ sessions'[u] = IF u = t THEN entry
                            ELSE IF u \in expired THEN NoRecord ELSE sessions[u]
          /\ issued'[u] = IF u = t THEN record ELSE issued[u]
          /\ admissions'[u] = admissions[u]
    BY DEF Create, TicketInv, TicketTypeOK, Swept
  <1>3. Status[t] = "unissued"
    BY DEF Create, Status
  <1>4. \A d \in expired :
          /\ Status[d] = "live"
          /\ issued[d] # NoRecord /\ Deadline(d) <= currentTime
          /\ admissions[d] = 0
    BY DEF Status, TicketInv, StoredAsIssued, Present, Expired
  <1>5. Status' = [u \in Tickets |-> IF u = t THEN "live"
                                     ELSE IF u \in expired THEN "lapsed"
                                     ELSE Status[u]]
    <2>1. ASSUME NEW u \in Tickets
          PROVE  Status'[u] = IF u = t THEN "live"
                              ELSE IF u \in expired THEN "lapsed"
                              ELSE Status[u]
      <3>1. CASE u = t
        BY <3>1, <1>1, <1>2 DEF Status, Present
      <3>2. CASE u # t /\ u \in expired
        BY <3>2, <1>1, <1>2, <1>4 DEF Status, Present
      <3>3. CASE u # t /\ u \notin expired
        BY <3>3, <1>1, <1>2 DEF Status, Present
      <3>4. QED
        BY <3>1, <3>2, <3>3
    <2>2. QED
      BY <2>1 DEF Status
  <1>6. [u \in Tickets |-> issued'[u].input] =
          [[u \in Tickets |-> issued[u].input] EXCEPT ![t] = input]
    <2>1. \A u \in Tickets :
            issued'[u].input = IF u = t THEN input ELSE issued[u].input
      BY <1>2
    <2>2. QED
      BY <2>1, Zenon
  <1>7. [u \in Tickets |->
            IF issued'[u] = NoRecord THEN 0 ELSE issued'[u].at + Lifetime] =
        [[u \in Tickets |->
            IF issued[u] = NoRecord THEN 0 ELSE issued[u].at + Lifetime]
          EXCEPT ![t] = currentTime + Lifetime]
    <2>1. \A u \in Tickets :
            (IF issued'[u] = NoRecord THEN 0 ELSE issued'[u].at + Lifetime) =
            (IF u = t THEN currentTime + Lifetime
             ELSE IF issued[u] = NoRecord THEN 0 ELSE issued[u].at + Lifetime)
      BY <1>1, <1>2
    <2>2. QED
      BY <2>1, Zenon
  <1>8. UNCHANGED <<currentTime, terminalSession>>
    BY DEF Create
  <1>9. Promise!Issue(t, input, expired)
    BY <1>3, <1>4, <1>5, <1>6, <1>7, <1>8 DEF Promise!Issue, Deadline
  <1>10. expired \in SUBSET Tickets
    OBVIOUS
  <1>11. QED
    BY <1>9, <1>10 DEF Promise!Issue

\* A refused upgrade is a Lapse when it deletes an expired entry, and nothing
\* otherwise.
LEMMA RefuseRefines ==
  ASSUME TicketInv, NEW c \in Connections, NEW t \in Tickets, Refuse(c, t)
  PROVE  Promise!Lapse(t) \/ UNCHANGED Promise!aVars
  <1>1. UNCHANGED <<currentTime, terminalSession, issued, admissions>>
    BY DEF Refuse
  <1>2. \A u \in Tickets :
          sessions'[u] = IF u = t THEN NoRecord ELSE sessions[u]
    BY DEF Refuse, TicketInv, TicketTypeOK
  <1>3. CASE ~Present(t)
    <2>1. \A u \in Tickets : Present(u)' <=> Present(u)
      BY <1>2, <1>3 DEF Present
    <2>2. Status' = Status
      BY <1>1, <2>1 DEF Status
    <2>3. QED
      BY <1>1, <2>2 DEF Promise!aVars, Deadline
  <1>4. CASE Present(t) /\ Expired(t)
    <2>1. /\ issued[t] # NoRecord /\ admissions[t] = 0
          /\ Deadline(t) <= currentTime
      BY <1>4 DEF TicketInv, StoredAsIssued, Present, Expired
    <2>2. Status[t] = "live"
      BY <1>4, <2>1 DEF Status
    <2>3. Status' = [Status EXCEPT ![t] = "lapsed"]
      <3>1. ASSUME NEW u \in Tickets
            PROVE  Status'[u] = IF u = t THEN "lapsed" ELSE Status[u]
        BY <1>1, <1>2, <2>1 DEF Status, Present
      <3>2. QED
        BY <3>1 DEF Status
    <2>4. Promise!Lapse(t)
      BY <1>1, <2>1, <2>2, <2>3 DEF Promise!Lapse, Deadline
    <2>5. QED
      BY <2>4
  <1>5. QED
    BY <1>3, <1>4 DEF Refuse

\* An admission is a Spend of the ticket by the connection.
LEMMA AdmitRefines ==
  ASSUME TicketInv, NEW c \in Connections, NEW t \in Tickets, Admit(c, t)
  PROVE  Promise!Spend(c, t)
  <1>1. UNCHANGED <<currentTime, issued>> /\ terminalSession[c] = NoInput
    BY DEF Admit
  <1>2. \A u \in Tickets :
          /\ sessions'[u] = IF u = t THEN NoRecord ELSE sessions[u]
          /\ admissions'[u] = IF u = t THEN 1 ELSE admissions[u]
    BY DEF Admit, TicketInv, TicketTypeOK, StoredAsIssued
  <1>3. /\ issued[t] # NoRecord /\ sessions[t] \in StoredSession
        /\ sessions[t].input = issued[t].input
        /\ sessions[t].expiresAt = Deadline(t)
    BY DEF Admit, TicketInv, TicketTypeOK, StoredAsIssued, Present
  <1>4. currentTime < Deadline(t)
    BY <1>3 DEF Admit, Expired, StoredSession, TicketInv, TicketTypeOK
  <1>5. Status[t] = "live"
    BY <1>3 DEF Status, Admit
  <1>6. Status' = [Status EXCEPT ![t] = "spent"]
    <2>1. ASSUME NEW u \in Tickets
          PROVE  Status'[u] = IF u = t THEN "spent" ELSE Status[u]
      BY <1>1, <1>2, <1>3 DEF Status, Present
    <2>2. QED
      BY <2>1 DEF Status
  <1>7. terminalSession' = [terminalSession EXCEPT ![c] = issued[t].input]
    BY <1>3 DEF Admit
  <1>8. QED
    BY <1>1, <1>3, <1>4, <1>5, <1>6, <1>7 DEF Promise!Spend, Deadline

\* Every step of the registry is a step of the one-time ticket or a stutter.
LEMMA StepRefines ==
  TicketInv /\ [TicketNext]_ticketVars => [Promise!AbsNext]_(Promise!aVars)
  <1>1. SUFFICES ASSUME TicketInv, [TicketNext]_ticketVars
                 PROVE  Promise!AbsNext \/ UNCHANGED Promise!aVars
    OBVIOUS
  <1>2. CASE Tick
    <2>1. Promise!Pass
      BY <1>2 DEF Tick, Promise!Pass, Status, Present, Deadline
    <2>2. QED
      BY <2>1 DEF Promise!AbsNext
  <1>3. ASSUME NEW t \in Tickets, NEW input \in Inputs, Create(t, input)
        PROVE  Promise!AbsNext
    BY <1>1, <1>3, CreateRefines DEF Promise!AbsNext
  <1>4. ASSUME NEW c \in Connections, NEW t \in Tickets, Refuse(c, t)
        PROVE  Promise!AbsNext \/ UNCHANGED Promise!aVars
    BY <1>1, <1>4, RefuseRefines DEF Promise!AbsNext
  <1>5. ASSUME NEW c \in Connections, NEW t \in Tickets, Admit(c, t)
        PROVE  Promise!AbsNext
    BY <1>1, <1>5, AdmitRefines DEF Promise!AbsNext
  <1>6. ASSUME NEW c \in Connections, Disconnect(c)
        PROVE  Promise!AbsNext
    <2>1. Promise!Release(c)
      BY <1>6 DEF Disconnect, Promise!Release, Status, Present, Deadline
    <2>2. QED
      BY <2>1 DEF Promise!AbsNext
  <1>7. CASE UNCHANGED ticketVars
    BY <1>7 DEF ticketVars, Promise!aVars, Status, Present, Deadline
  <1>8. QED
    BY <1>1, <1>2, <1>3, <1>4, <1>5, <1>6, <1>7 DEF TicketNext

\* The registry implements the one-time ticket: whatever the interleaving of
\* creations, sweeps and upgrades, a connection gets the session its ticket
\* was issued for, once, before the deadline, and only expired tickets are
\* thrown away.
THEOREM Refinement == TicketSpec => ImplementsOneTimeTicket
  <1>1. TicketInit => Promise!AbsInit
    <2>1. SUFFICES ASSUME TicketInit PROVE Promise!AbsInit
      OBVIOUS
    <2>2. /\ Status = [t \in Tickets |-> "unissued"]
          /\ [t \in Tickets |-> issued[t].input] = [t \in Tickets |-> NoInput]
          /\ [t \in Tickets |-> IF issued[t] = NoRecord THEN 0
                                 ELSE issued[t].at + Lifetime] =
             [t \in Tickets |-> 0]
      BY <2>1 DEF TicketInit, Status, NoRecord
    <2>3. QED
      BY <2>1, <2>2 DEF TicketInit, Promise!AbsInit, Deadline
  <1>2. QED
    BY <1>1, StepRefines, TicketInvariance, PTL
       DEF TicketSpec, ImplementsOneTimeTicket, Promise!AbsSpec

==============================================================================

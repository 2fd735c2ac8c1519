-------------------------- MODULE SendBufferProofs --------------------------
(***************************************************************************)
(* Proofs about SendBuffer: flushes stay within their lists, no flush      *)
(* hands a message over twice, and, with one caller of connect() at a      *)
(* time, the buffer is the queue that Outbox specifies.                    *)
(***************************************************************************)
EXTENDS SendBuffer, SequenceTheorems, FiniteSetTheorems, WellFoundedInduction, TLAPS

States == {"unborn", "open", "closed", "lost"}
Opened == Conns \ Unborn

(* The calls a caller is in: all but the innermost are in a flush, and one *)
(* that flushes had a try left when it connected.                          *)
Stack(cs) ==
  /\ cs \in Seq(Calls)
  /\ \A i \in DOMAIN cs :
       /\ OnItsList(cs[i])
       /\ cs[i].list # 0 => cs[i].tries < MaxRetries
       /\ i < Len(cs) => cs[i].list # 0

ListsTyped ==
  /\ lists \in Seq(Seq(Messages)) /\ lists # <<>>
  /\ \A i \in DOMAIN lists : IsInjective(lists[i])

HistoryTyped ==
  /\ handed \in Seq(Messages) /\ IsInjective(handed)
  /\ given \in [Messages \X Conns -> Nat]

WellTyped ==
  /\ ws \in 0..MaxConns
  /\ conn \in [Conns -> States]
  /\ listening \in {"no", "waiting", "connecting"}
  /\ DOMAIN calls = Callers /\ calls = [p \in Callers |-> calls[p]]
  /\ \A p \in Callers : Stack(calls[p])
  /\ ListsTyped
  /\ HistoryTyped
  /\ failures \in 0..MaxFailures

(* Connections are opened one after the other.                             *)
InOrder == \E k \in 0..MaxConns : Opened = 1..k

Flushes(p, i) == i \in DOMAIN calls[p] /\ calls[p][i].list # 0

(* What the flush that began on the connection c has handed over, and what *)
(* a flush has come to.                                                    *)
Gave(c) == {m \in Messages : given[<<m, c>>] # 0}

Come(call) == {lists[call.list][x] : x \in 1..call.pos}

(* Every flush began on a connection of its own, and handed over only      *)
(* messages up to the one it is at: what comes next in its list, nothing   *)
(* it handed over.                                                         *)
OnItsConnection ==
  \A p \in Callers : \A i \in DOMAIN calls[p] :
    Flushes(p, i) =>
      /\ calls[p][i].since \in Opened
      /\ Gave(calls[p][i].since) \subseteq Come(calls[p][i])

OneFlushEach ==
  \A p, q \in Callers : \A i \in DOMAIN calls[p], j \in DOMAIN calls[q] :
    Flushes(p, i) /\ Flushes(q, j) /\ calls[p][i].since = calls[q][j].since =>
      p = q /\ i = j

EachOnce ==
  /\ RepeatsNeedReconnect
  /\ \A c \in Conns \ Opened : Gave(c) = {}
  /\ OnItsConnection
  /\ OneFlushEach

Inv ==
  /\ WellTyped
  /\ InOrder
  /\ listening # "no" => Opened # {}
  /\ EachOnce

-----------------------------------------------------------------------------
(* With one caller.                                                        *)
OneCaller == \A p, q \in Callers : p = q

Done == ToSet(handed)

(* The connection in use is the newest one, and the listening task         *)
(* reconnects only while the newest one is lost.                           *)
Newest(c) == c \in Opened /\ \A d \in Opened : d <= c

NewestIsUsed ==
  /\ ws # 0 => Newest(ws)
  /\ listening = "connecting" => \E c \in Opened : Newest(c) /\ conn[c] = "lost"

(* Every list but the current one was handed over; of the current one, the *)
(* first h messages were.                                                  *)
OldListsAreDone ==
  \A i \in DOMAIN lists : i < Len(lists) => ToSet(lists[i]) \subseteq Done

DoneUpTo(h) ==
  /\ h \in 0..Len(sendBuffer)
  /\ \A x \in 1..Len(sendBuffer) : sendBuffer[x] \in Done <=> x <= h

DoneFirst == \E h \in 0..Len(sendBuffer) : DoneUpTo(h)

(* A flush whose connection is not lost runs on the connection in use, and *)
(* has come to at least what was handed over, if it runs on the current    *)
(* list; else nothing is left.                                             *)
NothingSkipped ==
  \A p \in Callers :
    Flushing(p) /\ conn[Last(calls[p]).on] # "lost" =>
      /\ ws = Last(calls[p]).on
      /\ \A x \in DOMAIN sendBuffer :
           sendBuffer[x] \notin Done =>
             Last(calls[p]).list = Len(lists) /\ x > Last(calls[p]).pos

(* What was handed over was accepted.                                      *)
DoneWasAccepted ==
  \A m \in Done : \E i \in DOMAIN lists : m \in ToSet(lists[i])

OutboxInv ==
  /\ NewestIsUsed /\ OldListsAreDone /\ DoneFirst /\ NothingSkipped
  /\ DoneWasAccepted

(* A step of the outbox, or none.                                          *)
OutboxStep == [TheOutbox!Next]_(TheOutbox!vars)

-----------------------------------------------------------------------------
(* Numbers.  Induction is over sets: the least element of those where a    *)
(* claim fails.                                                            *)
LEMMA Least ==
  ASSUME NEW T, T \subseteq Nat, T # {}
  PROVE  \E x \in T : \A y \in T : x <= y
<1> DEFINE R == OpToRel(<, Nat)
<1>1. IsWellFoundedOn(R, Nat)
  BY NatLessThanWellFounded
<1>2. \A x, y \in Nat : x < y => <<x, y>> \in R
  BY DEF OpToRel
<1> HIDE DEF R
<1>3. PICK x \in T : \A y \in T : ~ (<<y, x>> \in R)
  BY <1>1, WFMin
<1>4. ASSUME NEW y \in T  PROVE x <= y
  <2>1. x \in Nat /\ y \in Nat
    OBVIOUS
  <2>2. ~(y < x)
    BY <1>2, <1>3, <2>1
  <2> QED
    BY <2>1, <2>2
<1> QED
  BY <1>4

LEMMA UpTo ==
  ASSUME NEW n \in Nat, NEW G, 0 \in G, \A i \in 1..n : i - 1 \in G => i \in G
  PROVE  0..n \subseteq G
<1> DEFINE Bad == {i \in 0..n : i \notin G}
<1> SUFFICES ASSUME Bad # {}  PROVE FALSE
  OBVIOUS
<1>0. Bad \subseteq Nat
  OBVIOUS
<1>1. PICK b \in Bad : \A y \in Bad : b <= y
  <2> HIDE DEF Bad
  <2> QED
    BY <1>0, Least
<1>2. b # 0 /\ b \in 1..n
  OBVIOUS
<1>3. b - 1 \notin Bad /\ b - 1 \in 0..n
  BY <1>1, <1>2
<1> QED
  BY <1>2, <1>3

LEMMA MinIsLeast ==
  ASSUME NEW T, T \subseteq Nat, T # {}
  PROVE  Min(T) \in T /\ \A y \in T : Min(T) <= y
BY Least DEF Min

LEMMA MaxIsGreatest ==
  ASSUME NEW n \in Nat, NEW T, T \subseteq 1..n, T # {}
  PROVE  Max(T) \in T /\ \A y \in T : y <= Max(T)
<1> DEFINE U == {n - y : y \in T}
<1>1. U \subseteq Nat /\ U # {}
  OBVIOUS
<1>2. PICK u \in U : \A v \in U : u <= v
  BY <1>1, Least
<1>3. PICK x \in T : u = n - x
  OBVIOUS
<1>4. ASSUME NEW y \in T  PROVE y <= x
  <2>1. n - y \in U
    OBVIOUS
  <2>2. n - x <= n - y
    BY <1>2, <1>3, <2>1
  <2> QED
    BY <2>2
<1>5. \E z \in T : \A y \in T : z >= y
  BY <1>4
<1> QED
  BY <1>5 DEF Max

-----------------------------------------------------------------------------
(* The recursion of Unsent has a solution.                                 *)
Keeps(kept, S, ms, done) ==
  /\ kept \in [0..Len(ms) -> Seq(S)]
  /\ kept[0] = <<>>
  /\ \A i \in 1..Len(ms) :
       kept[i] = IF ms[i] \in done THEN kept[i - 1] ELSE Append(kept[i - 1], ms[i])
  /\ Unsent(ms, done) = kept[Len(ms)]

LEMMA UnsentRuns ==
  ASSUME NEW S, NEW ms \in Seq(S), NEW done
  PROVE  \E kept : Keeps(kept, S, ms, done)
<1> DEFINE n == Len(ms)
           Solves(f, m) ==
             /\ f \in [0..m -> Seq(S)] /\ f[0] = <<>>
             /\ \A i \in 1..m :
                  f[i] = IF ms[i] \in done THEN f[i - 1] ELSE Append(f[i - 1], ms[i])
           G == {m \in 0..n : \E f : Solves(f, m)}
<1>1. n \in Nat
  OBVIOUS
<1>2. 0 \in G
  <2>1. <<>> \in Seq(S)
    OBVIOUS
  <2>2. Solves([i \in 0..0 |-> <<>>], 0)
    BY <2>1
  <2>3. \E f : Solves(f, 0)
    BY <2>2
  <2>4. 0 \in 0..n
    BY <1>1
  <2> HIDE DEF Solves
  <2> QED
    BY <2>3, <2>4
<1>3. ASSUME NEW m \in 1..n, m - 1 \in G
      PROVE  m \in G
  <2>1. PICK f : Solves(f, m - 1)
    BY <1>3
  <2> DEFINE last == IF ms[m] \in done THEN f[m - 1] ELSE Append(f[m - 1], ms[m])
             g == [i \in 0..m |-> IF i = m THEN last ELSE f[i]]
  <2>2. m - 1 \in 0..(m - 1) /\ 0..m = 0..(m - 1) \cup {m} /\ m \notin 0..(m - 1)
    BY <1>1
  <2>3. f[m - 1] \in Seq(S) /\ ms[m] \in S
    BY <2>1, <2>2
  <2>4. last \in Seq(S)
    BY <2>3, AppendProperties
  <2>5. g[m] = last /\ \A i \in 0..(m - 1) : g[i] = f[i]
    BY <2>2
  <2> HIDE DEF last
  <2>6. g \in [0..m -> Seq(S)]
    BY <2>1, <2>2, <2>4
  <2>7. g[0] = <<>>
    BY <1>1, <2>1, <2>5
  <2> HIDE DEF g
  <2>8. ASSUME NEW i \in 1..m
        PROVE  g[i] = IF ms[i] \in done THEN g[i - 1] ELSE Append(g[i - 1], ms[i])
    <3>1. CASE i = m
      BY <2>2, <2>5, <3>1 DEF last
    <3>2. CASE i # m
      <4>1. i \in 1..(m - 1) /\ i \in 0..(m - 1) /\ i - 1 \in 0..(m - 1)
        BY <3>2
      <4> QED
        BY <2>1, <2>5, <4>1
    <3> QED
      BY <3>1, <3>2
  <2>9. Solves(g, m)
    BY <2>6, <2>7, <2>8
  <2>10. m \in 0..n
    BY <1>1
  <2> HIDE DEF Solves
  <2> QED
    BY <2>9, <2>10
<1>4. n \in G
  <2> HIDE DEF G
  <2>1. 0..n \subseteq G
    BY <1>1, <1>2, <1>3, UpTo
  <2> QED
    BY <1>1, <2>1
<1>5. PICK f : Solves(f, n)
  BY <1>4
<1> DEFINE Step(g) == [i \in 0..Len(ms) |->
             IF i = 0 THEN <<>>
             ELSE IF ms[i] \in done THEN g[i - 1] ELSE Append(g[i - 1], ms[i])]
           kept == CHOOSE g : g = Step(g)
<1>6. f = Step(f)
  <2>1. \A i \in 0..n : i = 0 \/ i \in 1..n
    BY <1>1
  <2>2. \A i \in 0..n : f[i] = Step(f)[i]
    BY <1>5, <2>1
  <2> QED
    BY <1>5, <2>2
<1>7. kept = Step(kept)
  <2> HIDE DEF Step
  <2> QED
    BY <1>6
<1>8. Unsent(ms, done) = kept[n]
  BY DEF Unsent
<1> HIDE DEF kept
<1>9. kept[0] = <<>> /\ \A i \in 1..n :
        kept[i] = IF ms[i] \in done THEN kept[i - 1] ELSE Append(kept[i - 1], ms[i])
  <2>1. 0 \in 0..n /\ \A i \in 1..n : i \in 0..n /\ i # 0
    BY <1>1
  <2> QED
    BY <1>7, <2>1
<1>10. kept \in [0..n -> Seq(S)]
  <2> DEFINE H == {i \in 0..n : kept[i] \in Seq(S)}
  <2>1. 0 \in H
    <3>1. <<>> \in Seq(S) /\ 0 \in 0..n
      BY <1>1
    <3> QED
      BY <1>9, <3>1
  <2>2. ASSUME NEW i \in 1..n, i - 1 \in H  PROVE i \in H
    <3>1. kept[i - 1] \in Seq(S) /\ ms[i] \in S /\ i \in 0..n
      BY <1>1, <2>2
    <3>2. Append(kept[i - 1], ms[i]) \in Seq(S)
      BY <3>1, AppendProperties
    <3> QED
      BY <1>9, <3>1, <3>2
  <2>3. 0..n \subseteq H
    <3> HIDE DEF H
    <3> QED
      BY <1>1, <2>1, <2>2, UpTo
  <2>4. DOMAIN kept = 0..n /\ kept = [i \in 0..n |-> kept[i]]
    BY <1>7
  <2> QED
    BY <2>3, <2>4
<1>11. Keeps(kept, S, ms, done)
  BY <1>8, <1>9, <1>10 DEF Keeps
<1> QED
  BY <1>11

(* It returns the messages of ms that are not done, each once if ms has    *)
(* each once.                                                              *)
LEMMA UnsentType ==
  ASSUME NEW S, NEW ms \in Seq(S), NEW done
  PROVE  /\ Unsent(ms, done) \in Seq(S)
         /\ ToSet(Unsent(ms, done)) = ToSet(ms) \ done
         /\ IsInjective(ms) => IsInjective(Unsent(ms, done))
<1>12. PICK kept : Keeps(kept, S, ms, done)
  BY UnsentRuns
<1>0. PICK n \in Nat : n = Len(ms) /\ DOMAIN ms = 1..n
  OBVIOUS
<1>1. /\ kept \in [0..n -> Seq(S)]
      /\ kept[0] = <<>>
      /\ \A i \in 1..n :
           kept[i] = IF ms[i] \in done THEN kept[i - 1] ELSE Append(kept[i - 1], ms[i])
      /\ Unsent(ms, done) = kept[n]
  BY <1>0, <1>12, Zenon DEF Keeps
<1> DEFINE Comes(s, i) ==
             /\ \A x \in DOMAIN s : \E y \in 1..i : ms[y] = s[x] /\ s[x] \notin done
             /\ \A y \in 1..i : ms[y] \notin done => \E x \in DOMAIN s : s[x] = ms[y]
           Once(s) == IsInjective(ms) => IsInjective(s)
           G == {i \in 0..n : Comes(kept[i], i) /\ Once(kept[i])}
<1>2. n \in Nat /\ DOMAIN ms = 1..n
  BY <1>0
<1>3. 0 \in G
  BY <1>1, <1>2 DEF IsInjective
<1>4. ASSUME NEW i \in 1..n, i - 1 \in G
      PROVE  i \in G
  <2>1. /\ i \in 0..n /\ i - 1 \in 0..n /\ 1..(i - 1) \subseteq 1..i
        /\ kept[i - 1] \in Seq(S) /\ ms[i] \in S
        /\ Comes(kept[i - 1], i - 1) /\ Once(kept[i - 1])
    BY <1>1, <1>2, <1>4
  <2>2. CASE ms[i] \in done
    <3>1. kept[i] = kept[i - 1]
      BY <1>1, <2>2
    <3>2. \A y \in 1..i : y \in 1..(i - 1) \/ y = i
      OBVIOUS
    <3>3. Comes(kept[i], i)
      BY <2>1, <2>2, <3>1, <3>2
    <3> QED
      BY <2>1, <3>1, <3>3
  <2>3. CASE ms[i] \notin done
    <3>1. PICK s \in Seq(S) : s = kept[i - 1]
      BY <2>1
    <3>2. kept[i] = Append(s, ms[i])
      BY <1>1, <2>3, <3>1
    <3>3. PICK k \in Nat : k = Len(s) /\ DOMAIN s = 1..k
      OBVIOUS
    <3>4. /\ DOMAIN kept[i] = 1..(k + 1) /\ kept[i][k + 1] = ms[i]
          /\ \A x \in 1..k : kept[i][x] = s[x]
      BY <2>1, <3>2, <3>3, AppendProperties
    <3>5. \A x \in 1..(k + 1) : x \in 1..k \/ x = k + 1
      BY <3>3
    <3>6. Comes(kept[i], i)
      <4>1. \A x \in 1..k : \E y \in 1..i : ms[y] = s[x] /\ s[x] \notin done
        BY <2>1, <3>1, <3>3
      <4>2. i \in 1..i /\ (\A y \in 1..i : y \in 1..(i - 1) \/ y = i) /\ 1..k \subseteq 1..(k + 1)
        OBVIOUS
      <4>3. \A x \in DOMAIN kept[i] :
              \E y \in 1..i : ms[y] = kept[i][x] /\ kept[i][x] \notin done
        BY <2>3, <3>4, <3>5, <4>1, <4>2
      <4>4. \A y \in 1..(i - 1) : ms[y] \notin done => \E x \in 1..k : s[x] = ms[y]
        BY <2>1, <3>1, <3>3
      <4>5. k + 1 \in 1..(k + 1)
        BY <3>3
      <4>6. \A y \in 1..i : ms[y] \notin done => \E x \in DOMAIN kept[i] : kept[i][x] = ms[y]
        BY <3>4, <4>2, <4>4, <4>5
      <4> QED
        BY <4>3, <4>6
    <3>7. Once(kept[i])
      <4> SUFFICES ASSUME IsInjective(ms)  PROVE IsInjective(kept[i])
        OBVIOUS
      <4>1. \A x \in 1..k : s[x] # ms[i]
        <5>1. \A x \in 1..k : \E y \in 1..(i - 1) : ms[y] = s[x]
          BY <2>1, <3>1, <3>3
        <5>2. \A y \in 1..(i - 1) : y # i /\ y \in 1..n
          BY <1>2
        <5> QED
          BY <1>2, <5>1, <5>2 DEF IsInjective
      <4>2. \A x, y \in 1..k : s[x] = s[y] => x = y
        BY <2>1, <3>1, <3>3 DEF IsInjective
      <4> QED
        BY <3>4, <3>5, <4>1, <4>2 DEF IsInjective
    <3> QED
      BY <2>1, <3>6, <3>7
  <2> QED
    BY <2>2, <2>3
<1>5. n \in G
  <2> HIDE DEF G
  <2>1. 0..n \subseteq G
    BY <1>2, <1>3, <1>4, UpTo
  <2> QED
    BY <1>2, <2>1
<1>6. n \in 0..n
  BY <1>2
<1>7. Comes(kept[n], n) /\ Once(kept[n]) /\ kept[n] \in Seq(S)
  BY <1>1, <1>5, <1>6
<1>8. ToSet(kept[n]) = ToSet(ms) \ done
  <2>1. PICK s : s = kept[n]
    OBVIOUS
  <2>2. /\ \A x \in DOMAIN s : \E y \in 1..n : ms[y] = s[x] /\ s[x] \notin done
        /\ \A y \in 1..n : ms[y] \notin done => \E x \in DOMAIN s : s[x] = ms[y]
    BY <1>7, <2>1
  <2>3. ToSet(s) = {s[x] : x \in DOMAIN s} /\ ToSet(ms) = {ms[y] : y \in 1..n}
    BY <1>2 DEF ToSet
  <2> QED
    BY <2>1, <2>2, <2>3
<1> HIDE DEF Comes
<1> QED
  BY <1>1, <1>7, <1>8

(* If what is done are the first h of ms, it returns the others.           *)
LEMMA UnsentRest ==
  ASSUME NEW S, NEW ms \in Seq(S), NEW done, NEW h \in 0..Len(ms),
         \A x \in 1..Len(ms) : ms[x] \in done <=> x <= h
  PROVE  Unsent(ms, done) = SubSeq(ms, h + 1, Len(ms))
<1> DEFINE n == Len(ms)
           Rest(s, i) == /\ i <= h => s = <<>>
                         /\ i >= h => /\ Len(s) = i - h
                                      /\ \A x \in 1..(i - h) : s[x] = ms[h + x]
<1>12. PICK kept : Keeps(kept, S, ms, done)
  BY UnsentRuns
<1>1. /\ kept \in [0..n -> Seq(S)]
      /\ kept[0] = <<>>
      /\ \A i \in 1..n :
           kept[i] = IF ms[i] \in done THEN kept[i - 1] ELSE Append(kept[i - 1], ms[i])
      /\ Unsent(ms, done) = kept[n]
  BY <1>12, Zenon DEF Keeps
<1> DEFINE G == {i \in 0..n : Rest(kept[i], i)}
<1>2. n \in Nat /\ DOMAIN ms = 1..n /\ h \in Nat /\ h <= n
  OBVIOUS
<1>3. 0 \in G
  BY <1>1, <1>2
<1>4. ASSUME NEW i \in 1..n, i - 1 \in G
      PROVE  i \in G
  <2>1. /\ i \in 0..n /\ i - 1 \in 0..n /\ kept[i - 1] \in Seq(S) /\ ms[i] \in S
        /\ Rest(kept[i - 1], i - 1)
    <3>1. i \in 0..n /\ i - 1 \in 0..n /\ ms[i] \in S
      BY <1>2
    <3>2. kept[i - 1] \in Seq(S)
      BY <1>1, <3>1
    <3>3. Rest(kept[i - 1], i - 1)
      <4> HIDE DEF Rest
      <4> QED
        BY <1>4
    <3> QED
      BY <3>1, <3>2, <3>3
  <2>2. CASE i <= h
    <3>1. kept[i] = <<>>
      BY <1>1, <1>2, <2>1, <2>2
    <3> QED
      BY <1>2, <2>1, <2>2, <3>1
  <2>3. CASE i > h
    <3>1. PICK s \in Seq(S) : s = kept[i - 1]
      BY <2>1
    <3>2. kept[i] = Append(s, ms[i])
      <4>1. ms[i] \notin done
        BY <1>2, <2>3
      <4> QED
        BY <1>1, <3>1, <4>1
    <3>3. Len(s) = (i - 1) - h /\ \A x \in 1..((i - 1) - h) : s[x] = ms[h + x]
      BY <1>2, <2>1, <2>3, <3>1
    <3>4. PICK k \in Nat : k = (i - 1) - h /\ k + 1 = i - h /\ i = h + (k + 1) /\ Len(s) = k
      BY <1>2, <2>3, <3>3
    <3>5. /\ Len(kept[i]) = k + 1 /\ kept[i][k + 1] = ms[i]
          /\ \A x \in 1..k : kept[i][x] = s[x]
      BY <2>1, <3>2, <3>4, AppendProperties
    <3>6. \A x \in 1..(k + 1) : x \in 1..k \/ x = k + 1
      OBVIOUS
    <3>7. \A x \in 1..(k + 1) : kept[i][x] = ms[h + x]
      BY <3>3, <3>4, <3>5, <3>6
    <3>8. ~(i <= h)
      BY <1>2, <2>3
    <3>9. Rest(kept[i], i)
      BY <3>4, <3>5, <3>7, <3>8
    <3> HIDE DEF Rest
    <3> QED
      BY <2>1, <3>9
  <2> QED
    BY <1>2, <2>2, <2>3
<1>5. n \in G
  <2> HIDE DEF G
  <2>1. 0..n \subseteq G
    BY <1>2, <1>3, <1>4, UpTo
  <2> QED
    BY <1>2, <2>1
<1>6. PICK s \in Seq(S) : s = kept[n]
  BY <1>1, <1>2
<1>7. Len(s) = n - h /\ \A x \in 1..(n - h) : s[x] = ms[h + x]
  BY <1>2, <1>5, <1>6
<1>8. PICK t : t = SubSeq(ms, h + 1, n)
  OBVIOUS
<1>9. t \in Seq(S) /\ Len(t) = n - h /\ \A x \in 1..(n - h) : t[x] = ms[h + x]
  <2>1. \A i \in (h + 1)..n : ms[i] \in S
    BY <1>2
  <2>2. /\ t \in Seq(S) /\ Len(t) = IF h + 1 <= n THEN n - (h + 1) + 1 ELSE 0
        /\ \A x \in 1..(n - (h + 1) + 1) : t[x] = ms[(h + 1) + x - 1]
    BY <1>2, <1>8, <2>1, SubSeqProperties
  <2>3. n - (h + 1) + 1 = n - h /\ \A x \in 1..(n - h) : (h + 1) + x - 1 = h + x
    BY <1>2
  <2>4. Len(t) = n - h
    <3>1. CASE h + 1 <= n
      BY <2>2, <2>3, <3>1
    <3>2. CASE ~(h + 1 <= n)
      <4>0. \A a, b \in Nat : b <= a /\ ~(b + 1 <= a) => a - b = 0
        OBVIOUS
      <4>1. n - h = 0
        BY <1>2, <3>2, <4>0, Zenon
      <4> QED
        BY <2>2, <3>2, <4>1
    <3> QED
      BY <3>1, <3>2
  <2>5. \A x \in 1..(n - h) : t[x] = ms[h + x]
    <3>1. \A x \in 1..(n - h) : x \in 1..(n - (h + 1) + 1)
      BY <2>3
    <3> QED
      BY <2>2, <2>3, <3>1
  <2> QED
    BY <2>2, <2>4, <2>5
<1>10. s = t
  BY <1>7, <1>9, SeqEqual
<1> QED
  BY <1>1, <1>6, <1>8, <1>10

-----------------------------------------------------------------------------
(* Sequences.                                                              *)
LEMMA FrontIs ==
  ASSUME NEW S, NEW cs \in Seq(S), cs # <<>>
  PROVE  /\ Front(cs) \in Seq(S) /\ Len(Front(cs)) = Len(cs) - 1
         /\ \A i \in 1..Len(cs) - 1 : Front(cs)[i] = cs[i]
<1>1. PICK n \in Nat : n = Len(cs) /\ n # 0 /\ DOMAIN cs = 1..n
  OBVIOUS
<1>2. \A i \in 1..n - 1 : cs[i] \in S
  BY <1>1
<1>3. /\ SubSeq(cs, 1, n - 1) \in Seq(S)
      /\ Len(SubSeq(cs, 1, n - 1)) = IF 1 <= n - 1 THEN (n - 1) - 1 + 1 ELSE 0
      /\ \A i \in 1..(n - 1) - 1 + 1 : SubSeq(cs, 1, n - 1)[i] = cs[1 + i - 1]
  BY <1>1, <1>2, SubSeqProperties
<1>4. (n - 1) - 1 + 1 = n - 1 /\ \A i \in 1..n - 1 : 1 + i - 1 = i
  BY <1>1
<1>5. Front(cs) = SubSeq(cs, 1, n - 1)
  BY <1>1 DEF Front
<1>6. Len(SubSeq(cs, 1, n - 1)) = n - 1
  BY <1>1, <1>3
<1> QED
  BY <1>1, <1>3, <1>4, <1>5, <1>6

LEMMA ReplaceLast ==
  ASSUME NEW S, NEW cs \in Seq(S), cs # <<>>, NEW x \in S
  PROVE  /\ Front(cs) \o <<x>> \in Seq(S)
         /\ Len(Front(cs) \o <<x>>) = Len(cs)
         /\ (Front(cs) \o <<x>>)[Len(cs)] = x
         /\ \A i \in 1..Len(cs) - 1 : (Front(cs) \o <<x>>)[i] = cs[i]
<1>1. PICK n \in Nat : n = Len(cs) /\ n # 0
  OBVIOUS
<1>2. PICK f \in Seq(S) : f = Front(cs) /\ Len(f) = n - 1 /\ \A i \in 1..n - 1 : f[i] = cs[i]
  BY <1>1, FrontIs
<1>3. <<x>> \in Seq(S) /\ Len(<<x>>) = 1 /\ <<x>>[1] = x
  OBVIOUS
<1>4. /\ f \o <<x>> \in Seq(S) /\ Len(f \o <<x>>) = (n - 1) + 1
      /\ \A i \in 1..(n - 1) + 1 : (f \o <<x>>)[i] =
           IF i <= n - 1 THEN f[i] ELSE <<x>>[i - (n - 1)]
  BY <1>2, <1>3, ConcatProperties
<1>5. (n - 1) + 1 = n /\ n - (n - 1) = 1 /\ ~(n <= n - 1) /\ n \in 1..n
      /\ \A i \in 1..n - 1 : i \in 1..n /\ i <= n - 1
  BY <1>1
<1>6. (f \o <<x>>)[n] = x
  BY <1>3, <1>4, <1>5
<1>7. \A i \in 1..n - 1 : (f \o <<x>>)[i] = f[i]
  BY <1>4, <1>5
<1> QED
  BY <1>1, <1>2, <1>4, <1>5, <1>6, <1>7

(* Appending messages that are new.                                        *)
LEMMA AppendNew ==
  ASSUME NEW S, NEW s \in Seq(S), NEW t \in Seq(S),
         IsInjective(s), IsInjective(t), ToSet(s) \cap ToSet(t) = {}
  PROVE  /\ s \o t \in Seq(S) /\ IsInjective(s \o t)
         /\ ToSet(s \o t) = ToSet(s) \cup ToSet(t)
<1>1. PICK m \in Nat, n \in Nat :
        m = Len(s) /\ DOMAIN s = 1..m /\ n = Len(t) /\ DOMAIN t = 1..n
  OBVIOUS
<1>0. PICK u : u = s \o t
  OBVIOUS
<1>2. /\ u \in Seq(S) /\ u = s \o t /\ Len(u) = m + n /\ DOMAIN u = 1..(m + n)
      /\ \A i \in 1..(m + n) : u[i] = IF i <= m THEN s[i] ELSE t[i - m]
  <2>1. u \in Seq(S) /\ Len(u) = m + n
    BY <1>0, <1>1, ConcatProperties
  <2>2. \A i \in 1..Len(s) + Len(t) : u[i] = IF i <= Len(s) THEN s[i] ELSE t[i - Len(s)]
    BY <1>0, ConcatProperties
  <2> QED
    BY <1>0, <1>1, <2>1, <2>2
<1>3. \A i \in 1..(m + n) : (i <= m /\ i \in 1..m) \/ (~(i <= m) /\ i - m \in 1..n)
  BY <1>1
<1>4. \A i \in 1..m : i \in 1..(m + n) /\ i <= m
  BY <1>1
<1>5. \A i \in 1..n : m + i \in 1..(m + n) /\ ~(m + i <= m) /\ (m + i) - m = i
  BY <1>1
<1>6. \A i \in 1..m : u[i] = s[i] /\ s[i] \in ToSet(s)
  BY <1>1, <1>2, <1>4 DEF ToSet
<1>7. \A i \in 1..(m + n) : ~(i <= m) => u[i] = t[i - m] /\ t[i - m] \in ToSet(t)
  BY <1>1, <1>2, <1>3 DEF ToSet
<1>8. IsInjective(u)
  <2> SUFFICES ASSUME NEW i \in 1..(m + n), NEW j \in 1..(m + n), u[i] = u[j]
               PROVE  i = j
    BY <1>2 DEF IsInjective
  <2>1. CASE i <= m /\ j <= m
    <3>1. i \in 1..m /\ j \in 1..m
      BY <1>3, <2>1
    <3> QED
      BY <1>1, <1>6, <3>1 DEF IsInjective
  <2>2. CASE ~(i <= m) /\ ~(j <= m)
    <3>1. i - m \in 1..n /\ j - m \in 1..n
      BY <1>3, <2>2
    <3>3. t[i - m] = t[j - m]
      BY <1>7, <2>2
    <3>2. i - m = j - m
      BY <1>1, <3>1, <3>3 DEF IsInjective
    <3> QED
      BY <1>1, <3>2
  <2>3. CASE (i <= m) # (j <= m)
    <3>1. (i <= m /\ ~(j <= m)) \/ (j <= m /\ ~(i <= m))
      BY <2>3
    <3> QED
      BY <1>3, <1>6, <1>7, <3>1
  <2> QED
    BY <2>1, <2>2, <2>3
<1>9. ToSet(u) = ToSet(s) \cup ToSet(t)
  <2>1. ToSet(u) \subseteq ToSet(s) \cup ToSet(t)
    BY <1>2, <1>3, <1>6, <1>7 DEF ToSet
  <2>2. ToSet(s) \subseteq ToSet(u)
    BY <1>1, <1>2, <1>4, <1>6 DEF ToSet
  <2>3. \A i \in 1..n : t[i] = u[m + i]
    BY <1>2, <1>5
  <2>4. ToSet(t) \subseteq ToSet(u)
    BY <1>1, <1>2, <1>5, <2>3 DEF ToSet
  <2> QED
    BY <2>1, <2>2, <2>4
<1> QED
  BY <1>2, <1>8, <1>9
-----------------------------------------------------------------------------
(* A flush that goes on: at a message of its list, as the flushes it is in. *)
Ready(cs) ==
  /\ cs \in Seq(Calls) /\ cs # <<>>
  /\ \A i \in DOMAIN cs :
       /\ cs[i].list \in 1..Len(lists) /\ cs[i].pos \in 1..Len(lists[cs[i].list])
       /\ cs[i].tries < MaxRetries
       /\ i < Len(cs) => cs[i].on # 0

LEMMA NewCallType == NewCall \in Calls /\ NewCall.list = 0
BY SendBufferAssumption DEF NewCall, Calls

LEMMA StackLast ==
  ASSUME NEW cs, Stack(cs), cs # <<>>
  PROVE  Last(cs) \in Calls /\ Last(cs) = cs[Len(cs)] /\ Len(cs) \in DOMAIN cs
BY DEF Stack, Last

LEMMA StackFailed ==
  ASSUME NEW cs \in Seq(Calls), cs # <<>>, Last(cs).tries < MaxRetries,
         \A i \in 1..Len(cs) - 1 :
           OnItsList(cs[i]) /\ cs[i].list # 0 /\ cs[i].tries < MaxRetries
  PROVE  /\ Stack(Failed(cs)) /\ Failed(cs) # <<>> /\ Len(Failed(cs)) = Len(cs)
         /\ Last(Failed(cs)).list = 0
         /\ \A i \in 1..Len(cs) - 1 : Failed(cs)[i] = cs[i]
<1>1. PICK n \in Nat : n = Len(cs) /\ n # 0 /\ DOMAIN cs = 1..n /\ Last(cs) = cs[n]
  BY DEF Last
<1>2. PICK x : x = [NewCall EXCEPT !.tries = Last(cs).tries + 1]
  OBVIOUS
<1>3. x \in Calls /\ x.list = 0
  <2>0. cs[n] \in Calls
    BY <1>1
  <2>1. Last(cs).tries \in 0..MaxRetries
    BY <1>1, <2>0 DEF Calls
  <2>2. Last(cs).tries + 1 \in 0..MaxRetries
    BY <2>1, SendBufferAssumption
  <2> QED
    BY <1>2, <2>2, NewCallType DEF Calls, NewCall
<1>4. PICK f : f = Failed(cs)
  OBVIOUS
<1>9. f = Front(cs) \o <<x>>
  BY <1>2, <1>4 DEF Failed
<1>5. f \in Seq(Calls) /\ Len(f) = n /\ f[n] = x /\ \A i \in 1..n - 1 : f[i] = cs[i]
  BY <1>1, <1>3, <1>9, ReplaceLast
<1>6. DOMAIN f = 1..n /\ f # <<>> /\ Last(f) = x /\ \A i \in 1..n : i = n \/ i \in 1..n - 1
  BY <1>1, <1>5 DEF Last
<1>7. OnItsList(x)
  BY <1>3 DEF OnItsList
<1>8. Stack(f)
  BY <1>1, <1>3, <1>5, <1>6, <1>7 DEF Stack
<1> QED
  BY <1>1, <1>3, <1>4, <1>5, <1>6, <1>8

LEMMA ReadyRest ==
  ASSUME NEW cs, Ready(cs)
  PROVE  /\ cs \in Seq(Calls) /\ cs # <<>> /\ Last(cs).tries < MaxRetries
         /\ Last(cs) = cs[Len(cs)] /\ Last(cs) \in Calls /\ Last(cs).list # 0
         /\ \A i \in 1..Len(cs) - 1 :
              OnItsList(cs[i]) /\ cs[i].list # 0 /\ cs[i].tries < MaxRetries
<1>1. PICK n \in Nat : n = Len(cs) /\ n # 0 /\ DOMAIN cs = 1..n /\ Last(cs) = cs[n]
  BY DEF Ready, Last
<1>2. \A i \in 1..n - 1 : i \in 1..n /\ i < n
  BY <1>1
<1>3. n \in 1..n
  BY <1>1
<1>4. cs[n].list # 0
  BY <1>1, <1>3 DEF Ready
<1>5. ASSUME NEW i \in 1..n - 1
      PROVE  OnItsList(cs[i]) /\ cs[i].list # 0 /\ cs[i].tries < MaxRetries
  <2>1. i \in 1..n /\ i < n
    BY <1>2
  <2>2. /\ cs[i].list \in 1..Len(lists) /\ cs[i].pos \in 1..Len(lists[cs[i].list])
        /\ cs[i].tries < MaxRetries /\ cs[i].on # 0
    BY <1>1, <2>1 DEF Ready
  <2> QED
    BY <2>2 DEF OnItsList
<1> QED
  BY <1>1, <1>3, <1>4, <1>5 DEF Ready

LEMMA StackSent ==
  ASSUME NEW cs, Ready(cs), NEW w \in Conns
  PROVE  LET sent == Front(cs) \o <<[Last(cs) EXCEPT !.on = w]>>
         IN  /\ Stack(sent) /\ Len(sent) = Len(cs)
             /\ sent[Len(cs)] = [Last(cs) EXCEPT !.on = w]
             /\ \A i \in 1..Len(cs) - 1 : sent[i] = cs[i]
<1>1. PICK n \in Nat : n = Len(cs) /\ n # 0 /\ DOMAIN cs = 1..n /\ n \in 1..n
  BY DEF Ready
<1>2. PICK x : x = [Last(cs) EXCEPT !.on = w]
  OBVIOUS
<1>3. x \in Calls /\ x.list = cs[n].list /\ x.pos = cs[n].pos /\ x.tries = cs[n].tries
      /\ x.on = w /\ w # 0
  <2>1. PICK y \in Calls : y = Last(cs) /\ y = cs[n]
    BY <1>1, ReadyRest
  <2>2. w \in 0..MaxConns /\ w # 0
    BY SendBufferAssumption DEF Conns
  <2> QED
    BY <1>2, <2>1, <2>2 DEF Calls
<1>4. PICK f : f = Front(cs) \o <<x>>
  OBVIOUS
<1>5. f \in Seq(Calls) /\ Len(f) = n /\ f[n] = x /\ \A i \in 1..n - 1 : f[i] = cs[i]
  BY <1>1, <1>3, <1>4, ReadyRest, ReplaceLast
<1>6. DOMAIN f = 1..n /\ \A i \in 1..n : i = n \/ i \in 1..n - 1
  BY <1>1, <1>5
<1>7. OnItsList(x) /\ x.tries < MaxRetries
  BY <1>1, <1>3 DEF OnItsList, Ready
<1>8. Stack(f)
  BY <1>1, <1>5, <1>6, <1>7, ReadyRest DEF Stack
<1> QED
  BY <1>1, <1>2, <1>4, <1>5, <1>8

LEMMA StackPushed ==
  ASSUME NEW cs, Ready(cs), Last(cs).on # 0
  PROVE  LET pushed == Append(cs, NewCall)
         IN  /\ Stack(pushed) /\ Len(pushed) = Len(cs) + 1
             /\ pushed[Len(cs) + 1].list = 0
             /\ \A i \in 1..Len(cs) : pushed[i] = cs[i]
<1>1. PICK n \in Nat : n = Len(cs) /\ n # 0 /\ DOMAIN cs = 1..n /\ n \in 1..n
  BY DEF Ready
<1>2. PICK f : f = Append(cs, NewCall)
  OBVIOUS
<1>3. f \in Seq(Calls) /\ Len(f) = n + 1 /\ f[n + 1] = NewCall /\ \A i \in 1..n : f[i] = cs[i]
  BY <1>1, <1>2, ReadyRest, NewCallType, AppendProperties
<1>4. DOMAIN f = 1..n + 1 /\ \A i \in 1..n + 1 : i = n + 1 \/ i \in 1..n
  BY <1>1, <1>3
<1>5. \A i \in 1..n : i = n \/ i \in 1..n - 1
  BY <1>1
<1>6. OnItsList(cs[n]) /\ cs[n].list # 0 /\ cs[n].tries < MaxRetries
  <2>1. /\ cs[n].list \in 1..Len(lists) /\ cs[n].pos \in 1..Len(lists[cs[n].list])
        /\ cs[n].tries < MaxRetries /\ cs[n].on # 0
    BY <1>1, ReadyRest DEF Ready
  <2> QED
    BY <2>1 DEF OnItsList
<1>7. OnItsList(NewCall)
  BY NewCallType DEF OnItsList
<1>8. \A i \in 1..n : OnItsList(cs[i]) /\ cs[i].list # 0 /\ cs[i].tries < MaxRetries
  BY <1>1, <1>5, <1>6, ReadyRest
<1>9. Stack(f)
  BY <1>1, <1>3, <1>4, <1>7, <1>8, NewCallType DEF Stack
<1> QED
  BY <1>1, <1>2, <1>3, <1>9, NewCallType
(* The same flush, at the message after.                                   *)
LEMMA NextPosition ==
  ASSUME NEW call \in Calls
  PROVE  [call EXCEPT !.pos = @ + 1] \in Calls
BY DEF Calls

LEMMA ListNumber ==
  ASSUME NEW call \in Calls, OnItsList(call), call.list # 0, ListsTyped
  PROVE  /\ call.list \in 1..Len(lists) /\ Len(lists[call.list]) \in Nat
         /\ call.pos \in 1..Len(lists[call.list]) /\ call.on # 0
<1>1. PICK l \in Nat, n \in Nat : l = call.list /\ n = Len(lists) /\ l <= n
  BY DEF Calls, OnItsList, ListsTyped
<1>2. l \in 1..n /\ l \in DOMAIN lists
  BY <1>1 DEF ListsTyped
<1>3. lists[l] \in Seq(Messages)
  BY <1>2 DEF ListsTyped
<1> QED
  BY <1>1, <1>2, <1>3 DEF OnItsList

LEMMA Advanced ==
  ASSUME NEW cs, Stack(cs), ListsTyped, NEW k \in 1..Len(cs), cs[k].list # 0,
         cs[k].pos < Len(lists[cs[k].list]),
         NEW new \in Seq(Calls), Len(new) = k, \A i \in 1..k - 1 : new[i] = cs[i],
         new[k] = [cs[k] EXCEPT !.pos = @ + 1]
  PROVE  Ready(new) /\ Last(new).on # 0
<1>1. k \in Nat /\ k # 0 /\ Len(cs) \in Nat /\ cs \in Seq(Calls) /\ DOMAIN cs = 1..Len(cs)
      /\ \A i \in 1..k - 1 : i \in DOMAIN cs /\ i < Len(cs)
  BY DEF Stack
<1>2. PICK y \in Calls : y = cs[k] /\ k \in DOMAIN cs
  BY <1>1
<1>10. OnItsList(y) /\ y.list # 0
  BY <1>2 DEF Stack
<1>3. PICK l \in Nat : l = y.list /\ l \in 1..Len(lists)
  BY <1>10, ListNumber
<1>4. PICK n \in Nat : n = Len(lists[l]) /\ y.pos < n /\ y.pos \in 1..n /\ y.pos + 1 \in 1..n
  <2>1. lists[l] \in Seq(Messages)
    BY <1>3 DEF ListsTyped
  <2>2. PICK n \in Nat : n = Len(lists[l])
    BY <2>1
  <2>3. y.pos \in 1..n /\ y.pos < n
    BY <1>1, <1>2, <1>3, <2>2 DEF Stack, OnItsList
  <2>4. y.pos + 1 \in 1..n
    BY <2>3
  <2> QED
    BY <2>2, <2>3, <2>4
<1>5. y.tries < MaxRetries /\ y.on # 0
  BY <1>1, <1>2 DEF Stack, OnItsList
<1>6. PICK z : z = new[k] /\ z.list = l /\ z.pos = y.pos + 1 /\ z.tries = y.tries /\ z.on = y.on
  BY <1>2, <1>3 DEF Calls
<1>7. DOMAIN new = 1..k /\ \A i \in 1..k : i = k \/ (i \in 1..k - 1 /\ i < k)
  BY <1>1
<1>8. ASSUME NEW i \in 1..k - 1
      PROVE  /\ cs[i].list \in 1..Len(lists) /\ cs[i].pos \in 1..Len(lists[cs[i].list])
             /\ cs[i].tries < MaxRetries /\ cs[i].on # 0
  <2>1. cs[i] \in Calls /\ cs[i].list # 0
    BY <1>1 DEF Stack
  <2>2. OnItsList(cs[i]) /\ cs[i].tries < MaxRetries
    BY <1>1, <2>1 DEF Stack
  <2> QED
    BY <2>1, <2>2, ListNumber
<1>9. Ready(new)
  <2>1. ASSUME NEW i \in 1..k
        PROVE  /\ new[i].list \in 1..Len(lists) /\ new[i].pos \in 1..Len(lists[new[i].list])
               /\ new[i].tries < MaxRetries
               /\ i < Len(new) => new[i].on # 0
    <3>1. CASE i = k
      BY <1>3, <1>4, <1>5, <1>6, <3>1
    <3>2. CASE i \in 1..k - 1
      BY <1>8, <3>2
    <3> QED
      BY <1>7, <3>1, <3>2
  <2> QED
    BY <1>1, <1>7, <2>1 DEF Ready
<1> QED
  BY <1>5, <1>6, <1>9 DEF Last

LEMMA NextMessageReady ==
  ASSUME NEW cs, Stack(cs), ListsTyped, cs # <<>>, Last(cs).list # 0,
         Last(cs).pos < Len(lists[Last(cs).list])
  PROVE  /\ Ready(NextMessage(cs)) /\ Last(NextMessage(cs)).on # 0
         /\ Len(NextMessage(cs)) = Len(cs)
         /\ NextMessage(cs)[Len(cs)] = [Last(cs) EXCEPT !.pos = @ + 1]
         /\ \A i \in 1..Len(cs) - 1 : NextMessage(cs)[i] = cs[i]
<1>1. PICK k \in Nat : k = Len(cs) /\ k # 0 /\ DOMAIN cs = 1..k /\ k \in 1..k
      /\ cs \in Seq(Calls) /\ Last(cs) = cs[k]
  BY DEF Stack, Last
<1>2. PICK x : x = [cs[k] EXCEPT !.pos = @ + 1]
  OBVIOUS
<1>3. x \in Calls
  <2>1. cs[k] \in Calls
    BY <1>1
  <2> QED
    BY <1>2, <2>1, NextPosition
<1>4. PICK new : new = [cs EXCEPT ![k] = x]
  OBVIOUS
<1>5. new \in Seq(Calls) /\ Len(new) = k /\ new[k] = x /\ \A i \in 1..k - 1 : new[i] = cs[i]
  BY <1>1, <1>3, <1>4, ExceptSeq
<1>6. NextMessage(cs) = new
  BY <1>1, <1>2, <1>4 DEF NextMessage
<1>7. Ready(new) /\ Last(new).on # 0
  <2>1. k \in 1..Len(cs) /\ cs[k].list # 0 /\ cs[k].pos < Len(lists[cs[k].list])
    BY <1>1
  <2>2. Len(new) = k /\ \A i \in 1..k - 1 : new[i] = cs[i]
    BY <1>5
  <2>3. new \in Seq(Calls) /\ new[k] = [cs[k] EXCEPT !.pos = @ + 1]
    BY <1>2, <1>5
  <2> QED
    BY <2>1, <2>2, <2>3, Advanced
<1> QED
  BY <1>1, <1>2, <1>5, <1>6, <1>7

LEMMA UnwoundReady ==
  ASSUME NEW cs, Stack(cs), ListsTyped, Unwound(cs) # <<>>
  PROVE  /\ Ready(Unwound(cs)) /\ Last(Unwound(cs)).on # 0
         /\ Len(Unwound(cs)) \in 1..Len(cs) - 1
         /\ LET k == Len(Unwound(cs))
            IN  /\ Unwound(cs)[k] = [cs[k] EXCEPT !.pos = @ + 1]
                /\ cs[k].pos < Len(lists[cs[k].list])
                /\ \A i \in 1..k - 1 : Unwound(cs)[i] = cs[i]
<1>1. PICK n \in Nat : n = Len(cs) /\ DOMAIN cs = 1..n /\ cs \in Seq(Calls)
  BY DEF Stack
<1>2. PICK more : more = {i \in 1..n - 1 : cs[i].pos < Len(lists[cs[i].list])}
  OBVIOUS
<1>3. Unwound(cs) = IF more = {} THEN <<>>
                    ELSE [SubSeq(cs, 1, Max(more)) EXCEPT ![Max(more)].pos = @ + 1]
  BY <1>1, <1>2 DEF Unwound
<1>4. more # {} /\ more \subseteq 1..n
  <2>1. 1..n - 1 \subseteq 1..n
    BY <1>1
  <2> QED
    BY <1>2, <1>3, <2>1
<1>5. PICK k \in 1..n - 1 : k = Max(more) /\ k \in more
  BY <1>1, <1>2, <1>4, MaxIsGreatest
<1>6. k \in Nat /\ k # 0 /\ k \in 1..n /\ k < n /\ k \in 1..k
  BY <1>1
<1>7. PICK x : x = [cs[k] EXCEPT !.pos = @ + 1]
  OBVIOUS
<1>8. x \in Calls
  <2>1. cs[k] \in Calls
    BY <1>1, <1>6
  <2> QED
    BY <1>7, <2>1, NextPosition
<1>9. PICK s : s = SubSeq(cs, 1, k)
  OBVIOUS
<1>10. s \in Seq(Calls) /\ Len(s) = k /\ \A i \in 1..k : s[i] = cs[i]
  <2>1. \A i \in 1..k : cs[i] \in Calls
    BY <1>1, <1>6
  <2>2. /\ s \in Seq(Calls) /\ Len(s) = IF 1 <= k THEN k - 1 + 1 ELSE 0
        /\ \A i \in 1..k - 1 + 1 : s[i] = cs[1 + i - 1]
    BY <1>6, <1>9, <2>1, SubSeqProperties
  <2>3. k - 1 + 1 = k /\ 1 <= k /\ \A i \in 1..k : 1 + i - 1 = i
    BY <1>6
  <2> QED
    BY <2>2, <2>3
<1>11. PICK new : new = [s EXCEPT ![k] = x]
  OBVIOUS
<1>12. new \in Seq(Calls) /\ Len(new) = k /\ new[k] = x /\ \A i \in 1..k - 1 : new[i] = cs[i]
  <2>1. s # <<>> /\ \A i \in 1..k - 1 : i \in 1..k /\ i # k
    BY <1>6, <1>10
  <2> QED
    BY <1>6, <1>8, <1>10, <1>11, <2>1, ExceptSeq
<1>13. Unwound(cs) = new
  BY <1>3, <1>4, <1>5, <1>6, <1>7, <1>9, <1>10, <1>11
<1>14. cs[k].list # 0 /\ cs[k].pos < Len(lists[cs[k].list])
  BY <1>1, <1>2, <1>5, <1>6 DEF Stack
<1>15. Ready(new) /\ Last(new).on # 0
  <2>1. k \in 1..Len(cs) /\ new[k] = [cs[k] EXCEPT !.pos = @ + 1]
    BY <1>1, <1>6, <1>7, <1>12
  <2>2. new \in Seq(Calls) /\ Len(new) = k
    BY <1>12
  <2>3. \A i \in 1..k - 1 : new[i] = cs[i]
    BY <1>12
  <2>4. Stack(cs) /\ ListsTyped
    OBVIOUS
  <2> QED
    BY <1>14, <2>1, <2>2, <2>3, <2>4, Advanced, SMTT(30)
<1> QED
  BY <1>1, <1>7, <1>12, <1>13, <1>14, <1>15
-----------------------------------------------------------------------------
(* What was handed over stays so, and is in history once.                  *)
LEMMA HandOverType ==
  ASSUME HistoryTyped, NEW ms \in Seq(Messages), IsInjective(ms), NEW c,
         HandOver(ms, c)
  PROVE  HistoryTyped' /\ ToSet(handed)' = ToSet(handed) \cup ToSet(ms)
<1>1. PICK u : u = Unsent(ms, ToSet(handed))
  OBVIOUS
<1>2. u \in Seq(Messages) /\ ToSet(u) = ToSet(ms) \ ToSet(handed) /\ IsInjective(u)
  BY <1>1, UnsentType
<1>3. handed \in Seq(Messages) /\ IsInjective(handed)
  BY DEF HistoryTyped
<1>4. handed' = handed \o u
  BY <1>1 DEF HandOver
<1>5. ToSet(handed) \cap ToSet(u) = {}
  BY <1>2
<1>6. /\ handed \o u \in Seq(Messages) /\ IsInjective(handed \o u)
      /\ ToSet(handed \o u) = ToSet(handed) \cup ToSet(u)
  BY <1>2, <1>3, <1>5, AppendNew
<1>7. ToSet(handed)' = ToSet(handed')
  BY DEF ToSet
<1>8. ToSet(ms) \subseteq Messages
  BY DEF ToSet
<1>9. given' \in [Messages \X Conns -> Nat]
  <2>1. given \in [Messages \X Conns -> Nat]
    BY DEF HistoryTyped
  <2>2. \A x \in Messages \X Conns : given[x] + 1 \in Nat /\ given[x] \in Nat
    BY <2>1
  <2> QED
    BY <2>2 DEF HandOver
<1> QED
  BY <1>2, <1>3, <1>4, <1>6, <1>7, <1>8, <1>9 DEF HistoryTyped

(* Each message once more, by one flush.                                   *)
LEMMA GivenOnceMore ==
  ASSUME HistoryTyped, NEW ms, NEW c \in Conns, HandOver(ms, c)
  PROVE  \A m \in Messages, d \in Conns :
           /\ m \in ToSet(ms) /\ d = c => given'[<<m, d>>] = given[<<m, d>>] + 1
           /\ ~(m \in ToSet(ms) /\ d = c) => given'[<<m, d>>] = given[<<m, d>>]
BY DEF HandOver

LEMMA OneMessage ==
  ASSUME NEW m \in Messages
  PROVE  <<m>> \in Seq(Messages) /\ IsInjective(<<m>>) /\ ToSet(<<m>>) = {m}
BY DEF IsInjective, ToSet

(* Lists are only added, and messages only added to a list.                *)
ListsGrow ==
  /\ ListsTyped'
  /\ \A i \in DOMAIN lists :
       /\ i \in DOMAIN lists' /\ Len(lists[i]) <= Len(lists'[i])
       /\ \A x \in DOMAIN lists[i] : lists'[i][x] = lists[i][x]

LEMMA StackKept ==
  ASSUME ListsTyped, ListsGrow, NEW cs, Stack(cs)
  PROVE  Stack(cs)'
<1>1. ASSUME NEW i \in DOMAIN cs  PROVE OnItsList(cs[i])'
  <2> SUFFICES ASSUME cs[i].list # 0  PROVE OnItsList(cs[i])'
    BY DEF OnItsList
  <2>1. cs[i] \in Calls /\ OnItsList(cs[i])
    BY DEF Stack
  <2>2. PICK l : l = cs[i].list /\ l \in 1..Len(lists) /\ cs[i].pos \in 1..Len(lists[l])
        /\ cs[i].on # 0
    BY <2>1, ListNumber
  <2>3. PICK m \in Nat, n \in Nat : m = Len(lists) /\ n = Len(lists') /\ DOMAIN lists = 1..m
        /\ DOMAIN lists' = 1..n
    BY DEF ListsTyped, ListsGrow
  <2>4. l \in 1..n /\ Len(lists[l]) <= Len(lists'[l])
    BY <2>2, <2>3 DEF ListsGrow
  <2>5. lists[l] \in Seq(Messages) /\ lists'[l] \in Seq(Messages)
    BY <2>2, <2>3, <2>4 DEF ListsTyped, ListsGrow
  <2>6. Len(lists[l]) \in Nat /\ Len(lists'[l]) \in Nat
    BY <2>5
  <2>7. cs[i].pos \in 1..Len(lists'[l])
    BY <2>2, <2>4, <2>6
  <2>8. l <= Len(lists')
    BY <2>3, <2>4
  <2> QED
    BY <2>2, <2>7, <2>8 DEF OnItsList
<1> QED
  BY <1>1 DEF Stack

LEMMA SameLists ==
  ASSUME ListsTyped, UNCHANGED lists
  PROVE  ListsGrow
<1>1. ASSUME NEW i \in DOMAIN lists  PROVE Len(lists[i]) <= Len(lists[i])
  <2>1. Len(lists[i]) \in Nat
    BY DEF ListsTyped
  <2> QED
    BY <2>1
<1> QED
  BY <1>1 DEF ListsTyped, ListsGrow

LEMMA ClearedLists ==
  ASSUME ListsTyped, lists' = Cleared
  PROVE  /\ ListsGrow /\ Len(lists') = Len(lists) + 1
         /\ lists'[Len(lists) + 1] = <<>>
         /\ \A i \in DOMAIN lists : lists'[i] = lists[i]
<1>1. PICK n \in Nat : n = Len(lists) /\ DOMAIN lists = 1..n
  BY DEF ListsTyped
<1>2. <<>> \in Seq(Messages) /\ IsInjective(<<>>)
  BY DEF IsInjective
<1>3. PICK new : new = Append(lists, <<>>)
  OBVIOUS
<1>4. new \in Seq(Seq(Messages)) /\ new # <<>> /\ Len(new) = n + 1 /\ new[n + 1] = <<>>
      /\ \A i \in 1..n : new[i] = lists[i]
  BY <1>1, <1>2, <1>3, AppendProperties DEF ListsTyped
<1>5. lists' = new /\ DOMAIN new = 1..n + 1 /\ \A i \in 1..n + 1 : i \in 1..n \/ i = n + 1
  BY <1>1, <1>3, <1>4 DEF Cleared
<1>6. ListsTyped'
  BY <1>1, <1>2, <1>4, <1>5 DEF ListsTyped
<1>7. ASSUME NEW i \in DOMAIN lists
      PROVE  i \in DOMAIN lists' /\ Len(lists[i]) <= Len(lists[i])
  <2>1. Len(lists[i]) \in Nat
    BY DEF ListsTyped
  <2> QED
    BY <1>1, <1>5, <2>1
<1>8. \A i \in DOMAIN lists : lists'[i] = lists[i]
  BY <1>1, <1>4, <1>5
<1>9. ListsGrow
  BY <1>6, <1>7, <1>8 DEF ListsGrow
<1> QED
  BY <1>1, <1>4, <1>5, <1>8, <1>9

LEMMA BufferedLists ==
  ASSUME ListsTyped, NEW m \in Messages, \A i \in DOMAIN lists : ~Contains(lists[i], m),
         lists' = Buffered(m)
  PROVE  /\ ListsGrow /\ Len(lists') = Len(lists)
         /\ lists'[Len(lists)] = Append(lists[Len(lists)], m)
         /\ \A i \in DOMAIN lists : i # Len(lists) => lists'[i] = lists[i]
<1>1. PICK n \in Nat : n = Len(lists) /\ DOMAIN lists = 1..n /\ n \in 1..n
  BY DEF ListsTyped
<1>2. PICK s \in Seq(Messages) : s = lists[n] /\ IsInjective(s)
  BY <1>1 DEF ListsTyped
<1>3. PICK k \in Nat : k = Len(s) /\ DOMAIN s = 1..k
  OBVIOUS
<1>4. PICK t : t = Append(s, m)
  OBVIOUS
<1>5. /\ t \in Seq(Messages) /\ Len(t) = k + 1 /\ DOMAIN t = 1..k + 1 /\ t[k + 1] = m
      /\ \A x \in 1..k : t[x] = s[x]
  BY <1>3, <1>4, AppendProperties
<1>6. \A x \in 1..k : s[x] # m
  BY <1>1, <1>2, <1>3 DEF Contains
<1>7. IsInjective(t)
  <2>1. \A x \in 1..k + 1 : x \in 1..k \/ x = k + 1
    BY <1>3
  <2> QED
    BY <1>2, <1>3, <1>5, <1>6, <2>1 DEF IsInjective
<1>8. /\ lists' \in Seq(Seq(Messages)) /\ Len(lists') = n /\ DOMAIN lists' = 1..n
      /\ lists'[n] = t /\ \A i \in 1..n : i # n => lists'[i] = lists[i]
  <2>1. lists' = [lists EXCEPT ![n] = t]
    BY <1>1, <1>2, <1>4 DEF Buffered
  <2>2. lists \in Seq(Seq(Messages))
    BY DEF ListsTyped
  <2> QED
    BY <1>1, <1>5, <2>1, <2>2, ExceptSeq
<1>9. ListsTyped'
  BY <1>1, <1>7, <1>8 DEF ListsTyped
<1>10. ASSUME NEW i \in DOMAIN lists
       PROVE  /\ i \in DOMAIN lists' /\ Len(lists[i]) <= Len(lists'[i])
              /\ \A x \in DOMAIN lists[i] : lists'[i][x] = lists[i][x]
  <2>1. CASE i = n
    <3>1. Len(lists[i]) \in Nat /\ DOMAIN lists[i] = 1..Len(lists[i])
      BY <1>2, <2>1
    <3>2. i \in DOMAIN lists' /\ lists'[i] = t
      BY <1>1, <1>8, <2>1
    <3> QED
      BY <1>2, <1>3, <1>5, <2>1, <3>1, <3>2
  <2>2. CASE i # n
    <3>1. Len(lists[i]) \in Nat
      BY DEF ListsTyped
    <3> QED
      BY <1>1, <1>8, <2>2, <3>1
  <2> QED
    BY <2>1, <2>2
<1>11. ListsGrow
  BY <1>9, <1>10 DEF ListsGrow
<1> QED
  BY <1>1, <1>2, <1>4, <1>8, <1>11
-----------------------------------------------------------------------------
(* The calls of one caller change.                                         *)
LEMMA CallsChange ==
  ASSUME WellTyped, ListsGrow, NEW p \in Callers, NEW new, Stack(new),
         calls' = [calls EXCEPT ![p] = new]
  PROVE  /\ DOMAIN calls' = Callers /\ calls' = [q \in Callers |-> calls'[q]]
         /\ \A q \in Callers : Stack(calls[q])'
         /\ calls'[p] = new /\ \A q \in Callers \ {p} : calls'[q] = calls[q]
<1>1. ListsTyped /\ DOMAIN calls = Callers /\ \A q \in Callers : Stack(calls[q])
  BY DEF WellTyped
<1>2. /\ DOMAIN calls' = Callers /\ calls' = [q \in Callers |-> calls'[q]]
      /\ calls'[p] = new /\ \A q \in Callers \ {p} : calls'[q] = calls[q]
  BY <1>1
<1>3. ASSUME NEW q \in Callers  PROVE Stack(calls[q])'
  <2>1. PICK cs : cs = calls'[q]
    OBVIOUS
  <2>2. Stack(cs)
    BY <1>1, <1>2, <2>1
  <2>3. Stack(cs)'
    BY <1>1, <2>2, StackKept
  <2> QED
    BY <2>1, <2>3
<1> QED
  BY <1>2, <1>3

LEMMA CallsStay ==
  ASSUME WellTyped, ListsGrow, UNCHANGED calls
  PROVE  /\ DOMAIN calls' = Callers /\ calls' = [q \in Callers |-> calls'[q]]
         /\ \A q \in Callers : Stack(calls[q])'
<1>1. ListsTyped /\ DOMAIN calls = Callers /\ calls = [q \in Callers |-> calls[q]]
      /\ \A q \in Callers : Stack(calls[q])
  BY DEF WellTyped
<1>2. ASSUME NEW q \in Callers  PROVE Stack(calls[q])'
  <2>1. PICK cs : cs = calls[q]
    OBVIOUS
  <2>2. Stack(cs)
    BY <1>1, <2>1
  <2>3. Stack(cs)'
    BY <1>1, <2>2, StackKept
  <2> QED
    BY <2>1, <2>3
<1> QED
  BY <1>1, <1>2

(* A callback of a flush: the flushes that are left are where they were,   *)
(* and at most the message it is at is handed over.                        *)
Kept(new, cs) ==
  \A i \in DOMAIN new :
    new[i].list # 0 =>
      /\ i \in DOMAIN cs /\ cs[i].since = new[i].since
      /\ cs[i].list = new[i].list /\ cs[i].pos = new[i].pos

LEMMA Ran ==
  ASSUME WellTyped, NEW p \in Callers, NEW cs, NEW w \in 0..MaxConns,
         cs = <<>> \/ Ready(cs),
         cs # <<>> /\ w # 0 /\ conn'[w] = "lost" => Last(cs).on # 0,
         Run(p, cs, w)
  PROVE  \E new :
           /\ Stack(new) /\ Kept(new, cs) /\ calls' = [calls EXCEPT ![p] = new]
           /\ ws' \in 0..MaxConns /\ HistoryTyped'
           /\ \/ UNCHANGED <<handed, given>>
              \/ /\ cs # <<>> /\ Last(cs).list \in 1..Len(lists)
                 /\ Last(cs).pos \in 1..Len(lists[Last(cs).list])
                 /\ HandOver(<<lists[Last(cs).list][Last(cs).pos]>>, Last(cs).since)
<1>1. HistoryTyped /\ ListsTyped
  BY DEF WellTyped
<1>0. 0 \in 0..MaxConns
  BY SendBufferAssumption
<1>2. CASE cs = <<>>
  <2>1. Stack(<<>>) /\ Kept(<<>>, cs)
    BY DEF Stack, Kept
  <2>2. calls' = [calls EXCEPT ![p] = <<>>] /\ ws' = w /\ UNCHANGED <<handed, given>>
    BY <1>2 DEF Run, NothingHandedOver
  <2>3. HistoryTyped'
    BY <1>1, <2>2 DEF HistoryTyped
  <2> QED
    BY <2>1, <2>2, <2>3
<1>3. CASE cs # <<>> /\ w = 0
  <2>1. calls' = [calls EXCEPT ![p] = Failed(cs)] /\ ws' = 0 /\ UNCHANGED <<handed, given>>
    BY <1>3 DEF Run, NothingHandedOver
  <2>2. PICK n \in Nat : n = Len(cs) /\ DOMAIN cs = 1..n /\ n # 0
    BY <1>3 DEF Ready
  <2>3. PICK f : f = Failed(cs)
    OBVIOUS
  <2>4. Stack(f) /\ Len(f) = n /\ Last(f).list = 0 /\ \A i \in 1..n - 1 : f[i] = cs[i]
    BY <1>3, <2>2, <2>3, ReadyRest, StackFailed
  <2>5. DOMAIN f = 1..n /\ Last(f) = f[n] /\ \A i \in 1..n : i = n \/ i \in 1..n - 1
    BY <2>2, <2>4 DEF Stack, Last
  <2>6. Kept(f, cs)
    BY <2>2, <2>4, <2>5 DEF Kept
  <2>7. HistoryTyped'
    BY <1>1, <2>1 DEF HistoryTyped
  <2> QED
    BY <1>0, <2>1, <2>3, <2>4, <2>6, <2>7
<1>4. CASE cs # <<>> /\ w # 0 /\ conn'[w] = "lost"
  <2>1. calls' = [calls EXCEPT ![p] = Append(cs, NewCall)] /\ ws' = 0
        /\ UNCHANGED <<handed, given>>
    BY <1>4 DEF Run, NothingHandedOver
  <2>2. PICK n \in Nat : n = Len(cs) /\ DOMAIN cs = 1..n /\ n # 0
    BY <1>4 DEF Ready
  <2>3. PICK f : f = Append(cs, NewCall)
    OBVIOUS
  <2>4. Stack(f) /\ Len(f) = n + 1 /\ f[n + 1].list = 0 /\ \A i \in 1..n : f[i] = cs[i]
    BY <1>4, <2>2, <2>3, StackPushed
  <2>5. DOMAIN f = 1..n + 1 /\ \A i \in 1..n + 1 : i = n + 1 \/ i \in 1..n
    BY <2>2, <2>4 DEF Stack
  <2>6. Kept(f, cs)
    BY <2>2, <2>4, <2>5 DEF Kept
  <2>7. HistoryTyped'
    BY <1>1, <2>1 DEF HistoryTyped
  <2> QED
    BY <1>0, <2>1, <2>3, <2>4, <2>6, <2>7
<1>5. CASE cs # <<>> /\ w # 0 /\ conn'[w] # "lost"
  <2>1. PICK f : f = Front(cs) \o <<[Last(cs) EXCEPT !.on = w]>>
    OBVIOUS
  <2>2. /\ calls' = [calls EXCEPT ![p] = f] /\ ws' = w
        /\ HandOver(<<lists[Last(cs).list][Last(cs).pos]>>, Last(cs).since)
    BY <1>5, <2>1 DEF Run
  <2>3. PICK n \in Nat : n = Len(cs) /\ DOMAIN cs = 1..n /\ n # 0
    BY <1>5 DEF Ready
  <2>4. w \in Conns
    BY <1>5, SendBufferAssumption DEF Conns
  <2>5. Stack(f) /\ Len(f) = n /\ f[n] = [Last(cs) EXCEPT !.on = w]
        /\ \A i \in 1..n - 1 : f[i] = cs[i]
    BY <1>5, <2>1, <2>3, <2>4, StackSent
  <2>6. DOMAIN f = 1..n /\ \A i \in 1..n : i = n \/ i \in 1..n - 1
    BY <2>3, <2>5 DEF Stack
  <2>7. Last(cs) \in Calls /\ Last(cs) = cs[n] /\ n \in 1..n
    BY <1>5, <2>3, ReadyRest
  <2>8. f[n].list = cs[n].list /\ f[n].pos = cs[n].pos /\ f[n].since = cs[n].since
    BY <2>5, <2>7 DEF Calls
  <2>9. Kept(f, cs)
    BY <2>3, <2>5, <2>6, <2>8 DEF Kept
  <2>10. cs[n].list \in 1..Len(lists) /\ cs[n].pos \in 1..Len(lists[cs[n].list])
    BY <1>5, <2>3, <2>7 DEF Ready
  <2>11. lists[cs[n].list][cs[n].pos] \in Messages
    <3>1. lists[cs[n].list] \in Seq(Messages)
      BY <1>1, <2>10 DEF ListsTyped
    <3> QED
      BY <2>10, <3>1
  <2>12. HistoryTyped'
    BY <1>1, <2>2, <2>7, <2>11, OneMessage, HandOverType
  <2> QED
    BY <1>5, <2>2, <2>5, <2>7, <2>9, <2>10, <2>12
<1> QED
  BY <1>2, <1>3, <1>4, <1>5
-----------------------------------------------------------------------------
(* Connections open in the order of their numbers.                         *)
LEMMA OpensNext ==
  ASSUME conn \in [Conns -> States], InOrder, Unborn # {}
  PROVE  \E k \in Nat : /\ Opened = 1..k /\ Min(Unborn) = k + 1 /\ k + 1 \in Conns
                        /\ conn[k + 1] = "unborn" /\ k < MaxConns
<1>1. PICK k \in 0..MaxConns : Opened = 1..k
  BY DEF InOrder
<1>2. PICK n \in Nat : n = MaxConns /\ Conns = 1..n /\ k \in Nat /\ k <= n
  BY SendBufferAssumption DEF Conns
<1>3. Unborn \subseteq Conns /\ \A c \in Conns : c \in Unborn <=> c \notin 1..k
  BY <1>1 DEF Opened, Unborn
<1>4. \A c \in Unborn : c >= k + 1 /\ c \in 1..n
  BY <1>2, <1>3
<1>5. k + 1 \in Conns /\ k + 1 \in Unborn /\ k < n
  <2>1. PICK c \in Unborn : TRUE
    OBVIOUS
  <2>2. c >= k + 1 /\ c \in 1..n
    BY <1>4
  <2>3. k + 1 \in 1..n /\ k + 1 \notin 1..k
    BY <1>2, <2>2
  <2> QED
    BY <1>2, <1>3, <2>2, <2>3
<1>6. Min(Unborn) = k + 1
  <2>0. Unborn \subseteq Nat
    BY <1>2, <1>3
  <2>1. PICK U : U = Unborn /\ U # {} /\ U \subseteq Nat
    BY <2>0
  <2>2. Min(U) \in U /\ \A y \in U : Min(U) <= y
    BY <2>1, MinIsLeast
  <2>3. Min(U) <= k + 1 /\ Min(U) >= k + 1 /\ Min(U) \in Nat
    BY <1>4, <1>5, <2>1, <2>2
  <2> QED
    BY <1>2, <2>1, <2>3
<1> QED
  BY <1>1, <1>2, <1>5, <1>6 DEF Unborn

LEMMA OpenedNext ==
  ASSUME conn \in [Conns -> States], NEW k \in Nat, Opened = 1..k, k + 1 \in Conns,
         conn[k + 1] = "unborn", conn' = [conn EXCEPT ![k + 1] = "open"]
  PROVE  /\ conn' \in [Conns -> States] /\ Opened' = 1..k + 1 /\ InOrder'
         /\ conn'[k + 1] = "open"
<1>1. conn' \in [Conns -> States] /\ conn'[k + 1] = "open"
      /\ \A c \in Conns : c # k + 1 => conn'[c] = conn[c]
  BY DEF States
<1>2. Opened' = {c \in Conns : conn'[c] # "unborn"}
      /\ Opened = {c \in Conns : conn[c] # "unborn"}
  BY DEF Opened, Unborn
<1>3. Opened' = Opened \cup {k + 1}
  BY <1>1, <1>2
<1>4. 1..k + 1 = 1..k \cup {k + 1}
  OBVIOUS
<1>5. k + 1 \in 0..MaxConns
  BY SendBufferAssumption DEF Conns
<1> QED
  BY <1>1, <1>3, <1>4, <1>5 DEF InOrder

LEMMA OpenedSame ==
  ASSUME UNCHANGED conn
  PROVE  Opened' = Opened /\ (InOrder => InOrder')
BY DEF Opened, Unborn, InOrder

-----------------------------------------------------------------------------
(* A step that opens no connection and hands nothing over, and in which    *)
(* flushes only go forward or end.                                         *)
OnlyForward ==
  \A q \in Callers : \A i \in DOMAIN calls'[q] :
    calls'[q][i].list # 0 =>
      /\ i \in DOMAIN calls[q] /\ calls'[q][i].since = calls[q][i].since
      /\ calls'[q][i].list = calls[q][i].list
      /\ calls'[q][i].pos >= calls[q][i].pos

LEMMA ComeMore ==
  ASSUME WellTyped, ListsGrow, NEW p \in Callers, NEW i \in DOMAIN calls[p], NEW new,
         calls[p][i].list # 0, new.list = calls[p][i].list, new.pos >= calls[p][i].pos,
         new.pos \in Nat
  PROVE  Come(calls[p][i]) \subseteq Come(new)'
<1>1. calls[p][i] \in Calls /\ OnItsList(calls[p][i])
  BY DEF WellTyped, Stack
<1>2. PICK l \in 1..Len(lists), n \in Nat : l = new.list /\ n = calls[p][i].pos /\ n \in 1..Len(lists[l])
  BY <1>1, ListNumber DEF WellTyped, Calls
<1>3. DOMAIN lists = 1..Len(lists) /\ lists[l] \in Seq(Messages) /\ DOMAIN lists[l] = 1..Len(lists[l])
      /\ Len(lists[l]) \in Nat
  BY DEF WellTyped, ListsTyped
<1>4. \A x \in 1..n : x \in 1..Len(lists[l]) /\ x \in 1..new.pos
  BY <1>2, <1>3
<1>5. \A x \in 1..n : lists'[l][x] = lists[l][x]
  BY <1>3, <1>4 DEF ListsGrow
<1>6. Come(calls[p][i]) = {lists[l][x] : x \in 1..n} /\ Come(new)' = {lists'[l][x] : x \in 1..new.pos}
  BY <1>2 DEF Come
<1> QED
  BY <1>4, <1>5, <1>6

LEMMA EachOnceKept ==
  ASSUME WellTyped, WellTyped', EachOnce, ListsGrow, Opened \subseteq Opened',
         UNCHANGED given, OnlyForward
  PROVE  EachOnce'
<1>1. RepeatsNeedReconnect'
  BY DEF EachOnce, RepeatsNeedReconnect
<1>2. \A c \in Conns : Gave(c)' = Gave(c)
  BY DEF Gave
<1>3. \A c \in Conns \ Opened' : Gave(c)' = {}
  BY <1>2 DEF EachOnce
<1>4. ASSUME NEW p \in Callers, NEW i \in DOMAIN calls'[p], Flushes(p, i)'
      PROVE  /\ calls'[p][i].since \in Opened'
             /\ Gave(calls[p][i].since)' \subseteq Come(calls[p][i])'
  <2>1. PICK new : new = calls'[p][i]
    OBVIOUS
  <2>2. /\ i \in DOMAIN calls[p] /\ calls[p][i].list # 0 /\ new.list = calls[p][i].list
        /\ new.since = calls[p][i].since /\ new.pos >= calls[p][i].pos
    BY <1>4, <2>1 DEF OnlyForward, Flushes
  <2>3. calls'[p] \in Seq(Calls)
    BY DEF WellTyped, Stack, Calls
  <2>4. new \in Calls
    BY <2>1, <2>3
  <2>5. new.pos \in Nat
    BY <2>4 DEF Calls
  <2>6. Come(calls[p][i]) \subseteq Come(new)'
    BY <2>2, <2>5, ComeMore
  <2>7. new.since \in Opened /\ Gave(new.since) \subseteq Come(calls[p][i])
    BY <2>2 DEF EachOnce, OnItsConnection, Flushes
  <2>8. Gave(new.since)' = Gave(new.since)
    BY <1>2, <2>7 DEF Opened
  <2>9. Come(new)' = Come(calls[p][i])' /\ Gave(new.since)' = Gave(calls[p][i].since)'
    BY <2>1 DEF Come, Gave
  <2> QED
    BY <2>1, <2>6, <2>7, <2>8, <2>9
<1>5. OnItsConnection'
  BY <1>4 DEF OnItsConnection
<1>6. OneFlushEach'
  BY DEF EachOnce, OneFlushEach, OnlyForward, Flushes
<1> QED
  BY <1>1, <1>3, <1>5, <1>6 DEF EachOnce

(* The first n messages of the list of a flush.                            *)
Upto(call, n) == {lists[call.list][x] : x \in 1..n}

(* The flushes of the stack cs, had the caller p just these: each on a     *)
(* connection of its own, the innermost at a message not handed over yet.  *)
AtNew(p, cs) ==
  /\ \A i \in DOMAIN cs :
       /\ cs[i].since \in Opened'
       /\ Gave(cs[i].since) \subseteq Upto(cs[i], cs[i].pos)
       /\ i = Len(cs) => Gave(cs[i].since) \subseteq Upto(cs[i], cs[i].pos - 1)
       /\ \A j \in DOMAIN cs : cs[j].since = cs[i].since => i = j
       /\ \A q \in Callers \ {p} : \A j \in DOMAIN calls[q] :
            Flushes(q, j) => calls[q][j].since # cs[i].since

LEMMA RanOnce ==
  ASSUME WellTyped, WellTyped', EachOnce, ListsGrow, Opened \subseteq Opened',
         NEW p \in Callers, NEW cs, cs = <<>> \/ Ready(cs), AtNew(p, cs),
         NEW new, Stack(new), Kept(new, cs),
         calls'[p] = new, \A q \in Callers \ {p} : calls'[q] = calls[q],
         \/ UNCHANGED <<handed, given>>
         \/ /\ cs # <<>> /\ Last(cs).list \in 1..Len(lists)
            /\ Last(cs).pos \in 1..Len(lists[Last(cs).list])
            /\ HandOver(<<lists[Last(cs).list][Last(cs).pos]>>, Last(cs).since)
  PROVE  EachOnce'
<1>1. HistoryTyped /\ ListsTyped /\ Opened' \subseteq Conns
  BY DEF WellTyped, Opened
<1>2. /\ \A i \in DOMAIN new : new[i].list # 0 =>
           /\ i \in DOMAIN cs /\ new[i].since = cs[i].since
           /\ new[i].list = cs[i].list /\ new[i].pos = cs[i].pos
      /\ \A i \in DOMAIN new : Flushes(p, i)' <=> new[i].list # 0
  BY DEF Kept, Flushes
<1>3. OneFlushEach'
  <2> SUFFICES ASSUME NEW q \in Callers, NEW r \in Callers,
                      NEW i \in DOMAIN calls'[q], NEW j \in DOMAIN calls'[r],
                      Flushes(q, i)', Flushes(r, j)',
                      calls'[q][i].since = calls'[r][j].since
               PROVE  q = r /\ i = j
    BY DEF OneFlushEach
  <2>1. CASE q = p /\ r = p
    BY <1>2, <2>1 DEF AtNew
  <2>2. CASE q = p /\ r # p
    BY <1>2, <2>2 DEF AtNew, Flushes
  <2>3. CASE q # p /\ r = p
    BY <1>2, <2>3 DEF AtNew, Flushes
  <2>4. CASE q # p /\ r # p
    BY <2>4 DEF EachOnce, OneFlushEach, Flushes
  <2> QED
    BY <2>1, <2>2, <2>3, <2>4
<1>4. ASSUME NEW i \in DOMAIN new, new[i].list # 0
      PROVE  Upto(cs[i], cs[i].pos) \subseteq Come(calls[p][i])'
  <2>1. i \in DOMAIN cs /\ new[i].list = cs[i].list /\ new[i].pos = cs[i].pos
        /\ calls'[p][i] = new[i]
    BY <1>2, <1>4
  <2>2. PICK l \in 1..Len(lists), n \in Nat :
          l = cs[i].list /\ n = cs[i].pos /\ n \in 1..Len(lists[l])
    <3>1. Ready(cs)
      BY <2>1
    <3>2. cs[i].list \in 1..Len(lists) /\ cs[i].pos \in 1..Len(lists[cs[i].list])
          /\ cs[i] \in Calls
      BY <2>1, <3>1 DEF Ready
    <3> QED
      BY <3>2 DEF Calls
  <2>3. /\ l \in DOMAIN lists /\ DOMAIN lists[l] = 1..Len(lists[l])
        /\ Len(lists[l]) \in Nat
    BY <1>1, <2>2 DEF ListsTyped
  <2>4. \A x \in 1..n : x \in DOMAIN lists[l] /\ lists'[l][x] = lists[l][x]
    BY <2>2, <2>3 DEF ListsGrow
  <2>5. Come(calls[p][i])' = {lists'[l][x] : x \in 1..n}
    BY <2>1, <2>2 DEF Come
  <2>6. Upto(cs[i], cs[i].pos) = {lists[l][x] : x \in 1..n}
    BY <2>2 DEF Upto
  <2> QED
    BY <2>4, <2>5, <2>6
<1>5. ASSUME NEW q \in Callers \ {p}, NEW i \in DOMAIN calls[q], Flushes(q, i)
      PROVE  /\ calls'[q][i] = calls[q][i] /\ calls[q][i].since \in Opened
             /\ Gave(calls[q][i].since) \subseteq Come(calls[q][i])
             /\ Come(calls[q][i]) \subseteq Come(calls[q][i])'
  <2>1. PICK call : call = calls[q][i] /\ calls'[q][i] = call /\ call.list # 0
    BY <1>5 DEF Flushes
  <2>2. calls[q] \in Seq(Calls)
    BY DEF WellTyped, Stack
  <2>3. call \in Calls
    BY <2>1, <2>2
  <2>4. call.pos \in Nat /\ call.pos >= call.pos
    BY <2>3 DEF Calls
  <2>5. Come(calls[q][i]) \subseteq Come(call)'
    BY <2>1, <2>4, ComeMore
  <2>6. Come(call)' = Come(calls[q][i])'
    BY <2>1 DEF Come
  <2> QED
    BY <1>5, <2>1, <2>5, <2>6 DEF EachOnce, OnItsConnection
<1>6. CASE UNCHANGED <<handed, given>>
  <2>1. \A c \in Conns : Gave(c)' = Gave(c)
    BY <1>6 DEF Gave
  <2>2. RepeatsNeedReconnect' /\ \A c \in Conns \ Opened' : Gave(c)' = {}
    BY <1>6, <2>1 DEF EachOnce, RepeatsNeedReconnect
  <2>3. ASSUME NEW q \in Callers, NEW i \in DOMAIN calls'[q], Flushes(q, i)'
        PROVE  /\ calls'[q][i].since \in Opened'
               /\ Gave(calls[q][i].since)' \subseteq Come(calls[q][i])'
    <3>1. PICK c : c = calls'[q][i].since /\ Gave(c)' = Gave(calls[q][i].since)'
      BY DEF Gave
    <3>2. CASE q = p
      <4>1. c \in Opened' /\ Gave(c) \subseteq Upto(cs[i], cs[i].pos)
            /\ Upto(cs[i], cs[i].pos) \subseteq Come(calls[p][i])'
        BY <1>2, <1>4, <2>3, <3>1, <3>2 DEF AtNew
      <4> QED
        BY <1>1, <2>1, <3>1, <3>2, <4>1
    <3>3. CASE q # p
      <4>1. i \in DOMAIN calls[q] /\ Flushes(q, i)
        BY <2>3, <3>3 DEF Flushes
      <4>2. c \in Opened /\ Gave(c) \subseteq Come(calls[q][i])'
        BY <1>5, <3>1, <3>3, <4>1
      <4> QED
        BY <1>1, <2>1, <3>1, <4>2
    <3> QED
      BY <3>2, <3>3
  <2>4. OnItsConnection'
    BY <2>3 DEF OnItsConnection
  <2> QED
    BY <1>3, <2>2, <2>4 DEF EachOnce
<1>7. CASE /\ cs # <<>> /\ Last(cs).list \in 1..Len(lists)
           /\ Last(cs).pos \in 1..Len(lists[Last(cs).list])
           /\ HandOver(<<lists[Last(cs).list][Last(cs).pos]>>, Last(cs).since)
  <2>1. Ready(cs) /\ Last(cs) = cs[Len(cs)] /\ Len(cs) \in DOMAIN cs
    BY <1>7, ReadyRest DEF Ready
  <2>2. PICK z, l, n, c :
          /\ z = Len(cs) /\ l = cs[z].list /\ n = cs[z].pos /\ c = cs[z].since
          /\ z \in DOMAIN cs /\ l \in 1..Len(lists) /\ n \in 1..Len(lists[l])
          /\ c \in Conns /\ c \in Opened' /\ HandOver(<<lists[l][n]>>, c)
    BY <1>1, <1>7, <2>1 DEF AtNew
  <2>3. lists[l] \in Seq(Messages) /\ IsInjective(lists[l]) /\ DOMAIN lists[l] = 1..Len(lists[l])
        /\ Len(lists[l]) \in Nat
    BY <1>1, <2>2 DEF ListsTyped
  <2>4. PICK m \in Messages : m = lists[l][n]
    BY <2>2, <2>3
  <2>5. Gave(c) \subseteq Upto(cs[z], n - 1)
    BY <2>2 DEF AtNew
  <2>6. Upto(cs[z], n - 1) = {lists[l][x] : x \in 1..n - 1}
        /\ Upto(cs[z], n) = {lists[l][x] : x \in 1..n}
    BY <2>2 DEF Upto
  <2>7. m \notin Upto(cs[z], n - 1) /\ m \in Upto(cs[z], n)
        /\ Upto(cs[z], n - 1) \subseteq Upto(cs[z], n)
    <3>1. \A x \in 1..n - 1 : x # n /\ x \in 1..Len(lists[l]) /\ x \in 1..n
      BY <2>2, <2>3
    <3>2. n \in 1..n /\ n \in 1..Len(lists[l])
      BY <2>2, <2>3
    <3>3. \A x \in 1..n - 1 : lists[l][x] # lists[l][n]
      BY <2>3, <3>1, <3>2 DEF IsInjective
    <3> QED
      BY <2>4, <2>6, <3>1, <3>2, <3>3
  <2>8. given[<<m, c>>] = 0
    BY <2>4, <2>5, <2>7 DEF Gave
  <2>9. PICK u : u = <<m>> /\ ToSet(u) = {m} /\ HandOver(u, c)
    BY <2>2, <2>4, OneMessage
  <2>10. \A k \in Messages, d \in Conns :
           /\ k = m /\ d = c => given'[<<k, d>>] = given[<<k, d>>] + 1
           /\ ~(k = m /\ d = c) => given'[<<k, d>>] = given[<<k, d>>]
    <3>1. \A k \in Messages, d \in Conns :
            /\ k \in ToSet(u) /\ d = c => given'[<<k, d>>] = given[<<k, d>>] + 1
            /\ ~(k \in ToSet(u) /\ d = c) => given'[<<k, d>>] = given[<<k, d>>]
      <4>1. HistoryTyped /\ c \in Conns /\ HandOver(u, c)
        BY <1>1, <2>2, <2>9
      <4> QED
        BY <4>1, GivenOnceMore
    <3>2. \A k : k \in ToSet(u) <=> k = m
      BY <2>9
    <3> QED
      BY <3>1, <3>2
  <2>11. RepeatsNeedReconnect'
    <3> SUFFICES ASSUME NEW k \in Messages, NEW d \in Conns
                 PROVE  given'[<<k, d>>] <= 1
      BY DEF RepeatsNeedReconnect
    <3>1. given[<<k, d>>] <= 1
      BY DEF EachOnce, RepeatsNeedReconnect
    <3> QED
      BY <2>8, <2>10, <3>1
  <2>12. /\ \A d \in Conns : d # c => Gave(d)' = Gave(d)
         /\ Gave(c)' = Gave(c) \cup {m}
    <3>1. \A k \in Messages : given[<<k, c>>] \in Nat
      BY <1>1, <2>2 DEF HistoryTyped
    <3>2. /\ \A d \in Conns : Gave(d) = {k \in Messages : given[<<k, d>>] # 0}
          /\ \A d \in Conns : Gave(d)' = {k \in Messages : given'[<<k, d>>] # 0}
      BY DEF Gave
    <3>3. ASSUME NEW d \in Conns, d # c  PROVE Gave(d)' = Gave(d)
      <4>1. \A k \in Messages : given'[<<k, d>>] = given[<<k, d>>]
        BY <2>10, <3>3
      <4> QED
        BY <3>2, <4>1
    <3>4. \A k \in Messages : given'[<<k, c>>] # 0 <=> (given[<<k, c>>] # 0 \/ k = m)
      BY <2>2, <2>4, <2>8, <2>10, <3>1
    <3>5. Gave(c)' = Gave(c) \cup {m}
      <4>1. Gave(c) = {k \in Messages : given[<<k, c>>] # 0}
            /\ Gave(c)' = {k \in Messages : given'[<<k, c>>] # 0}
        BY <2>2, <3>2
      <4> QED
        BY <2>4, <3>4, <4>1
    <3> QED
      BY <3>3, <3>5
  <2>13. \A d \in Conns \ Opened' : Gave(d)' = {}
    BY <2>2, <2>12 DEF EachOnce
  <2>14. ASSUME NEW q \in Callers, NEW i \in DOMAIN calls'[q], Flushes(q, i)'
         PROVE  /\ calls'[q][i].since \in Opened'
                /\ Gave(calls[q][i].since)' \subseteq Come(calls[q][i])'
    <3>1. PICK d : d = calls'[q][i].since /\ Gave(d)' = Gave(calls[q][i].since)'
      BY DEF Gave
    <3>2. CASE q = p
      <4>1. /\ i \in DOMAIN cs /\ d \in Opened' /\ d = cs[i].since
            /\ Gave(d) \subseteq Upto(cs[i], cs[i].pos)
            /\ Upto(cs[i], cs[i].pos) \subseteq Come(calls[p][i])'
            /\ d = c => i = z
        <5>1. /\ i \in DOMAIN new /\ new[i].list # 0 /\ i \in DOMAIN cs
              /\ d = cs[i].since
          BY <1>2, <2>14, <3>1, <3>2
        <5>2. /\ cs[i].since \in Opened' /\ Gave(cs[i].since) \subseteq Upto(cs[i], cs[i].pos)
              /\ cs[z].since = cs[i].since => i = z
          BY <2>2, <5>1 DEF AtNew
        <5>3. Upto(cs[i], cs[i].pos) \subseteq Come(calls[p][i])'
          BY <1>4, <5>1
        <5> QED
          BY <2>2, <5>1, <5>2, <5>3
      <4>2. CASE d = c
        <5>1. m \in Upto(cs[i], cs[i].pos)
          BY <2>2, <2>7, <4>1, <4>2
        <5> QED
          BY <2>12, <3>1, <3>2, <4>1, <4>2, <5>1
      <4>3. CASE d # c
        BY <1>1, <2>12, <3>1, <3>2, <4>1, <4>3
      <4> QED
        BY <4>1, <4>2, <4>3, <3>1, <3>2
    <3>3. CASE q # p
      <4>1. i \in DOMAIN calls[q] /\ Flushes(q, i)
        BY <2>14, <3>3 DEF Flushes
      <4>2. d \in Opened /\ Gave(d) \subseteq Come(calls[q][i])' /\ d = calls[q][i].since
        BY <1>5, <3>1, <3>3, <4>1
      <4>3. d # c
        BY <2>2, <3>3, <4>1, <4>2 DEF AtNew
      <4> QED
        BY <1>1, <2>12, <3>1, <4>2, <4>3
    <3> QED
      BY <3>2, <3>3
  <2>15. OnItsConnection'
    BY <2>14 DEF OnItsConnection
  <2> QED
    BY <1>3, <2>11, <2>13, <2>15 DEF EachOnce
<1> QED
  BY <1>6, <1>7

(* A stack that went forward: its innermost flush at the next message.     *)
LEMMA ForwardIsNew ==
  ASSUME WellTyped, EachOnce, Opened \subseteq Opened', NEW p \in Callers,
         NEW cs, cs = <<>> \/ Ready(cs),
         \A i \in DOMAIN cs :
           /\ Flushes(p, i) /\ cs[i].since = calls[p][i].since
           /\ cs[i].list = calls[p][i].list /\ cs[i].pos >= calls[p][i].pos
           /\ i = Len(cs) => cs[i].pos = calls[p][i].pos + 1
  PROVE  AtNew(p, cs)
<1>1. ASSUME NEW i \in DOMAIN cs
      PROVE  /\ cs[i].since \in Opened'
             /\ Gave(cs[i].since) \subseteq Upto(cs[i], cs[i].pos)
             /\ i = Len(cs) => Gave(cs[i].since) \subseteq Upto(cs[i], cs[i].pos - 1)
  <2>1. i \in DOMAIN calls[p] /\ calls[p] \in Seq(Calls)
    BY DEF Flushes, WellTyped, Stack
  <2>2. PICK call \in Calls : call = calls[p][i]
    BY <2>1
  <2>3. cs[i].since \in Opened /\ Gave(cs[i].since) \subseteq Come(call)
    BY <2>1, <2>2 DEF EachOnce, OnItsConnection
  <2>4. PICK n \in Nat, b \in Nat : n = call.pos /\ b = cs[i].pos /\ b >= n
        /\ (i = Len(cs) => b = n + 1)
    <3>1. cs[i] \in Calls
      BY DEF Ready
    <3> QED
      BY <2>2, <3>1 DEF Calls
  <2>5. Come(call) = {lists[call.list][x] : x \in 1..n}
        /\ Upto(cs[i], b) = {lists[call.list][x] : x \in 1..b}
        /\ Upto(cs[i], b - 1) = {lists[call.list][x] : x \in 1..b - 1}
    BY <2>2, <2>4 DEF Come, Upto
  <2>6. 1..n \subseteq 1..b /\ (i = Len(cs) => 1..n \subseteq 1..b - 1)
    BY <2>4
  <2> QED
    BY <2>3, <2>4, <2>5, <2>6
<1>2. ASSUME NEW i \in DOMAIN cs, NEW j \in DOMAIN cs, cs[j].since = cs[i].since
      PROVE  i = j
  <2>1. i \in DOMAIN calls[p] /\ j \in DOMAIN calls[p] /\ Flushes(p, i) /\ Flushes(p, j)
        /\ calls[p][i].since = calls[p][j].since
    BY <1>2 DEF Flushes
  <2> QED
    BY <2>1 DEF EachOnce, OneFlushEach
<1>3. ASSUME NEW i \in DOMAIN cs, NEW q \in Callers \ {p}, NEW j \in DOMAIN calls[q],
             Flushes(q, j)
      PROVE  calls[q][j].since # cs[i].since
  <2>1. i \in DOMAIN calls[p] /\ Flushes(p, i) /\ cs[i].since = calls[p][i].since
    BY DEF Flushes
  <2> QED
    BY <1>3, <2>1 DEF EachOnce, OneFlushEach
<1> QED
  BY <1>1, <1>2, <1>3 DEF AtNew

LEMMA QuietStep ==
  ASSUME Inv, ListsGrow, NEW p \in Callers, NEW new, Stack(new),
         calls' = [calls EXCEPT ![p] = new],
         \A i \in DOMAIN new : new[i].list # 0 =>
           /\ i \in DOMAIN calls[p] /\ new[i].since = calls[p][i].since
           /\ new[i].list = calls[p][i].list /\ new[i].pos >= calls[p][i].pos,
         UNCHANGED <<conn, handed, given, listening>>,
         ws' \in 0..MaxConns, failures' \in 0..MaxFailures
  PROVE  Inv'
<1>1. WellTyped /\ InOrder /\ EachOnce /\ (listening # "no" => Opened # {})
  BY DEF Inv
<1>2. /\ DOMAIN calls' = Callers /\ calls' = [q \in Callers |-> calls'[q]]
      /\ \A q \in Callers : Stack(calls[q])'
      /\ calls'[p] = new /\ \A q \in Callers \ {p} : calls'[q] = calls[q]
  BY <1>1, CallsChange
<1>3. HistoryTyped'
  BY <1>1 DEF WellTyped, HistoryTyped
<1>4. WellTyped'
  BY <1>1, <1>2, <1>3 DEF WellTyped, ListsGrow
<1>5. Opened' = Opened /\ InOrder'
  BY <1>1, OpenedSame
<1>6. OnlyForward
  <2>1. ASSUME NEW q \in Callers \ {p}, NEW i \in DOMAIN calls[q]
        PROVE  calls[q][i].pos >= calls[q][i].pos
    <3>1. calls[q] \in Seq(Calls)
      BY <1>1 DEF WellTyped, Stack
    <3>2. calls[q][i] \in Calls
      BY <3>1
    <3> QED
      BY <3>2 DEF Calls
  <2> QED
    BY <1>2, <2>1 DEF OnlyForward
<1>7. EachOnce'
  BY <1>1, <1>4, <1>5, <1>6, EachOnceKept
<1> QED
  BY <1>1, <1>4, <1>5, <1>7 DEF Inv

LEMMA CallsStayStep ==
  ASSUME Inv, ListsGrow, UNCHANGED <<calls, handed, given>>,
         conn' \in [Conns -> States], Opened' = Opened, ws' \in 0..MaxConns,
         listening' \in {"no", "waiting", "connecting"}, failures' \in 0..MaxFailures,
         listening' = listening \/ listening' = "no" \/ listening # "no"
  PROVE  Inv'
<1>1. WellTyped /\ InOrder /\ EachOnce /\ (listening # "no" => Opened # {})
  BY DEF Inv
<1>2. /\ DOMAIN calls' = Callers /\ calls' = [q \in Callers |-> calls'[q]]
      /\ \A q \in Callers : Stack(calls[q])'
  BY <1>1, CallsStay
<1>3. HistoryTyped'
  BY <1>1 DEF WellTyped, HistoryTyped
<1>4. WellTyped'
  BY <1>1, <1>2, <1>3 DEF WellTyped, ListsGrow
<1>5. InOrder'
  BY <1>1 DEF InOrder
<1>6. OnlyForward
  <2>1. ASSUME NEW q \in Callers, NEW i \in DOMAIN calls[q]
        PROVE  calls[q][i].pos >= calls[q][i].pos
    <3>1. calls[q] \in Seq(Calls)
      BY <1>1 DEF WellTyped, Stack
    <3>2. calls[q][i] \in Calls
      BY <3>1
    <3> QED
      BY <3>2 DEF Calls
  <2> QED
    BY <2>1 DEF OnlyForward
<1>7. EachOnce'
  BY <1>1, <1>4, <1>5, <1>6, EachOnceKept
<1> QED
  BY <1>1, <1>4, <1>5, <1>7 DEF Inv

LEMMA FreshStack ==
  /\ Stack(<<NewCall>>) /\ \A i \in DOMAIN <<NewCall>> : <<NewCall>>[i].list = 0
  /\ Stack(<<>>)
<1>1. <<NewCall>> \in Seq(Calls) /\ Len(<<NewCall>>) = 1 /\ <<NewCall>>[1] = NewCall
      /\ DOMAIN <<NewCall>> = 1..1
  BY NewCallType
<1>2. OnItsList(NewCall)
  BY NewCallType DEF OnItsList
<1>3. Stack(<<>>)
  BY DEF Stack
<1> QED
  BY <1>1, <1>2, <1>3, NewCallType DEF Stack

LEMMA CallConnectStep ==
  ASSUME Inv, NEW p \in Callers, CallConnect(p) \/ SendFails(p)
  PROVE  Inv'
<1>1. WellTyped
  BY DEF Inv
<1>2. ListsGrow
  BY <1>1, SameLists DEF WellTyped, CallConnect, SendFails
<1>3. calls' = [calls EXCEPT ![p] = <<NewCall>>] /\ UNCHANGED <<conn, handed, given, listening, failures>>
  BY DEF CallConnect, SendFails
<1>4. ws' \in 0..MaxConns
  BY <1>1, SendBufferAssumption DEF CallConnect, SendFails, WellTyped
<1>5. failures' \in 0..MaxFailures
  BY <1>1, <1>3 DEF WellTyped
<1> QED
  BY <1>2, <1>3, <1>4, <1>5, FreshStack, QuietStep

(* The innermost of the calls is replaced by one that connects.            *)
LEMMA FailedStep ==
  ASSUME Inv, NEW p \in Callers, NEW cs, cs \in Seq(Calls), cs # <<>>, Len(cs) <= Len(calls[p]),
         \A i \in 1..Len(cs) : cs[i] = calls[p][i], cs[Len(cs)].tries < MaxRetries,
         calls' = [calls EXCEPT ![p] = Failed(cs)],
         UNCHANGED <<ws, conn, listening, lists, handed, given>>, failures' \in 0..MaxFailures
  PROVE  Inv'
<1>1. WellTyped
  BY DEF Inv
<1>2. ListsGrow
  BY <1>1, SameLists DEF WellTyped
<1>3. Stack(calls[p]) /\ calls[p] \in Seq(Calls)
  BY <1>1 DEF WellTyped, Stack
<1>4. PICK n \in Nat, m \in Nat : n = Len(cs) /\ n # 0 /\ m = Len(calls[p]) /\ n <= m
      /\ DOMAIN calls[p] = 1..m /\ Last(cs) = cs[n]
  BY <1>3 DEF Last
<1>5. ASSUME NEW i \in 1..n - 1
      PROVE  OnItsList(cs[i]) /\ cs[i].list # 0 /\ cs[i].tries < MaxRetries
  <2>1. i \in 1..n /\ i \in DOMAIN calls[p] /\ i < m
    BY <1>4
  <2>2. cs[i] = calls[p][i]
    BY <1>4, <2>1
  <2> QED
    BY <1>3, <1>4, <2>1, <2>2 DEF Stack
<1>6. PICK f : f = Failed(cs)
  OBVIOUS
<1>7. Stack(f) /\ Len(f) = n /\ Last(f).list = 0 /\ \A i \in 1..n - 1 : f[i] = cs[i]
  BY <1>4, <1>5, <1>6, StackFailed
<1>8. DOMAIN f = 1..n /\ Last(f) = f[n] /\ \A i \in 1..n : i = n \/ i \in 1..n - 1
  BY <1>4, <1>7 DEF Stack, Last
<1>9. ASSUME NEW i \in DOMAIN f, f[i].list # 0
      PROVE  /\ i \in DOMAIN calls[p] /\ f[i].since = calls[p][i].since
             /\ f[i].list = calls[p][i].list /\ f[i].pos >= calls[p][i].pos
  <2>1. i \in 1..n - 1
    BY <1>7, <1>8, <1>9
  <2>2. i \in 1..n /\ i \in DOMAIN calls[p]
    BY <1>4, <2>1
  <2>3. PICK call \in Calls : call = calls[p][i] /\ f[i] = call
    BY <1>3, <1>4, <1>7, <2>1, <2>2
  <2>4. call.pos >= call.pos
    BY DEF Calls
  <2> QED
    BY <2>2, <2>3, <2>4
<1>10. ws' \in 0..MaxConns /\ UNCHANGED <<conn, handed, given, listening>>
  BY <1>1 DEF WellTyped
<1>11. calls' = [calls EXCEPT ![p] = f]
  BY <1>6
<1> QED
  BY <1>2, <1>7, <1>9, <1>10, <1>11, QuietStep
LEMMA FailStep ==
  ASSUME Inv, NEW p \in Callers, Fail(p) \/ GiveUp(p)
  PROVE  Inv'
<1>1. WellTyped
  BY DEF Inv
<1>2. PICK cs \in Seq(Calls) : cs = calls[p] /\ Stack(cs)
  BY <1>1 DEF WellTyped, Stack
<1>3. cs # <<>> /\ Last(cs).list = 0
  BY <1>2 DEF Fail, GiveUp, Connecting
<1>4. PICK n \in Nat : n = Len(cs) /\ n # 0 /\ DOMAIN cs = 1..n /\ Last(cs) = cs[n] /\ n \in 1..n
  BY <1>3 DEF Last
<1>5. CASE Fail(p)
  <2>1. calls' = [calls EXCEPT ![p] = Failed(cs)] /\ failures' = failures + 1
        /\ failures < MaxFailures /\ cs[n].tries < MaxRetries
        /\ UNCHANGED <<ws, conn, listening, lists, handed, given>>
    BY <1>2, <1>4, <1>5 DEF Fail
  <2>2. failures' \in 0..MaxFailures
    BY <1>1, <2>1, SendBufferAssumption DEF WellTyped
  <2>3. Len(cs) <= Len(calls[p]) /\ \A i \in 1..Len(cs) : cs[i] = calls[p][i]
    BY <1>2, <1>4
  <2> QED
    <3>1. cs \in Seq(Calls) /\ cs # <<>> /\ Len(cs) <= Len(calls[p])
          /\ cs[Len(cs)].tries < MaxRetries
      BY <1>2, <1>3, <1>4, <2>1, <2>3
    <3>2. \A i \in 1..Len(cs) : cs[i] = calls[p][i]
      BY <2>3
    <3>3. calls' = [calls EXCEPT ![p] = Failed(cs)]
          /\ UNCHANGED <<ws, conn, listening, lists, handed, given>>
      BY <2>1
    <3> QED
      BY <2>2, <3>1, <3>2, <3>3, FailedStep
<1>6. CASE GiveUp(p) /\ n = 1
  <2>1. calls' = [calls EXCEPT ![p] = <<>>]
        /\ UNCHANGED <<ws, conn, listening, lists, handed, given, failures>>
    BY <1>2, <1>4, <1>6 DEF GiveUp
  <2>2. ListsGrow /\ ws' \in 0..MaxConns /\ failures' \in 0..MaxFailures
    BY <1>1, <2>1, SameLists DEF WellTyped
  <2>3. PICK f : f = <<>>
    OBVIOUS
  <2>4. Stack(f) /\ DOMAIN f = {}
    BY <2>3, FreshStack
  <2>5. \A i \in DOMAIN f : f[i].list # 0 =>
          /\ i \in DOMAIN calls[p] /\ f[i].since = calls[p][i].since
          /\ f[i].list = calls[p][i].list /\ f[i].pos >= calls[p][i].pos
    BY <2>4
  <2>6. calls' = [calls EXCEPT ![p] = f] /\ UNCHANGED <<conn, handed, given, listening>>
    BY <2>1, <2>3
  <2> QED
    BY <2>2, <2>4, <2>5, <2>6, QuietStep
<1>7. CASE GiveUp(p) /\ n # 1
  <2>1. PICK f \in Seq(Calls) : f = Front(cs) /\ Len(f) = n - 1 /\ \A i \in 1..n - 1 : f[i] = cs[i]
    BY <1>2, <1>3, <1>4, FrontIs
  <2>2. calls' = [calls EXCEPT ![p] = Failed(f)]
        /\ UNCHANGED <<ws, conn, listening, lists, handed, given, failures>>
    BY <1>2, <1>4, <1>7, <2>1 DEF GiveUp
  <2>3. n - 1 \in 1..n - 1 /\ n - 1 \in 1..n /\ n - 1 < n /\ n - 1 <= n
    BY <1>4, <1>7
  <2>4. f # <<>> /\ f[Len(f)].tries < MaxRetries
    <3>1. cs[n - 1].list # 0
      BY <1>2, <1>4, <2>3 DEF Stack
    <3>2. cs[n - 1].tries < MaxRetries
      BY <1>2, <1>4, <2>3, <3>1 DEF Stack
    <3> QED
      BY <2>1, <2>3, <3>2
  <2>5. failures' \in 0..MaxFailures
    BY <1>1, <2>2 DEF WellTyped
  <2> QED
    <3>1. Len(f) <= Len(calls[p])
      BY <1>2, <1>4, <2>1, <2>3
    <3>2. \A i \in 1..Len(f) : f[i] = calls[p][i]
      BY <1>2, <2>1
    <3> QED
      BY <2>1, <2>2, <2>4, <2>5, <3>1, <3>2, FailedStep, Zenon
<1> QED
  BY <1>5, <1>6, <1>7

LEMMA ResumeLostStep ==
  ASSUME Inv, NEW p \in Callers, ResumeLost(p)
  PROVE  Inv'
<1>1. WellTyped
  BY DEF Inv
<1>2. PICK cs \in Seq(Calls) : cs = calls[p] /\ Stack(cs)
  BY <1>1 DEF WellTyped, Stack
<1>3. cs # <<>> /\ Last(cs).list # 0 /\ ListsTyped
  BY <1>1, <1>2 DEF ResumeLost, Flushing, WellTyped
<1>4. PICK n \in Nat : n = Len(cs) /\ n # 0 /\ DOMAIN cs = 1..n /\ Last(cs) = cs[n] /\ n \in 1..n
  BY <1>3 DEF Last
<1>5. ASSUME NEW i \in 1..n
      PROVE  /\ cs[i].list \in 1..Len(lists) /\ cs[i].pos \in 1..Len(lists[cs[i].list])
             /\ cs[i].tries < MaxRetries /\ cs[i].on # 0
  <2>1. cs[i].list # 0
    BY <1>2, <1>3, <1>4 DEF Stack
  <2>2. cs[i] \in Calls /\ OnItsList(cs[i]) /\ cs[i].tries < MaxRetries
    BY <1>2, <1>4, <2>1 DEF Stack
  <2> QED
    BY <1>3, <2>1, <2>2, ListNumber
<1>6. Ready(cs) /\ Last(cs).on # 0
  BY <1>3, <1>4, <1>5 DEF Ready
<1>7. PICK f : f = Append(cs, NewCall)
  OBVIOUS
<1>8. Stack(f) /\ Len(f) = n + 1 /\ f[n + 1].list = 0 /\ \A i \in 1..n : f[i] = cs[i]
  BY <1>4, <1>6, <1>7, StackPushed
<1>9. DOMAIN f = 1..n + 1 /\ \A i \in 1..n + 1 : i = n + 1 \/ i \in 1..n
  BY <1>4, <1>8 DEF Stack
<1>10. calls' = [calls EXCEPT ![p] = f] /\ ws' = 0
       /\ UNCHANGED <<conn, listening, lists, handed, given, failures>>
  BY <1>2, <1>7 DEF ResumeLost
<1>11. ListsGrow /\ ws' \in 0..MaxConns /\ failures' \in 0..MaxFailures
  BY <1>1, <1>10, SameLists, SendBufferAssumption DEF WellTyped
<1>12. ASSUME NEW i \in DOMAIN f, f[i].list # 0
       PROVE  /\ i \in DOMAIN calls[p] /\ f[i].since = calls[p][i].since
              /\ f[i].list = calls[p][i].list /\ f[i].pos >= calls[p][i].pos
  <2>1. i \in 1..n
    BY <1>8, <1>9, <1>12
  <2>2. PICK call \in Calls : call = calls[p][i] /\ f[i] = call
    BY <1>2, <1>4, <1>8, <2>1
  <2>3. call.pos >= call.pos
    BY DEF Calls
  <2>4. i \in DOMAIN calls[p]
    BY <1>2, <1>4, <2>1
  <2> QED
    BY <2>2, <2>3, <2>4
<1> QED
  BY <1>8, <1>10, <1>11, <1>12, QuietStep

LEMMA OtherStep ==
  ASSUME Inv,
         \/ \E m \in Messages : Send(m)
         \/ ListenerSeesLoss \/ ListenerGivesUp
         \/ \E c \in Conns, how \in {"closed", "lost"} : End(c, how)
  PROVE  Inv'
<1>1. WellTyped /\ ListsTyped
  BY DEF Inv, WellTyped
<1>2. ASSUME NEW m \in Messages, Send(m)  PROVE Inv'
  <2>1. ListsGrow /\ UNCHANGED <<ws, conn, listening, calls, handed, given, failures>>
    BY <1>1, <1>2, BufferedLists DEF Send
  <2> QED
    BY <1>1, <2>1, OpenedSame, CallsStayStep DEF WellTyped
<1>3. CASE ListenerSeesLoss
  <2>1. ListsGrow /\ UNCHANGED <<conn, calls, lists, handed, given, failures>>
        /\ ws' = 0 /\ listening = "waiting" /\ listening' = "connecting"
    BY <1>1, <1>3, SameLists DEF ListenerSeesLoss
  <2>2. ws' \in 0..MaxConns
    BY <2>1, SendBufferAssumption
  <2> QED
    BY <1>1, <2>1, <2>2, OpenedSame, CallsStayStep DEF WellTyped
<1>4. CASE ListenerGivesUp
  <2>1. ListsGrow /\ UNCHANGED <<ws, conn, calls, lists, handed, given>>
        /\ listening' = "no" /\ failures' = failures + MaxRetries
        /\ failures + MaxRetries <= MaxFailures
    BY <1>1, <1>4, SameLists DEF ListenerGivesUp
  <2>2. failures' \in 0..MaxFailures
    BY <1>1, <2>1, SendBufferAssumption DEF WellTyped
  <2> QED
    BY <1>1, <2>1, <2>2, OpenedSame, CallsStayStep DEF WellTyped
<1>5. ASSUME NEW c \in Conns, NEW how \in {"closed", "lost"}, End(c, how)  PROVE Inv'
  <2>1. ListsGrow /\ UNCHANGED <<ws, listening, calls, lists, handed, given, failures>>
        /\ conn[c] = "open" /\ conn' = [conn EXCEPT ![c] = how]
    BY <1>1, <1>5, SameLists DEF End
  <2>2. conn' \in [Conns -> States]
    BY <1>1, <2>1 DEF WellTyped, States
  <2>3. Opened' = Opened
    BY <1>1, <2>1 DEF WellTyped, Opened, Unborn, States
  <2> QED
    BY <1>1, <2>1, <2>2, <2>3, CallsStayStep DEF WellTyped
<1> QED
  BY <1>2, <1>3, <1>4, <1>5
(* A flush that goes on, or the one it returns to, is at its next message. *)
LEMMA ForwardOf ==
  ASSUME NEW old, Stack(old), ListsTyped, NEW cs,
         \/ /\ cs = NextMessage(old) /\ old # <<>> /\ Last(old).list # 0
            /\ Last(old).pos < Len(lists[Last(old).list])
         \/ cs = Unwound(old)
  PROVE  /\ cs = <<>> \/ (Ready(cs) /\ Last(cs).on # 0)
         /\ \A i \in DOMAIN cs :
              /\ i \in DOMAIN old /\ old[i].list # 0 /\ cs[i].since = old[i].since
              /\ cs[i].list = old[i].list /\ cs[i].pos >= old[i].pos
              /\ i = Len(cs) => cs[i].pos = old[i].pos + 1
<1>1. PICK n \in Nat : n = Len(old) /\ DOMAIN old = 1..n /\ \A i \in 1..n : old[i] \in Calls
  BY DEF Stack
<1>2. ASSUME NEW k \in 1..n, cs # <<>>, Ready(cs), Len(cs) = k,
             cs[k] = [old[k] EXCEPT !.pos = @ + 1], \A i \in 1..k - 1 : cs[i] = old[i]
      PROVE  \A i \in DOMAIN cs :
              /\ i \in DOMAIN old /\ old[i].list # 0 /\ cs[i].since = old[i].since
              /\ cs[i].list = old[i].list /\ cs[i].pos >= old[i].pos
              /\ i = Len(cs) => cs[i].pos = old[i].pos + 1
  <2>1. DOMAIN cs = 1..k /\ \A i \in 1..k : i \in 1..n /\ (i = k \/ i \in 1..k - 1)
    BY <1>1, <1>2 DEF Ready
  <2>2. SUFFICES ASSUME NEW i \in 1..k
                 PROVE  /\ i \in DOMAIN old /\ old[i].list # 0 /\ cs[i].since = old[i].since
                        /\ cs[i].list = old[i].list /\ cs[i].pos >= old[i].pos
                        /\ i = Len(cs) => cs[i].pos = old[i].pos + 1
    BY <2>1
  <2>3. PICK y \in Calls : y = old[i] /\ i \in DOMAIN old
    BY <1>1, <2>1
  <2>4. y.pos \in Nat /\ cs[i].list # 0
    <3>1. cs[i].list \in 1..Len(lists) /\ Len(lists) \in Nat
      BY <1>2, <2>1 DEF Ready, ListsTyped
    <3> QED
      BY <2>3, <3>1 DEF Calls
  <2>5. CASE i = k
    <3>1. cs[i] = [y EXCEPT !.pos = @ + 1]
      BY <1>2, <2>3, <2>5
    <3>2. cs[i].list = y.list /\ cs[i].since = y.since /\ cs[i].pos = y.pos + 1
      BY <3>1 DEF Calls
    <3> QED
      BY <2>3, <2>4, <3>2
  <2>6. CASE i # k
    <3>1. cs[i] = y /\ i # Len(cs)
      BY <1>2, <2>1, <2>3, <2>6
    <3> QED
      BY <2>3, <2>4, <3>1
  <2> QED
    BY <2>5, <2>6
<1>3. CASE /\ cs = NextMessage(old) /\ old # <<>> /\ Last(old).list # 0
           /\ Last(old).pos < Len(lists[Last(old).list])
  <2>1. /\ Ready(cs) /\ Last(cs).on # 0 /\ Len(cs) = Len(old)
        /\ \A i \in 1..Len(old) - 1 : cs[i] = old[i]
    BY <1>3, NextMessageReady
  <2>2. cs[Len(old)] = [Last(old) EXCEPT !.pos = @ + 1]
    BY <1>3, NextMessageReady
  <2>3. n \in 1..n /\ n = Len(old) /\ Last(old) = old[n] /\ cs # <<>>
    BY <1>1, <1>3, <2>1, StackLast DEF Ready
  <2>4. cs[n] = [old[n] EXCEPT !.pos = @ + 1] /\ Len(cs) = n
        /\ \A i \in 1..n - 1 : cs[i] = old[i]
    BY <2>1, <2>2, <2>3
  <2> QED
    BY <1>2, <2>1, <2>3, <2>4
<1>4. CASE cs = Unwound(old) /\ cs # <<>>
  <2>1. /\ Ready(cs) /\ Last(cs).on # 0 /\ Len(cs) \in 1..n - 1
        /\ cs[Len(cs)] = [old[Len(cs)] EXCEPT !.pos = @ + 1]
        /\ \A i \in 1..Len(cs) - 1 : cs[i] = old[i]
    BY <1>1, <1>4, UnwoundReady
  <2>2. PICK k \in 1..n : k = Len(cs)
    BY <1>1, <2>1
  <2>3. cs[k] = [old[k] EXCEPT !.pos = @ + 1] /\ \A i \in 1..k - 1 : cs[i] = old[i]
    BY <2>1, <2>2
  <2> QED
    BY <1>2, <1>4, <2>1, <2>2, <2>3
<1>5. CASE cs = <<>>
  BY <1>5
<1> QED
  BY <1>3, <1>4, <1>5

(* The next callback of a flush that was resumed, on the connection in use. *)
LEMMA ResumeStep ==
  ASSUME Inv, NEW p \in Callers, Resume(p)
  PROVE  Inv'
<1>1. WellTyped /\ ListsTyped /\ HistoryTyped /\ EachOnce /\ InOrder
      /\ (listening # "no" => Opened # {})
  BY DEF Inv, WellTyped
<1>2. PICK old \in Seq(Calls) : old = calls[p] /\ Stack(old)
  BY <1>1 DEF WellTyped, Stack
<1>3. old # <<>> /\ Last(old).list # 0 /\ UNCHANGED <<conn, listening, failures>>
  BY <1>2 DEF Resume, Flushing
<1>4. PICK cs :
        /\ Run(p, cs, ws)
        /\ \/ cs = NextMessage(old) /\ Last(old).pos < Len(lists[Last(old).list])
              /\ UNCHANGED lists
           \/ cs = Unwound(old) /\ lists' = Cleared
  BY <1>2 DEF Resume
<1>5. ListsGrow
  BY <1>1, <1>4, SameLists, ClearedLists
<1>6. /\ cs = <<>> \/ (Ready(cs) /\ Last(cs).on # 0)
      /\ \A i \in DOMAIN cs :
           /\ Flushes(p, i) /\ cs[i].since = calls[p][i].since
           /\ cs[i].list = calls[p][i].list /\ cs[i].pos >= calls[p][i].pos
           /\ i = Len(cs) => cs[i].pos = calls[p][i].pos + 1
  <2>1. \/ /\ cs = NextMessage(old) /\ old # <<>> /\ Last(old).list # 0
           /\ Last(old).pos < Len(lists[Last(old).list])
        \/ cs = Unwound(old)
    BY <1>3, <1>4
  <2>2. /\ cs = <<>> \/ (Ready(cs) /\ Last(cs).on # 0)
        /\ \A i \in DOMAIN cs :
             /\ i \in DOMAIN old /\ old[i].list # 0 /\ cs[i].since = old[i].since
             /\ cs[i].list = old[i].list /\ cs[i].pos >= old[i].pos
             /\ i = Len(cs) => cs[i].pos = old[i].pos + 1
    BY <1>1, <1>2, <2>1, ForwardOf
  <2> QED
    BY <1>2, <2>2 DEF Flushes
<1>7. PICK new :
        /\ Stack(new) /\ Kept(new, cs) /\ calls' = [calls EXCEPT ![p] = new]
        /\ ws' \in 0..MaxConns /\ HistoryTyped'
        /\ \/ UNCHANGED <<handed, given>>
           \/ /\ cs # <<>> /\ Last(cs).list \in 1..Len(lists)
              /\ Last(cs).pos \in 1..Len(lists[Last(cs).list])
              /\ HandOver(<<lists[Last(cs).list][Last(cs).pos]>>, Last(cs).since)
  <2>1. ws \in 0..MaxConns /\ (cs = <<>> \/ Ready(cs))
        /\ (cs # <<>> /\ ws # 0 /\ conn'[ws] = "lost" => Last(cs).on # 0)
    BY <1>1, <1>6 DEF WellTyped
  <2> QED
    BY <1>1, <1>4, <2>1, Ran
<1>8. /\ DOMAIN calls' = Callers /\ calls' = [q \in Callers |-> calls'[q]]
      /\ \A q \in Callers : Stack(calls[q])'
      /\ calls'[p] = new /\ \A q \in Callers \ {p} : calls'[q] = calls[q]
  BY <1>1, <1>5, <1>7, CallsChange
<1>9. WellTyped'
  BY <1>1, <1>3, <1>5, <1>7, <1>8 DEF WellTyped, ListsGrow
<1>10. Opened' = Opened /\ InOrder'
  BY <1>1, <1>3, OpenedSame
<1>11. AtNew(p, cs)
  BY <1>1, <1>6, <1>10, ForwardIsNew
<1>12. EachOnce'
  BY <1>1, <1>5, <1>6, <1>7, <1>8, <1>9, <1>10, <1>11, RanOnce
<1> QED
  BY <1>1, <1>3, <1>9, <1>10, <1>12 DEF Inv
(* A flush begins, on the connection c and the current list.               *)
Started(cs, c) == [cs EXCEPT ![Len(cs)].since = c, ![Len(cs)].list = Len(lists),
                             ![Len(cs)].pos = 1]

LEMMA StartedReady ==
  ASSUME NEW cs, Stack(cs), ListsTyped, cs # <<>>, Last(cs).tries < MaxRetries,
         sendBuffer # <<>>, NEW c \in Conns
  PROVE  /\ Ready(Started(cs, c)) /\ Len(Started(cs, c)) = Len(cs)
         /\ Started(cs, c)[Len(cs)].list = Len(lists) /\ Started(cs, c)[Len(cs)].pos = 1
         /\ Started(cs, c)[Len(cs)].since = c
         /\ \A i \in 1..Len(cs) - 1 : Started(cs, c)[i] = cs[i]
<1>1. PICK n \in Nat : n = Len(cs) /\ n # 0 /\ DOMAIN cs = 1..n /\ Last(cs) = cs[n] /\ n \in 1..n
      /\ cs \in Seq(Calls)
  BY DEF Last, Stack
<1>2. PICK l \in Nat : l = Len(lists) /\ l # 0 /\ DOMAIN lists = 1..l /\ sendBuffer = lists[l] /\ l \in 1..l
  BY DEF ListsTyped, sendBuffer, Last
<1>3. lists[l] \in Seq(Messages) /\ lists[l] # <<>>
  BY <1>2 DEF ListsTyped
<1>4. 1 \in 1..Len(lists[l])
  BY <1>3
<1>5. PICK y \in Calls : y = cs[n]
  BY <1>1
<1>6. PICK x : x = [y EXCEPT !.since = c, !.list = l, !.pos = 1]
  OBVIOUS
<1>7. x \in Calls /\ x.since = c /\ x.list = l /\ x.pos = 1 /\ x.tries = y.tries
  <2>1. c \in 0..MaxConns
    BY SendBufferAssumption DEF Conns
  <2> QED
    BY <1>5, <1>6, <2>1 DEF Calls
<1>8. PICK new : new = [cs EXCEPT ![n] = x]
  OBVIOUS
<1>9. new \in Seq(Calls) /\ Len(new) = n /\ new[n] = x /\ \A i \in 1..n - 1 : new[i] = cs[i]
  BY <1>1, <1>7, <1>8, ExceptSeq
<1>10. Started(cs, c) = new
  BY <1>1, <1>2, <1>5, <1>6, <1>8 DEF Started
<1>11. DOMAIN new = 1..n /\ \A i \in 1..n : i = n \/ (i \in 1..n - 1 /\ i < n)
  BY <1>1, <1>9
<1>12. ASSUME NEW i \in 1..n - 1
       PROVE  /\ cs[i].list \in 1..Len(lists) /\ cs[i].pos \in 1..Len(lists[cs[i].list])
              /\ cs[i].tries < MaxRetries /\ cs[i].on # 0
  <2>1. i \in DOMAIN cs /\ i < Len(cs)
    BY <1>1
  <2>2. cs[i] \in Calls /\ OnItsList(cs[i]) /\ cs[i].list # 0 /\ cs[i].tries < MaxRetries
    BY <1>1, <2>1 DEF Stack
  <2> QED
    BY <2>2, ListNumber
<1>13. ASSUME NEW i \in 1..n
       PROVE  /\ new[i].list \in 1..Len(lists) /\ new[i].pos \in 1..Len(lists[new[i].list])
              /\ new[i].tries < MaxRetries
              /\ i < n => new[i].on # 0
  <2>1. CASE i = n
    BY <1>1, <1>2, <1>4, <1>5, <1>7, <1>9, <2>1
  <2>2. CASE i \in 1..n - 1
    BY <1>9, <1>12, <2>2
  <2> QED
    BY <1>11, <2>1, <2>2
<1>14. Ready(new)
  <2>1. new # <<>>
    BY <1>1, <1>9
  <2> QED
    BY <1>9, <1>11, <1>13, <2>1 DEF Ready
<1> QED
  BY <1>1, <1>2, <1>7, <1>9, <1>10, <1>14

LEMMA SucceedStep ==
  ASSUME Inv, NEW p \in Callers, Succeed(p)
  PROVE  Inv'
<1>1. WellTyped /\ ListsTyped /\ HistoryTyped /\ EachOnce /\ InOrder
      /\ conn \in [Conns -> States]
  BY DEF Inv, WellTyped
<1>2. PICK old \in Seq(Calls) : old = calls[p] /\ Stack(old)
  BY <1>1 DEF WellTyped, Stack
<1>3. old # <<>> /\ Last(old).list = 0 /\ Last(old).tries < MaxRetries
      /\ UNCHANGED <<lists, failures>> /\ listening' = "waiting" /\ Unborn # {}
  BY <1>2 DEF Succeed, Connecting
<1>4. PICK n \in Nat : n = Len(old) /\ n # 0 /\ DOMAIN old = 1..n /\ Last(old) = old[n] /\ n \in 1..n
  BY <1>3 DEF Last
<1>5. PICK k \in Nat : /\ Opened = 1..k /\ Min(Unborn) = k + 1 /\ k + 1 \in Conns
                       /\ conn[k + 1] = "unborn" /\ k < MaxConns
  BY <1>1, <1>3, OpensNext
<1>6. conn' = [conn EXCEPT ![k + 1] = "open"]
  BY <1>5 DEF Succeed
<1>7. conn' \in [Conns -> States] /\ Opened' = 1..k + 1 /\ InOrder' /\ conn'[k + 1] = "open"
  BY <1>1, <1>5, <1>6, OpenedNext
<1>8. PICK cs : /\ Run(p, cs, k + 1)
                /\ \/ cs = Unwound(old)
                   \/ cs = Started(old, k + 1) /\ sendBuffer # <<>>
  BY <1>2, <1>5 DEF Succeed, Flush, Started
<1>9. Opened \subseteq Opened' /\ k + 1 \in Opened' /\ k + 1 \notin Opened
  <2>1. \A c \in 1..k : c \in 1..k + 1 /\ c # k + 1
    OBVIOUS
  <2>2. k + 1 \in 1..k + 1
    OBVIOUS
  <2> QED
    BY <1>5, <1>7, <2>1, <2>2
<1>10. (cs = <<>> \/ Ready(cs)) /\ AtNew(p, cs)
  <2>1. CASE cs = Unwound(old)
    <3>1. /\ cs = <<>> \/ (Ready(cs) /\ Last(cs).on # 0)
          /\ \A i \in DOMAIN cs :
               /\ i \in DOMAIN old /\ old[i].list # 0 /\ cs[i].since = old[i].since
               /\ cs[i].list = old[i].list /\ cs[i].pos >= old[i].pos
               /\ i = Len(cs) => cs[i].pos = old[i].pos + 1
      BY <1>1, <1>2, <2>1, ForwardOf
    <3>2. \A i \in DOMAIN cs :
            /\ Flushes(p, i) /\ cs[i].since = calls[p][i].since
            /\ cs[i].list = calls[p][i].list /\ cs[i].pos >= calls[p][i].pos
            /\ i = Len(cs) => cs[i].pos = calls[p][i].pos + 1
      BY <1>2, <3>1 DEF Flushes
    <3> QED
      BY <1>1, <1>9, <3>1, <3>2, ForwardIsNew
  <2>2. CASE cs = Started(old, k + 1) /\ sendBuffer # <<>>
    <3>1. /\ Ready(cs) /\ Len(cs) = n
          /\ cs[n].list = Len(lists) /\ cs[n].pos = 1 /\ cs[n].since = k + 1
          /\ \A i \in 1..n - 1 : cs[i] = old[i]
      BY <1>1, <1>2, <1>3, <1>4, <1>5, <2>2, StartedReady
    <3>2. DOMAIN cs = 1..n /\ \A i \in 1..n : i = n \/ (i \in 1..n - 1 /\ i # n)
      BY <1>4, <3>1 DEF Ready
    <3>3. Gave(k + 1) = {}
      BY <1>1, <1>5, <1>9 DEF EachOnce
    <3>4. ASSUME NEW i \in 1..n - 1
          PROVE  /\ Flushes(p, i) /\ cs[i] = calls[p][i] /\ cs[i].since \in Opened
                 /\ Gave(cs[i].since) \subseteq Upto(cs[i], cs[i].pos)
      <4>1. i \in DOMAIN old /\ i < Len(old) /\ cs[i] = calls[p][i]
        BY <1>2, <1>4, <3>1
      <4>2. Flushes(p, i)
        BY <1>2, <4>1 DEF Stack, Flushes
      <4>3. Come(calls[p][i]) = Upto(cs[i], cs[i].pos)
        BY <4>1 DEF Come, Upto
      <4> QED
        BY <1>1, <1>2, <4>1, <4>2, <4>3 DEF EachOnce, OnItsConnection
    <3>5. ASSUME NEW i \in 1..n
          PROVE  /\ cs[i].since \in Opened'
                 /\ Gave(cs[i].since) \subseteq Upto(cs[i], cs[i].pos)
                 /\ i = Len(cs) => Gave(cs[i].since) \subseteq Upto(cs[i], cs[i].pos - 1)
      <4>1. CASE i = n
        BY <1>9, <3>1, <3>3, <4>1
      <4>2. CASE i # n
        BY <1>9, <3>1, <3>2, <3>4, <4>2
      <4> QED
        BY <4>1, <4>2
    <3>6. ASSUME NEW i \in 1..n, NEW j \in 1..n, cs[j].since = cs[i].since
          PROVE  i = j
      <4>1. CASE i = n \/ j = n
        BY <1>9, <3>1, <3>2, <3>4, <3>6, <4>1
      <4>2. CASE i # n /\ j # n
        <5>1. /\ Flushes(p, i) /\ Flushes(p, j) /\ i \in DOMAIN calls[p]
              /\ j \in DOMAIN calls[p] /\ calls[p][i].since = calls[p][j].since
          BY <3>2, <3>4, <3>6, <4>2 DEF Flushes
        <5> QED
          BY <1>1, <5>1 DEF EachOnce, OneFlushEach
      <4> QED
        BY <4>1, <4>2
    <3>7. ASSUME NEW i \in 1..n, NEW q \in Callers \ {p}, NEW j \in DOMAIN calls[q],
                 Flushes(q, j)
          PROVE  calls[q][j].since # cs[i].since
      <4>1. calls[q][j].since \in Opened
        BY <1>1, <3>7 DEF EachOnce, OnItsConnection
      <4>2. CASE i = n
        BY <1>9, <3>1, <4>1, <4>2
      <4>3. CASE i # n
        <5>1. Flushes(p, i) /\ i \in DOMAIN calls[p] /\ cs[i].since = calls[p][i].since
          BY <3>2, <3>4, <4>3 DEF Flushes
        <5> QED
          BY <1>1, <3>7, <5>1 DEF EachOnce, OneFlushEach
      <4> QED
        BY <4>2, <4>3
    <3>8. AtNew(p, cs)
      BY <3>2, <3>5, <3>6, <3>7 DEF AtNew
    <3> QED
      BY <3>1, <3>8
  <2> QED
    BY <1>8, <2>1, <2>2
<1>11. PICK new :
         /\ Stack(new) /\ Kept(new, cs) /\ calls' = [calls EXCEPT ![p] = new]
         /\ ws' \in 0..MaxConns /\ HistoryTyped'
         /\ \/ UNCHANGED <<handed, given>>
            \/ /\ cs # <<>> /\ Last(cs).list \in 1..Len(lists)
               /\ Last(cs).pos \in 1..Len(lists[Last(cs).list])
               /\ HandOver(<<lists[Last(cs).list][Last(cs).pos]>>, Last(cs).since)
  <2>1. k + 1 \in 0..MaxConns
    BY <1>5, SendBufferAssumption DEF Conns
  <2>2. ~(conn'[k + 1] = "lost")
    BY <1>7
  <2> QED
    BY <1>1, <1>8, <1>10, <2>1, <2>2, Ran
<1>12. ListsGrow
  BY <1>1, <1>3, SameLists
<1>13. /\ DOMAIN calls' = Callers /\ calls' = [q \in Callers |-> calls'[q]]
       /\ \A q \in Callers : Stack(calls[q])'
       /\ calls'[p] = new /\ \A q \in Callers \ {p} : calls'[q] = calls[q]
  BY <1>1, <1>11, <1>12, CallsChange
<1>14. WellTyped'
  BY <1>1, <1>3, <1>7, <1>11, <1>12, <1>13 DEF WellTyped, ListsGrow
<1>15. EachOnce'
  BY <1>1, <1>9, <1>10, <1>11, <1>12, <1>13, <1>14, RanOnce
<1>16. Opened' # {}
  BY <1>9
<1> QED
  BY <1>7, <1>14, <1>15, <1>16 DEF Inv
(* The flush of the listening task, which nothing interrupts.              *)
LEMMA ListenerConnectsStep ==
  ASSUME Inv, ListenerConnects
  PROVE  Inv'
<1>1. WellTyped /\ ListsTyped /\ HistoryTyped /\ EachOnce /\ InOrder
      /\ conn \in [Conns -> States]
  BY DEF Inv, WellTyped
<1>2. Unborn # {} /\ listening = "connecting" /\ listening' = "waiting" /\ ws' = Min(Unborn)
      /\ UNCHANGED <<calls, failures>>
  BY DEF ListenerConnects
<1>5. PICK k \in Nat : /\ Opened = 1..k /\ Min(Unborn) = k + 1 /\ k + 1 \in Conns
                       /\ conn[k + 1] = "unborn" /\ k < MaxConns
  BY <1>1, <1>2, OpensNext
<1>6. conn' = [conn EXCEPT ![k + 1] = "open"]
  BY <1>5 DEF ListenerConnects
<1>7. conn' \in [Conns -> States] /\ Opened' = 1..k + 1 /\ InOrder'
  BY <1>1, <1>5, <1>6, OpenedNext
<1>8. PICK s \in Seq(Messages) : s = sendBuffer /\ IsInjective(s)
  <2>1. Len(lists) \in DOMAIN lists
    BY <1>1 DEF ListsTyped
  <2> QED
    BY <1>1, <2>1 DEF ListsTyped, sendBuffer, Last
<1>9. PICK ms : /\ ms \in Seq(Messages) /\ IsInjective(ms) /\ HandOver(ms, k + 1)
                /\ lists' = Cleared \/ UNCHANGED lists
  <2>1. CASE HandOver(sendBuffer, k + 1) /\ lists' = Cleared
    BY <1>8, <2>1
  <2>2. ASSUME NEW m \in 1..Len(sendBuffer), HandOver(SubSeq(sendBuffer, 1, m), k + 1), UNCHANGED lists
        PROVE  SubSeq(s, 1, m) \in Seq(Messages) /\ IsInjective(SubSeq(s, 1, m))
               /\ HandOver(SubSeq(s, 1, m), k + 1)
    <3>1. m \in Nat /\ m # 0 /\ DOMAIN s = 1..Len(s) /\ \A i \in 1..m : s[i] \in Messages /\ i \in 1..Len(s)
      BY <1>8
    <3>2. PICK t : t = SubSeq(s, 1, m)
      OBVIOUS
    <3>3. /\ t \in Seq(Messages) /\ Len(t) = IF 1 <= m THEN m - 1 + 1 ELSE 0
          /\ \A i \in 1..m - 1 + 1 : t[i] = s[1 + i - 1]
      BY <3>1, <3>2, SubSeqProperties
    <3>4. m - 1 + 1 = m /\ 1 <= m /\ \A i \in 1..m : 1 + i - 1 = i
      BY <3>1
    <3>5. DOMAIN t = 1..m /\ \A i \in 1..m : t[i] = s[i]
      BY <3>3, <3>4
    <3>6. IsInjective(t)
      BY <1>8, <3>1, <3>5 DEF IsInjective
    <3> QED
      BY <1>8, <2>2, <3>2, <3>3, <3>6
  <2> QED
    BY <1>5, <2>1, <2>2 DEF ListenerConnects
<1>10. HistoryTyped'
  BY <1>1, <1>9, HandOverType
<1>11. ListsGrow
  BY <1>1, <1>9, SameLists, ClearedLists
<1>12. /\ DOMAIN calls' = Callers /\ calls' = [q \in Callers |-> calls'[q]]
       /\ \A q \in Callers : Stack(calls[q])'
  BY <1>1, <1>2, <1>11, CallsStay
<1>13. ws' \in 0..MaxConns
  BY <1>2, <1>5, SendBufferAssumption DEF Conns
<1>14. WellTyped'
  BY <1>1, <1>2, <1>7, <1>10, <1>11, <1>12, <1>13 DEF WellTyped, ListsGrow
<1>15. \A m \in Messages, d \in Conns :
         /\ m \in ToSet(ms) /\ d = k + 1 => given'[<<m, d>>] = given[<<m, d>>] + 1
         /\ ~(m \in ToSet(ms) /\ d = k + 1) => given'[<<m, d>>] = given[<<m, d>>]
  BY <1>1, <1>5, <1>9, GivenOnceMore
<1>16. Opened \subseteq Opened' /\ k + 1 \in Opened' /\ k + 1 \notin Opened
  <2>1. \A c \in 1..k : c \in 1..k + 1 /\ c # k + 1
    OBVIOUS
  <2>2. k + 1 \in 1..k + 1
    OBVIOUS
  <2> QED
    BY <1>5, <1>7, <2>1, <2>2
<1>17. \A d \in Conns : d # k + 1 => Gave(d)' = Gave(d)
  BY <1>15 DEF Gave
<1>18. RepeatsNeedReconnect'
  <2> SUFFICES ASSUME NEW m \in Messages, NEW d \in Conns
               PROVE  given'[<<m, d>>] <= 1
    BY DEF RepeatsNeedReconnect
  <2>1. given[<<m, d>>] <= 1
    BY <1>1 DEF EachOnce, RepeatsNeedReconnect
  <2>2. d = k + 1 => given[<<m, d>>] = 0
    BY <1>1, <1>16 DEF EachOnce, Gave
  <2> QED
    BY <1>15, <2>1, <2>2
<1>19. OnItsConnection' /\ OneFlushEach'
  <2>1. ASSUME NEW p \in Callers, NEW i \in DOMAIN calls[p], Flushes(p, i)
        PROVE  /\ calls[p][i].since \in Opened'
               /\ Gave(calls[p][i].since)' \subseteq Come(calls[p][i])'
    <3>1. PICK call : call = calls[p][i] /\ call.list # 0 /\ calls'[p][i] = call
      BY <1>2, <2>1 DEF Flushes
    <3>2. calls[p] \in Seq(Calls)
      BY <1>1 DEF WellTyped, Stack
    <3>3. call \in Calls
      BY <3>1, <3>2
    <3>4. call.pos \in Nat /\ call.pos >= call.pos
      BY <3>3 DEF Calls
    <3>5. Come(calls[p][i]) \subseteq Come(call)'
      BY <1>1, <1>11, <3>1, <3>4, ComeMore
    <3>6. call.since \in Opened /\ Gave(call.since) \subseteq Come(calls[p][i])
      BY <1>1, <2>1, <3>1 DEF EachOnce, OnItsConnection
    <3>7. Gave(call.since)' = Gave(call.since)
      BY <1>16, <1>17, <3>6 DEF Opened
    <3>8. Come(call)' = Come(calls[p][i])' /\ Gave(call.since)' = Gave(calls[p][i].since)'
      BY <3>1 DEF Come, Gave
    <3> QED
      BY <1>16, <3>1, <3>5, <3>6, <3>7, <3>8
  <2>2. OnItsConnection'
    BY <1>2, <2>1 DEF OnItsConnection, Flushes
  <2>3. OneFlushEach'
    BY <1>1, <1>2 DEF EachOnce, OneFlushEach, Flushes
  <2> QED
    BY <2>2, <2>3
<1>20. EachOnce'
  <2>1. \A d \in Conns \ Opened' : Gave(d)' = {}
    BY <1>1, <1>16, <1>17 DEF EachOnce
  <2> QED
    BY <1>18, <1>19, <2>1 DEF EachOnce
<1> QED
  BY <1>7, <1>14, <1>16, <1>20 DEF Inv

LEMMA StutterStep ==
  ASSUME Inv, UNCHANGED vars
  PROVE  Inv'
<1>1. WellTyped /\ ListsTyped
  BY DEF Inv, WellTyped
<1>2. ListsGrow
  BY <1>1, SameLists DEF vars
<1>3. Opened' = Opened
  BY OpenedSame DEF vars
<1> QED
  BY <1>1, <1>2, <1>3, CallsStayStep DEF vars, WellTyped

LEMMA Initially == Init => Inv
<1> SUFFICES ASSUME Init  PROVE Inv
  OBVIOUS
<1>1. ListsTyped
  <2>1. <<>> \in Seq(Messages) /\ IsInjective(<<>>)
    BY DEF IsInjective
  <2>2. lists = <<<<>>>> /\ DOMAIN lists = 1..1 /\ lists[1] = <<>>
    BY DEF Init
  <2> QED
    BY <2>1, <2>2 DEF ListsTyped
<1>2. HistoryTyped
  BY DEF Init, HistoryTyped, IsInjective
<1>3. WellTyped
  BY <1>1, <1>2, FreshStack, SendBufferAssumption DEF Init, WellTyped, States
<1>4. Opened = {}
  BY DEF Init, Opened, Unborn
<1>5. InOrder
  <2>1. 1..0 = {} /\ 0 \in 0..MaxConns
    BY SendBufferAssumption
  <2> QED
    BY <1>4, <2>1 DEF InOrder
<1>6. EachOnce
  <2>1. \A m \in Messages, c \in Conns : given[<<m, c>>] = 0
    BY DEF Init
  <2>2. \A p \in Callers : DOMAIN calls[p] = {}
    BY DEF Init
  <2> QED
    BY <2>1, <2>2 DEF EachOnce, RepeatsNeedReconnect, Gave, OnItsConnection, OneFlushEach
<1>7. listening = "no"
  BY DEF Init
<1> QED
  BY <1>3, <1>5, <1>6, <1>7 DEF Inv

LEMMA InvStep == Inv /\ [Next]_vars => Inv'
<1> SUFFICES ASSUME Inv, [Next]_vars  PROVE Inv'
  OBVIOUS
<1>1. ASSUME NEW p \in Callers,
             \/ CallConnect(p) \/ SendFails(p) \/ Succeed(p) \/ Fail(p) \/ GiveUp(p)
             \/ Resume(p) \/ ResumeLost(p)
      PROVE  Inv'
  <2>1. CASE CallConnect(p) \/ SendFails(p)
    BY <2>1, CallConnectStep
  <2>2. CASE Succeed(p)
    BY <2>2, SucceedStep
  <2>3. CASE Fail(p) \/ GiveUp(p)
    BY <2>3, FailStep
  <2>4. CASE Resume(p)
    BY <2>4, ResumeStep
  <2>5. CASE ResumeLost(p)
    BY <2>5, ResumeLostStep
  <2> QED
    BY <1>1, <2>1, <2>2, <2>3, <2>4, <2>5
<1>2. CASE ListenerConnects
  BY <1>2, ListenerConnectsStep
<1>3. CASE UNCHANGED vars
  BY <1>3, StutterStep
<1> QED
  BY <1>1, <1>2, <1>3, OtherStep DEF Next

(* In every run, for any number of callers, messages, connections and      *)
(* attempts: the calls of a connect() interrupted inside its own flush,    *)
(* the lists they iterate over and what was handed to a connection fit     *)
(* together, and every flush has given only what it has come to.           *)
THEOREM InvHolds == Spec => []Inv
<1>1. Init => Inv
  BY Initially
<1>2. Inv /\ [Next]_vars => Inv'
  BY InvStep
<1> QED
  BY <1>1, <1>2, PTL DEF Spec

(* Every flush is at a message of a list that exists, also after other     *)
(* calls replaced the buffer or added to it; every list, and what was      *)
(* handed over, has each message once (client.py 199-211, 324-363).        *)
THEOREM TypeCorrect == Spec => []TypeOK
<1>1. Inv => TypeOK
  <2> SUFFICES ASSUME Inv  PROVE TypeOK
    OBVIOUS
  <2>1. WellTyped /\ ListsTyped /\ HistoryTyped
    BY DEF Inv, WellTyped
  <2>2. ASSUME NEW p \in Callers
        PROVE  /\ ToSet(calls[p]) \subseteq Calls
               /\ \A i \in DOMAIN calls[p] : OnItsList(calls[p][i])
               /\ \A i \in 1..Len(calls[p]) - 1 : calls[p][i].list # 0
    <3>1. PICK cs \in Seq(Calls) : cs = calls[p] /\ Stack(cs)
      BY <2>1 DEF WellTyped, Stack
    <3>2. \A i \in 1..Len(cs) - 1 : i \in DOMAIN cs /\ i < Len(cs)
      OBVIOUS
    <3> QED
      BY <3>1, <3>2 DEF Stack, ToSet
  <2>3. UNION {ToSet(lists[i]) : i \in DOMAIN lists} \subseteq Messages
    <3>1. \A i \in DOMAIN lists : lists[i] \in Seq(Messages)
      BY <2>1 DEF ListsTyped
    <3>2. \A i \in DOMAIN lists : ToSet(lists[i]) \subseteq Messages
      BY <3>1 DEF ToSet
    <3> QED
      BY <3>2
  <2>4. ToSet(handed) \subseteq Messages /\ given \in [Messages \X Conns -> Nat]
    BY <2>1 DEF HistoryTyped, ToSet
  <2>5. /\ ws \in 0..MaxConns
        /\ conn \in [Conns -> {"unborn", "open", "closed", "lost"}]
        /\ listening \in {"no", "waiting", "connecting"}
        /\ failures \in 0..MaxFailures
    BY <2>1 DEF WellTyped, States
  <2>6. /\ lists # <<>> /\ \A i \in DOMAIN lists : IsInjective(lists[i])
        /\ IsInjective(handed)
    BY <2>1 DEF ListsTyped, HistoryTyped
  <2>7. (UNION {ToSet(lists[i]) : i \in DOMAIN lists}) \cup ToSet(handed)
          \subseteq Messages
    BY <2>3, <2>4
  <2> QED
    BY <2>2, <2>4, <2>5, <2>6, <2>7 DEF TypeOK
<1> QED
  BY <1>1, InvHolds, PTL

(* For any number of callers, messages, connections and attempts: a flush, *)
(* however it is interrupted and whatever is flushed inside it, gives each *)
(* message to a connection at most once, so that a message is given twice  *)
(* only by flushes to different connections (client.py 207-211, 324-363).  *)
THEOREM SecondTimeIsLater == Spec => []RepeatsNeedReconnect
<1>1. Inv => RepeatsNeedReconnect
  BY DEF Inv, EachOnce
<1> QED
  BY <1>1, InvHolds, PTL
-----------------------------------------------------------------------------
(* Parts of a list.                                                        *)
LEMMA Part ==
  ASSUME NEW S, NEW s \in Seq(S), NEW h \in Nat, NEW g \in h..Len(s)
  PROVE  /\ SubSeq(s, h + 1, g) \in Seq(S) /\ Len(SubSeq(s, h + 1, g)) = g - h
         /\ \A x \in 1..g - h : SubSeq(s, h + 1, g)[x] = s[h + x]
<1>1. PICK n \in Nat : n = Len(s) /\ DOMAIN s = 1..n /\ g \in Nat /\ h <= g /\ g <= n
  OBVIOUS
<1>2. \A i \in h + 1..g : s[i] \in S
  BY <1>1
<1>3. PICK t : t = SubSeq(s, h + 1, g)
  OBVIOUS
<1>4. /\ t \in Seq(S) /\ Len(t) = IF h + 1 <= g THEN g - (h + 1) + 1 ELSE 0
      /\ \A i \in 1..g - (h + 1) + 1 : t[i] = s[(h + 1) + i - 1]
  BY <1>1, <1>2, <1>3, SubSeqProperties
<1>5. g - (h + 1) + 1 = g - h /\ (~(h + 1 <= g) => g - h = 0)
      /\ \A i \in 1..g - h : (h + 1) + i - 1 = h + i
  BY <1>1
<1>6. Len(t) = g - h /\ \A i \in 1..g - h : t[i] = s[h + i]
  BY <1>4, <1>5
<1> QED
  BY <1>3, <1>4, <1>6

LEMMA PartOfPart ==
  ASSUME NEW S, NEW s \in Seq(S), NEW h \in Nat, NEW g \in h..Len(s)
  PROVE  LET q == SubSeq(s, h + 1, Len(s))
         IN  /\ q \in Seq(S) /\ Len(q) = Len(s) - h
             /\ SubSeq(q, 1, g - h) = SubSeq(s, h + 1, g)
             /\ SubSeq(q, (g - h) + 1, Len(q)) = SubSeq(s, g + 1, Len(s))
<1>1. PICK n \in Nat : n = Len(s) /\ g \in Nat /\ h <= g /\ g <= n /\ n \in h..n /\ n \in g..n
  OBVIOUS
<1>2. PICK q : q = SubSeq(s, h + 1, n)
  OBVIOUS
<1>3. q \in Seq(S) /\ Len(q) = n - h /\ \A x \in 1..n - h : q[x] = s[h + x]
  BY <1>1, <1>2, Part
<1>4. PICK m \in Nat, k \in Nat : m = g - h /\ k = n - h /\ m <= k
  <2>1. g - h \in Nat /\ n - h \in Nat /\ g - h <= n - h
    BY <1>1
  <2> QED
    BY <2>1
<1>5. PICK a : a = SubSeq(s, h + 1, g)
  OBVIOUS
<1>6. a \in Seq(S) /\ Len(a) = m /\ \A x \in 1..m : a[x] = s[h + x]
  BY <1>1, <1>4, <1>5, Part
<1>7. PICK b : b = SubSeq(q, 0 + 1, m)
  OBVIOUS
<1>8. b \in Seq(S) /\ Len(b) = m - 0 /\ \A x \in 1..m - 0 : b[x] = q[0 + x]
  <2>1. 0 \in Nat /\ m \in 0..Len(q)
    BY <1>3, <1>4
  <2> QED
    BY <1>3, <1>7, <2>1, Part
<1>9. a = b
  <2>1. m - 0 = m /\ \A x \in 1..m : 0 + x = x /\ x \in 1..k
    BY <1>4
  <2>2. \A x \in 1..m : b[x] = a[x]
    BY <1>3, <1>4, <1>6, <1>8, <2>1
  <2>3. Len(a) = Len(b) /\ \A x \in 1..Len(a) : a[x] = b[x]
    BY <1>6, <1>8, <2>1, <2>2
  <2> QED
    BY <1>6, <1>8, <2>3, SeqEqual
<1>10. PICK c : c = SubSeq(q, m + 1, k)
  OBVIOUS
<1>11. c \in Seq(S) /\ Len(c) = k - m /\ \A x \in 1..k - m : c[x] = q[m + x]
  <2>1. k \in m..Len(q)
    BY <1>3, <1>4
  <2> QED
    BY <1>3, <1>10, <2>1, Part
<1>12. PICK d : d = SubSeq(s, g + 1, n)
  OBVIOUS
<1>13. d \in Seq(S) /\ Len(d) = n - g /\ \A x \in 1..n - g : d[x] = s[g + x]
  BY <1>1, <1>12, Part
<1>14. c = d
  <2>1. k - m = n - g /\ \A x \in 1..n - g : m + x \in 1..n - h /\ h + (m + x) = g + x
    BY <1>1, <1>4
  <2>2. \A x \in 1..n - g : q[m + x] = s[h + (m + x)]
    BY <1>3, <2>1
  <2>3. \A x \in 1..n - g : c[x] = d[x]
    BY <1>11, <1>13, <2>1, <2>2
  <2>4. Len(c) = Len(d) /\ \A x \in 1..Len(c) : c[x] = d[x]
    BY <1>11, <1>13, <2>1, <2>3
  <2> QED
    BY <1>11, <1>13, <2>4, SeqEqual
<1>15. 0 + 1 = 1
  OBVIOUS
<1> QED
  BY <1>1, <1>2, <1>3, <1>4, <1>5, <1>7, <1>9, <1>10, <1>12, <1>14, <1>15
-----------------------------------------------------------------------------
(* The buffer as a queue.                                                  *)
LEMMA Buffer ==
  ASSUME ListsTyped
  PROVE  /\ sendBuffer \in Seq(Messages) /\ IsInjective(sendBuffer)
         /\ Len(lists) \in DOMAIN lists /\ sendBuffer = lists[Len(lists)]
<1>1. Len(lists) \in DOMAIN lists
  BY DEF ListsTyped
<1> QED
  BY <1>1 DEF ListsTyped, sendBuffer, Last

LEMMA PendingRest ==
  ASSUME NEW s \in Seq(Messages), NEW d, NEW h \in 0..Len(s),
         \A x \in 1..Len(s) : s[x] \in d <=> x <= h
  PROVE  Unsent(s, d) = SubSeq(s, h + 1, Len(s))
BY UnsentRest

(* The messages after the first h, up to the g-th, are handed over.        *)
LEMMA HandedUpTo ==
  ASSUME ListsTyped, HistoryTyped, NEW h \in Nat, DoneUpTo(h), NEW g \in h..Len(sendBuffer),
         handed' = handed \o SubSeq(sendBuffer, h + 1, g),
         UNCHANGED lists \/ (lists' = Cleared /\ g = Len(sendBuffer)),
         OldListsAreDone, DoneWasAccepted
  PROVE  /\ OutboxStep
         /\ OldListsAreDone' /\ DoneFirst' /\ DoneWasAccepted'
         /\ Done \subseteq Done'
         /\ UNCHANGED lists => DoneUpTo(g)'
         /\ lists' = Cleared => DoneUpTo(0)' /\ Len(sendBuffer') = 0
<1>1. PICK s \in Seq(Messages) : s = sendBuffer /\ IsInjective(s)
  BY Buffer
<1>2. PICK n \in Nat : n = Len(s) /\ DOMAIN s = 1..n /\ h <= g /\ g <= n /\ g \in Nat
  BY <1>1
<1>3. PICK d : d = Done
  OBVIOUS
<1>4. h \in 0..n /\ \A x \in 1..n : s[x] \in d <=> x <= h
  BY <1>1, <1>2, <1>3 DEF DoneUpTo
<1>5. Pending = SubSeq(s, h + 1, n)
  BY <1>1, <1>2, <1>3, <1>4, PendingRest DEF Pending, Done
<1>6. PICK a : a = SubSeq(s, h + 1, g)
  OBVIOUS
<1>7. a \in Seq(Messages) /\ Len(a) = g - h /\ \A m : m \in ToSet(a) <=> \E y \in h + 1..g : m = s[y]
  <2>1. PICK k \in h..Len(s) : k = g
    BY <1>1
  <2>2. a = SubSeq(s, h + 1, k)
    BY <1>6, <2>1
  <2>3. a \in Seq(Messages) /\ Len(a) = k - h /\ \A x \in 1..k - h : a[x] = s[h + x]
    BY <2>2, Part
  <2>4. DOMAIN a = 1..k - h
    BY <2>3
  <2>5. \A x \in 1..k - h : h + x \in h + 1..k
    BY <2>1
  <2>6. \A y \in h + 1..k : y - h \in 1..k - h /\ h + (y - h) = y
    BY <2>1
  <2>7. ASSUME NEW m \in ToSet(a)  PROVE \E y \in h + 1..k : m = s[y]
    BY <2>3, <2>4, <2>5 DEF ToSet
  <2>8. ASSUME NEW y \in h + 1..k  PROVE s[y] \in ToSet(a)
    BY <2>3, <2>4, <2>6 DEF ToSet
  <2> QED
    BY <2>1, <2>3, <2>7, <2>8
<1>8. handed' = handed \o a /\ handed \in Seq(Messages)
  BY <1>1, <1>6 DEF HistoryTyped
<1>9. \A m : m \in Done' <=> m \in d \/ \E y \in h + 1..g : m = s[y]
  <2>1. PICK e \in Seq(Messages) : e = handed
    BY <1>8
  <2>2. Range(e \o a) = Range(e) \cup Range(a)
    BY <1>7, <2>1, RangeConcatenation
  <2>3. ToSet(e \o a) = ToSet(e) \cup ToSet(a)
    BY <2>2 DEF Range, ToSet
  <2> QED
    BY <1>3, <1>7, <1>8, <2>1, <2>3 DEF Done
<1>10. PICK e : e = Done' /\ d \subseteq e /\ \A m : m \in e <=> m \in d \/ \E y \in h + 1..g : m = s[y]
  BY <1>9
<1>11. \A x \in 1..n : s[x] \in e <=> x <= g
  <2>1. ASSUME NEW x \in 1..n, NEW y \in h + 1..g, s[x] = s[y]  PROVE x = y
    <3>1. y \in 1..n
      BY <1>2
    <3> QED
      BY <1>1, <1>2, <2>1, <3>1 DEF IsInjective
  <2>2. \A x \in 1..n : x <= g <=> (x <= h \/ x \in h + 1..g)
    BY <1>2
  <2>3. \A y \in h + 1..g : y <= g
    OBVIOUS
  <2> QED
    BY <1>4, <1>10, <2>1, <2>2, <2>3
<1>12. ASSUME UNCHANGED lists
       PROVE  /\ Pending' = SubSeq(s, g + 1, n) /\ OldListsAreDone' /\ DoneFirst'
              /\ UNCHANGED lists => DoneUpTo(g)'
              /\ lists' = Cleared => DoneUpTo(0)' /\ Len(sendBuffer') = 0
  <2>1. sendBuffer' = s
    BY <1>1, <1>12 DEF sendBuffer
  <2>8. g \in 0..Len(s) /\ \A x \in 1..Len(s) : s[x] \in e <=> x <= g
    BY <1>2, <1>11
  <2>2. Unsent(s, e) = SubSeq(s, g + 1, n)
    BY <1>2, <2>8, PendingRest
  <2>3. Pending' = SubSeq(s, g + 1, n)
    BY <1>10, <2>1, <2>2 DEF Pending, Done
  <2>4. DoneUpTo(g)'
    BY <1>2, <1>10, <1>11, <2>1 DEF DoneUpTo
  <2>5. OldListsAreDone'
    BY <1>3, <1>10, <1>12 DEF OldListsAreDone
  <2>6. g \in 0..Len(sendBuffer')
    BY <1>2, <2>1
  <2>7. lists' # Cleared
    BY <1>12, ClearedLists DEF ListsTyped
  <2>9. DoneFirst'
    BY <2>4, <2>6 DEF DoneFirst
  <2> QED
    BY <2>3, <2>4, <2>5, <2>7, <2>9
<1>13. ASSUME lists' = Cleared, g = n
       PROVE  /\ Pending' = SubSeq(s, g + 1, n) /\ OldListsAreDone' /\ DoneFirst'
              /\ UNCHANGED lists => DoneUpTo(g)'
              /\ lists' = Cleared => DoneUpTo(0)' /\ Len(sendBuffer') = 0
  <2>1. /\ Len(lists') = Len(lists) + 1 /\ lists'[Len(lists) + 1] = <<>>
        /\ \A i \in DOMAIN lists : lists'[i] = lists[i]
        /\ ListsGrow
    BY <1>13, ClearedLists
  <2>2. sendBuffer' = <<>>
    BY <2>1 DEF sendBuffer, Last
  <2>15. <<>> \in Seq(Messages) /\ Len(<<>>) = 0
    OBVIOUS
  <2>3. PICK t \in Seq(Messages) : t = <<>> /\ Len(t) = 0
    BY <2>15
  <2>4. 0 \in 0..Len(t) /\ \A x \in 1..Len(t) : t[x] \in e <=> x <= 0
    BY <2>3
  <2>5. Unsent(t, e) = SubSeq(t, 0 + 1, Len(t))
    BY <2>4, PendingRest
  <2>6. SubSeq(t, 0 + 1, Len(t)) = <<>> /\ SubSeq(s, g + 1, n) = <<>>
    BY <1>2, <1>13, <2>3, SubSeqEmpty
  <2>7. Pending' = SubSeq(s, g + 1, n)
    BY <1>10, <2>2, <2>3, <2>5, <2>6 DEF Pending, Done
  <2>8. DoneUpTo(0)' /\ Len(sendBuffer') = 0
    BY <2>2 DEF DoneUpTo
  <2>9. DoneFirst'
    BY <2>8 DEF DoneFirst
  <2>10. lists # lists'
    BY <2>1 DEF ListsTyped
  <2>11. ToSet(s) \subseteq e
    BY <1>2, <1>11, <1>13 DEF ToSet
  <2>12. \A i \in DOMAIN lists : ToSet(lists[i]) \subseteq e
    <3>1. \A i \in DOMAIN lists : i < Len(lists) \/ i = Len(lists)
      BY DEF ListsTyped
    <3> QED
      BY <1>1, <1>3, <1>10, <2>11, <3>1, Buffer DEF OldListsAreDone
  <2>13. \A i \in DOMAIN lists' : i < Len(lists') => i \in DOMAIN lists
    BY <2>1 DEF ListsTyped, ListsGrow
  <2>14. OldListsAreDone'
    BY <1>10, <2>1, <2>12, <2>13 DEF OldListsAreDone
  <2> QED
    BY <2>7, <2>8, <2>9, <2>10, <2>14
<1>14. DoneWasAccepted'
  <2>1. \A i \in DOMAIN lists : i \in DOMAIN lists' /\ ToSet(lists[i]) \subseteq ToSet(lists'[i])
    BY SameLists, ClearedLists DEF ListsGrow, ToSet
  <2>2. \A m \in d : \E i \in DOMAIN lists : m \in ToSet(lists[i])
    BY <1>3 DEF DoneWasAccepted
  <2>3. ASSUME NEW y \in h + 1..g  PROVE s[y] \in ToSet(lists[Len(lists)])
    <3>1. y \in 1..n
      BY <1>2
    <3> QED
      BY <1>1, <1>2, <3>1, Buffer DEF ToSet
  <2>4. \A m \in e : \E i \in DOMAIN lists : m \in ToSet(lists[i])
    <3>1. Len(lists) \in DOMAIN lists
      BY Buffer
    <3> QED
      BY <1>10, <2>2, <2>3, <3>1
  <2>5. \A m \in e : \E i \in DOMAIN lists' : m \in ToSet(lists'[i])
    BY <2>1, <2>4
  <2> QED
    BY <1>10, <2>5 DEF DoneWasAccepted
<1>15. Pending' = SubSeq(s, g + 1, n)
  BY <1>1, <1>2, <1>12, <1>13
<1>16. OutboxStep
  <2>1. CASE g = h
    <3>1. a = <<>>
      BY <1>2, <1>6, <2>1, SubSeqEmpty
    <3>2. handed' = handed
      BY <1>8, <3>1, ConcatEmptySeq
    <3>3. Pending' = Pending
      BY <1>5, <1>15, <2>1
    <3> QED
      BY <3>2, <3>3 DEF OutboxStep, TheOutbox!vars
  <2>2. CASE g # h
    <3>1. g \in h..Len(s)
      BY <1>2
    <3>2. PICK q : q = SubSeq(s, h + 1, Len(s))
      OBVIOUS
    <3>3. /\ Len(q) = Len(s) - h
          /\ SubSeq(q, 1, g - h) = SubSeq(s, h + 1, g)
          /\ SubSeq(q, (g - h) + 1, Len(q)) = SubSeq(s, g + 1, Len(s))
      BY <3>1, <3>2, PartOfPart
    <3>4. PICK m : m = g - h /\ m \in 1..Len(q)
      BY <1>2, <2>2, <3>3
    <3>5. Pending = q
      BY <1>2, <1>5, <3>2
    <3>6. handed' = handed \o SubSeq(Pending, 1, m)
      BY <1>6, <1>8, <3>3, <3>4, <3>5
    <3>7. Pending' = SubSeq(Pending, m + 1, Len(Pending))
      BY <1>2, <1>15, <3>3, <3>4, <3>5
    <3>8. m \in 1..Len(Pending)
      BY <3>4, <3>5
    <3>9. TheOutbox!Hand(m)
      BY <3>6, <3>7 DEF TheOutbox!Hand
    <3> QED
      BY <3>8, <3>9 DEF OutboxStep, TheOutbox!Next
  <2> QED
    BY <2>1, <2>2
<1> QED
  BY <1>1, <1>2, <1>3, <1>10, <1>12, <1>13, <1>14, <1>16
(* Handing over the message that a flush is at: done already, or the next. *)
LEMMA OneHanded ==
  ASSUME ListsTyped, HistoryTyped, NEW h \in Nat, DoneUpTo(h), NEW m \in Messages,
         NEW c, HandOver(<<m>>, c),
         m \in Done \/ (h < Len(sendBuffer) /\ m = sendBuffer[h + 1])
  PROVE  \E g \in h..Len(sendBuffer) :
           /\ handed' = handed \o SubSeq(sendBuffer, h + 1, g)
           /\ m \in Done => g = h
           /\ m \notin Done => g = h + 1
<1>1. PICK s \in Seq(Messages) : s = sendBuffer
  BY Buffer
<1>2. PICK n \in Nat : n = Len(s) /\ DOMAIN s = 1..n /\ h <= n
  BY <1>1 DEF DoneUpTo
<1>3. PICK u \in Seq(Messages) : u = <<m>> /\ Len(u) = 1 /\ u[1] = m
  BY OneMessage
<1>4. handed' = handed \o Unsent(u, Done)
  BY <1>3 DEF HandOver, Done
<1>5. CASE m \in Done
  <2>1. 1 \in 0..Len(u) /\ \A x \in 1..Len(u) : u[x] \in Done <=> x <= 1
    BY <1>3, <1>5
  <2>2. Unsent(u, Done) = SubSeq(u, 1 + 1, Len(u))
    BY <2>1, UnsentRest
  <2>3. SubSeq(u, 1 + 1, Len(u)) = <<>> /\ SubSeq(s, h + 1, h) = <<>>
    BY <1>3, SubSeqEmpty
  <2>4. h \in h..n
    BY <1>2
  <2> QED
    BY <1>1, <1>2, <1>4, <1>5, <2>2, <2>3, <2>4
<1>6. CASE m \notin Done
  <2>1. 0 \in 0..Len(u) /\ \A x \in 1..Len(u) : u[x] \in Done <=> x <= 0
    BY <1>3, <1>6
  <2>2. Unsent(u, Done) = SubSeq(u, 0 + 1, Len(u))
    BY <2>1, UnsentRest
  <2>3. SubSeq(u, 0 + 1, Len(u)) = u
    <3>1. 0 + 1 = 1
      OBVIOUS
    <3>2. SubSeq(u, 1, Len(u)) = u
      BY SubSeqFull
    <3> QED
      BY <3>1, <3>2
  <2>4. h < n /\ m = s[h + 1]
    BY <1>1, <1>2, <1>6
  <2>5. PICK g \in h..Len(s) : g = h + 1
    BY <1>2, <2>4
  <2>6. PICK a : a = SubSeq(s, h + 1, g)
    OBVIOUS
  <2>7. a \in Seq(Messages) /\ Len(a) = g - h /\ \A x \in 1..g - h : a[x] = s[h + x]
    BY <2>6, Part
  <2>8. g - h = 1 /\ 1 \in 1..1
    BY <2>5
  <2>9. Len(u) = Len(a) /\ \A x \in 1..Len(u) : u[x] = a[x]
    BY <1>3, <2>4, <2>7, <2>8
  <2>10. u = a
    BY <1>3, <2>7, <2>9, SeqEqual
  <2> QED
    BY <1>1, <1>4, <1>6, <2>2, <2>3, <2>5, <2>6, <2>10
<1> QED
  BY <1>5, <1>6

(* A step that hands nothing over and leaves the lists.                    *)
LEMMA NothingHanded ==
  ASSUME OutboxInv, UNCHANGED <<lists, handed>>
  PROVE  OutboxStep /\ OldListsAreDone' /\ DoneFirst' /\ DoneWasAccepted'
<1>1. sendBuffer' = sendBuffer /\ Done' = Done
  BY DEF sendBuffer, Done
<1>2. Pending' = Pending
  BY DEF Pending, sendBuffer
<1>3. OutboxStep
  BY <1>2 DEF OutboxStep, TheOutbox!vars
<1>4. OldListsAreDone'
  BY <1>1 DEF OutboxInv, OldListsAreDone
<1>5. DoneFirst'
  BY <1>1 DEF OutboxInv, DoneFirst, DoneUpTo
<1>6. DoneWasAccepted'
  BY <1>1 DEF OutboxInv, DoneWasAccepted
<1> QED
  BY <1>3, <1>4, <1>5, <1>6

(* Whatever the other conjuncts, a caller that is not in a flush, or in    *)
(* one whose connection was lost, has skipped nothing.                     *)
LEMMA NotFlushing ==
  ASSUME OneCaller, NEW p \in Callers,
         calls'[p] # <<>> => Last(calls'[p]).list = 0
  PROVE  NothingSkipped'
<1> SUFFICES ASSUME NEW q \in Callers  PROVE ~Flushing(q)'
  BY DEF NothingSkipped
<1>1. q = p
  BY DEF OneCaller
<1> QED
  BY <1>1 DEF Flushing
LEMMA FailedLast ==
  ASSUME NEW cs \in Seq(Calls), cs # <<>>
  PROVE  Last(Failed(cs)).list = 0
<1>1. PICK x : x = [NewCall EXCEPT !.tries = Last(cs).tries + 1]
  OBVIOUS
<1>2. x.list = 0
  BY <1>1 DEF NewCall
<1>3. PICK T : T = Calls \cup {x}
  OBVIOUS
<1>4. cs \in Seq(T) /\ x \in T
  <2>1. Calls \subseteq T /\ x \in T
    BY <1>3
  <2> QED
    BY <2>1, SeqMonotonic
<1>5. PICK n \in Nat : n = Len(cs) /\ n # 0
  OBVIOUS
<1>6. PICK f : f = Front(cs) \o <<x>>
  OBVIOUS
<1>7. f \in Seq(T) /\ Len(f) = n /\ f[n] = x
  BY <1>4, <1>5, <1>6, ReplaceLast
<1>8. f = Failed(cs)
  BY <1>1, <1>6 DEF Failed
<1> QED
  BY <1>2, <1>7, <1>8 DEF Last

LEMMA QuietOutbox ==
  ASSUME OneCaller, Inv, OutboxInv, NEW p \in Callers, NEW new,
         calls' = [calls EXCEPT ![p] = new], new # <<>> => Last(new).list = 0,
         UNCHANGED <<conn, listening, lists, handed>>, ws' = ws \/ ws' = 0
  PROVE  OutboxStep /\ OutboxInv'
<1>1. calls'[p] = new
  BY DEF Inv, WellTyped
<1>2. NothingSkipped'
  BY <1>1, NotFlushing
<1>3. NewestIsUsed'
  BY OpenedSame DEF OutboxInv, NewestIsUsed, Newest
<1> QED
  BY <1>2, <1>3, NothingHanded DEF OutboxInv

LEMMA CallsOutbox ==
  ASSUME OneCaller, Inv, OutboxInv, NEW p \in Callers,
         CallConnect(p) \/ SendFails(p) \/ Fail(p) \/ GiveUp(p) \/ ResumeLost(p)
  PROVE  OutboxStep /\ OutboxInv'
<1>1. PICK cs \in Seq(Calls) : cs = calls[p]
  BY DEF Inv, WellTyped, Stack
<1>2. UNCHANGED <<conn, listening, lists, handed>> /\ (ws' = ws \/ ws' = 0)
  BY DEF CallConnect, SendFails, Fail, GiveUp, ResumeLost
<1>3. PICK new : calls' = [calls EXCEPT ![p] = new] /\ (new # <<>> => Last(new).list = 0)
  <2>1. CASE CallConnect(p) \/ SendFails(p)
    <3>1. Last(<<NewCall>>).list = 0
      BY DEF Last, NewCall
    <3> QED
      BY <2>1, <3>1 DEF CallConnect, SendFails
  <2>2. CASE Fail(p)
    <3>1. cs # <<>> /\ calls' = [calls EXCEPT ![p] = Failed(cs)]
      BY <1>1, <2>2 DEF Fail, Connecting
    <3> QED
      BY <3>1, FailedLast
  <2>3. CASE GiveUp(p)
    <3>1. cs # <<>>
      BY <1>1, <2>3 DEF GiveUp, Connecting
    <3>2. CASE Len(cs) = 1
      BY <1>1, <2>3, <3>2 DEF GiveUp
    <3>3. CASE Len(cs) # 1
      <4>1. PICK f \in Seq(Calls) : f = Front(cs) /\ Len(f) = Len(cs) - 1
        BY <3>1, FrontIs
      <4>2. f # <<>>
        BY <3>1, <3>3, <4>1
      <4>3. calls' = [calls EXCEPT ![p] = Failed(f)]
        BY <1>1, <2>3, <3>3, <4>1 DEF GiveUp
      <4> QED
        BY <4>2, <4>3, FailedLast
    <3> QED
      BY <3>2, <3>3
  <2>4. CASE ResumeLost(p)
    <3>1. calls' = [calls EXCEPT ![p] = Append(cs, NewCall)]
      BY <1>1, <2>4 DEF ResumeLost
    <3>2. PICK f : f = Append(cs, NewCall)
      OBVIOUS
    <3>3. Len(f) = Len(cs) + 1 /\ f[Len(cs) + 1] = NewCall
      BY <3>2, NewCallType, AppendProperties
    <3> QED
      BY <3>1, <3>2, <3>3, NewCallType DEF Last
  <2> QED
    BY <2>1, <2>2, <2>3, <2>4
<1> QED
  BY <1>2, <1>3, QuietOutbox

(* A message is accepted only while there is no connection, so no flush is *)
(* at work on one.                                                         *)
LEMMA SendOutbox ==
  ASSUME Inv, OutboxInv, NEW m \in Messages, Send(m)
  PROVE  OutboxStep /\ OutboxInv'
<1>1. ListsTyped /\ HistoryTyped
  BY DEF Inv, WellTyped
<1>2. PICK s \in Seq(Messages) : s = sendBuffer
  BY <1>1, Buffer
<1>3. PICK n \in Nat : n = Len(s) /\ DOMAIN s = 1..n
  OBVIOUS
<1>4. PICK h \in 0..n : \A x \in 1..n : s[x] \in Done <=> x <= h
  BY <1>2, <1>3 DEF OutboxInv, DoneFirst, DoneUpTo
<1>5. /\ ListsGrow /\ Len(lists') = Len(lists)
      /\ lists'[Len(lists)] = Append(lists[Len(lists)], m)
      /\ \A i \in DOMAIN lists : i # Len(lists) => lists'[i] = lists[i]
  BY <1>1, BufferedLists DEF Send
<1>6. UNCHANGED <<ws, conn, listening, calls, handed>> /\ ws = 0
  BY DEF Send
<1>7. m \notin Done
  <2>1. \A i \in DOMAIN lists : m \notin ToSet(lists[i])
    BY DEF Send, Contains, ToSet
  <2> QED
    BY <2>1 DEF OutboxInv, DoneWasAccepted
<1>8. PICK t : t = sendBuffer' /\ t = Append(s, m)
  BY <1>1, <1>2, <1>5, Buffer DEF sendBuffer, Last
<1>9. /\ t \in Seq(Messages) /\ Len(t) = n + 1 /\ t[n + 1] = m /\ \A x \in 1..n : t[x] = s[x]
  BY <1>3, <1>8, AppendProperties
<1>10. Done' = Done
  BY <1>6 DEF Done
<1>11. \A x \in 1..n + 1 : t[x] \in Done <=> x <= h
  <2>1. \A x \in 1..n + 1 : x \in 1..n \/ (x = n + 1 /\ ~(x <= h))
    BY <1>4
  <2> QED
    BY <1>4, <1>7, <1>9, <2>1
<1>12. Pending = SubSeq(s, h + 1, n) /\ Pending' = SubSeq(t, h + 1, n + 1)
  <2>1. Unsent(s, Done) = SubSeq(s, h + 1, Len(s))
    BY <1>3, <1>4, PendingRest
  <2>2. h \in 0..Len(t) /\ \A x \in 1..Len(t) : t[x] \in Done <=> x <= h
    BY <1>4, <1>9, <1>11
  <2>3. Unsent(t, Done) = SubSeq(t, h + 1, Len(t))
    BY <1>9, <2>2, PendingRest
  <2> QED
    BY <1>2, <1>3, <1>8, <1>9, <1>10, <2>1, <2>3 DEF Pending, Done
<1>13. SubSeq(t, h + 1, n + 1) = Append(SubSeq(s, h + 1, n), m)
  <2>1. PICK a, b : a = SubSeq(t, h + 1, n + 1) /\ b = SubSeq(s, h + 1, n)
    OBVIOUS
  <2>2. h \in Nat /\ n + 1 \in h..Len(t) /\ n \in h..Len(s)
    BY <1>3, <1>4, <1>9
  <2>3. a \in Seq(Messages) /\ Len(a) = (n + 1) - h /\ \A x \in 1..(n + 1) - h : a[x] = t[h + x]
    BY <1>9, <2>1, <2>2, Part
  <2>4. b \in Seq(Messages) /\ Len(b) = n - h /\ \A x \in 1..n - h : b[x] = s[h + x]
    BY <2>1, <2>2, Part
  <2>5. PICK k \in Nat : k = n - h /\ k + 1 = (n + 1) - h /\ h + (k + 1) = n + 1
    <3>1. n - h \in Nat /\ (n - h) + 1 = (n + 1) - h /\ h + ((n - h) + 1) = n + 1
      BY <2>2
    <3> QED
      BY <3>1
  <2>6. PICK c : c = Append(b, m)
    OBVIOUS
  <2>7. c \in Seq(Messages) /\ Len(c) = k + 1 /\ c[k + 1] = m /\ \A x \in 1..k : c[x] = b[x]
    BY <2>4, <2>5, <2>6, AppendProperties
  <2>8. \A x \in 1..k : h + x \in 1..n /\ x \in 1..k + 1
    BY <1>4, <2>5
  <2>9. \A x \in 1..k : a[x] = c[x]
    BY <1>9, <2>3, <2>4, <2>5, <2>7, <2>8
  <2>10. k + 1 \in 1..k + 1
    OBVIOUS
  <2>11. a[k + 1] = c[k + 1]
    BY <1>9, <2>3, <2>5, <2>7, <2>10
  <2>12. \A x \in 1..k + 1 : x \in 1..k \/ x = k + 1
    OBVIOUS
  <2>13. Len(a) = Len(c) /\ \A x \in 1..Len(a) : a[x] = c[x]
    BY <2>3, <2>5, <2>7, <2>9, <2>11, <2>12
  <2>14. a = c
    BY <2>3, <2>7, <2>13, SeqEqual
  <2> QED
    BY <2>1, <2>6, <2>14
<1>14. OutboxStep
  <2>1. TheOutbox!Accept(m)
    BY <1>6, <1>12, <1>13 DEF TheOutbox!Accept
  <2> QED
    BY <2>1 DEF OutboxStep, TheOutbox!Next
<1>15. NewestIsUsed'
  BY <1>6, OpenedSame DEF OutboxInv, NewestIsUsed, Newest
<1>16. OldListsAreDone'
  <2> SUFFICES ASSUME NEW i \in DOMAIN lists', i < Len(lists')
               PROVE  (ToSet(lists[i]) \subseteq Done)'
    BY DEF OldListsAreDone
  <2>1. i \in DOMAIN lists /\ i < Len(lists) /\ lists'[i] = lists[i]
    BY <1>5, <1>10 DEF ListsTyped
  <2>2. ToSet(lists[i]) \subseteq Done
    BY <2>1 DEF OutboxInv, OldListsAreDone
  <2> QED
    BY <1>10, <2>1, <2>2 DEF ToSet
<1>17. DoneFirst'
  <2>1. h \in 0..n + 1
    BY <1>4
  <2> QED
    BY <1>8, <1>9, <1>10, <1>11, <2>1 DEF DoneFirst, DoneUpTo
<1>18. NothingSkipped'
  <2> SUFFICES ASSUME NEW p \in Callers, Flushing(p), conn[Last(calls[p]).on] # "lost"
               PROVE  FALSE
    BY <1>6 DEF NothingSkipped, Flushing
  <2>1. ws = Last(calls[p]).on
    BY DEF OutboxInv, NothingSkipped
  <2>2. Stack(calls[p]) /\ calls[p] # <<>> /\ Last(calls[p]).list # 0
    BY DEF Inv, WellTyped, Flushing
  <2>3. OnItsList(Last(calls[p]))
    BY <2>2, StackLast DEF Stack
  <2> QED
    BY <1>6, <2>1, <2>2, <2>3 DEF OnItsList
<1>19. DoneWasAccepted'
  <2>1. \A i \in DOMAIN lists : i \in DOMAIN lists' /\ ToSet(lists[i]) \subseteq ToSet(lists'[i])
    <3> SUFFICES ASSUME NEW i \in DOMAIN lists
                 PROVE  i \in DOMAIN lists' /\ ToSet(lists[i]) \subseteq ToSet(lists'[i])
      OBVIOUS
    <3>1. PICK u, v : u = lists[i] /\ v = lists'[i]
      OBVIOUS
    <3>2. i \in DOMAIN lists' /\ u \in Seq(Messages) /\ v \in Seq(Messages)
          /\ Len(u) <= Len(v) /\ \A x \in DOMAIN u : v[x] = u[x]
      BY <1>1, <1>5, <3>1 DEF ListsGrow, ListsTyped
    <3>3. \A x \in DOMAIN u : x \in DOMAIN v
      BY <3>2
    <3> QED
      BY <3>1, <3>2, <3>3 DEF ToSet
  <2> QED
    BY <1>10, <2>1 DEF OutboxInv, DoneWasAccepted
<1> QED
  BY <1>14, <1>15, <1>16, <1>17, <1>18, <1>19 DEF OutboxInv
(* A callback of a flush that has come to the first message not done, or   *)
(* to one before it, skips nothing.                                        *)
LEMMA RunOutbox ==
  ASSUME OneCaller, Inv, OutboxInv, NEW p \in Callers, NEW cs, cs = <<>> \/ Ready(cs),
         NEW w, Run(p, cs, w), NEW h \in Nat, DoneUpTo(h),
         UNCHANGED lists \/ (lists' = Cleared /\ h = Len(sendBuffer)),
         cs # <<>> /\ h < Len(sendBuffer) =>
           Last(cs).list = Len(lists) /\ Last(cs).pos <= h + 1
  PROVE  /\ OutboxStep /\ OldListsAreDone' /\ DoneFirst' /\ DoneWasAccepted'
         /\ NothingSkipped'
         /\ ws' = w \/ ws' = 0
<1>1. ListsTyped /\ HistoryTyped /\ OldListsAreDone /\ DoneWasAccepted
      /\ \A f : calls' = [calls EXCEPT ![p] = f] => calls'[p] = f
  BY DEF Inv, WellTyped, OutboxInv
<1>2. PICK s \in Seq(Messages) : s = sendBuffer /\ s = lists[Len(lists)] /\ Len(lists) \in DOMAIN lists
  BY <1>1, Buffer
<1>3. PICK n \in Nat : n = Len(s) /\ DOMAIN s = 1..n /\ h <= n
      /\ \A x \in 1..n : s[x] \in Done <=> x <= h
  BY <1>2 DEF DoneUpTo
<1>4. h \in h..Len(sendBuffer) /\ handed = handed \o SubSeq(sendBuffer, h + 1, h)
  <2>1. SubSeq(sendBuffer, h + 1, h) = <<>>
    BY SubSeqEmpty
  <2>2. handed \in Seq(Messages)
    BY <1>1 DEF HistoryTyped
  <2>3. handed \o <<>> = handed
    BY <2>2, ConcatEmptySeq
  <2>4. h \in h..Len(sendBuffer)
    BY <1>2, <1>3
  <2> QED
    BY <2>1, <2>3, <2>4
<1>5. ASSUME UNCHANGED handed
      PROVE  OutboxStep /\ OldListsAreDone' /\ DoneFirst' /\ DoneWasAccepted'
  <2>1. handed' = handed \o SubSeq(sendBuffer, h + 1, h)
    BY <1>4, <1>5
  <2> QED
    BY <1>1, <1>4, <2>1, HandedUpTo
<1>6. ASSUME NEW f, calls' = [calls EXCEPT ![p] = f], f # <<>> => Last(f).list = 0
      PROVE  NothingSkipped'
  BY <1>1, <1>6, NotFlushing
<1>7. CASE cs = <<>>
  <2>1. calls' = [calls EXCEPT ![p] = <<>>] /\ ws' = w /\ UNCHANGED handed
    BY <1>7 DEF Run, NothingHandedOver
  <2> QED
    BY <1>5, <1>6, <2>1
<1>8. CASE cs # <<>> /\ w = 0
  <2>1. calls' = [calls EXCEPT ![p] = Failed(cs)] /\ ws' = 0 /\ UNCHANGED handed
    BY <1>8 DEF Run, NothingHandedOver
  <2>2. Last(Failed(cs)).list = 0
    BY <1>8, FailedLast DEF Ready
  <2> QED
    BY <1>5, <1>6, <2>1, <2>2
<1>9. CASE cs # <<>> /\ w # 0 /\ conn'[w] = "lost"
  <2>1. calls' = [calls EXCEPT ![p] = Append(cs, NewCall)] /\ ws' = 0 /\ UNCHANGED handed
    BY <1>9 DEF Run, NothingHandedOver
  <2>2. PICK f : f = Append(cs, NewCall)
    OBVIOUS
  <2>3. Len(f) = Len(cs) + 1 /\ f[Len(cs) + 1] = NewCall
    BY <1>9, <2>2, NewCallType, AppendProperties DEF Ready
  <2>4. Last(f).list = 0
    BY <2>3, NewCallType DEF Last
  <2> QED
    BY <1>5, <1>6, <2>1, <2>2, <2>4
<1>10. CASE cs # <<>> /\ w # 0 /\ conn'[w] # "lost"
  <2>1. PICK f : f = Front(cs) \o <<[Last(cs) EXCEPT !.on = w]>>
    OBVIOUS
  <2>2. PICK top \in Calls : top = Last(cs) /\ top = cs[Len(cs)] /\ Len(cs) \in DOMAIN cs
    BY <1>10, ReadyRest DEF Ready
  <2>3. top.list \in DOMAIN lists /\ top.list \in 1..Len(lists) /\ top.pos \in 1..Len(lists[top.list])
    <3>1. top.list \in 1..Len(lists) /\ top.pos \in 1..Len(lists[top.list])
      BY <1>10, <2>2 DEF Ready
    <3> QED
      BY <1>1, <3>1 DEF ListsTyped
  <2>4. PICK m \in Messages : m = lists[top.list][top.pos]
    <3>1. lists[top.list] \in Seq(Messages)
      BY <1>1, <2>3 DEF ListsTyped
    <3> QED
      BY <2>3, <3>1
  <2>5. calls' = [calls EXCEPT ![p] = f] /\ ws' = w
        /\ HandOver(<<m>>, top.since)
    BY <1>10, <2>1, <2>2, <2>4 DEF Run
  <2>6. PICK x : x = [top EXCEPT !.on = w]
    OBVIOUS
  <2>7. x.list = top.list /\ x.pos = top.pos /\ x.on = w
    BY <2>6 DEF Calls
  <2>8. f # <<>> /\ Last(f) = x
    <3>1. PICK T : T = Calls \cup {x}
      OBVIOUS
    <3>2. cs \in Seq(T) /\ x \in T
      <4>1. Calls \subseteq T /\ x \in T
        BY <3>1
      <4> QED
        BY <1>10, <4>1, SeqMonotonic DEF Ready
    <3>3. f = Front(cs) \o <<x>>
      BY <2>1, <2>2, <2>6
    <3>4. Len(f) = Len(cs) /\ f[Len(cs)] = x /\ f \in Seq(T)
      BY <1>10, <3>2, <3>3, ReplaceLast
    <3> QED
      BY <1>10, <3>2, <3>4 DEF Last
  <2>9. m \in Done \/ (h < n /\ top.list = Len(lists) /\ top.pos = h + 1 /\ m = s[h + 1])
    <3>1. CASE h < n
      <4>1. top.list = Len(lists) /\ top.pos <= h + 1
        BY <1>2, <1>3, <1>10, <2>2, <3>1
      <4>2. top.pos \in 1..n /\ m = s[top.pos]
        BY <1>2, <1>3, <2>3, <2>4, <4>1
      <4>3. top.pos <= h \/ top.pos = h + 1
        BY <4>1, <4>2
      <4> QED
        BY <1>3, <3>1, <4>1, <4>2, <4>3
    <3>2. CASE ~(h < n)
      <4>1. \A y \in 1..n : s[y] \in Done
        BY <1>3, <3>2
      <4>2. ToSet(s) \subseteq Done
        BY <1>3, <4>1 DEF ToSet
      <4>3. top.list < Len(lists) \/ top.list = Len(lists)
        BY <2>3
      <4>4. ToSet(lists[top.list]) \subseteq Done
        BY <1>1, <1>2, <2>3, <4>2, <4>3 DEF OldListsAreDone
      <4>5. m \in ToSet(lists[top.list])
        <5>1. lists[top.list] \in Seq(Messages)
          BY <1>1, <2>3 DEF ListsTyped
        <5> QED
          BY <2>3, <2>4, <5>1 DEF ToSet
      <4> QED
        BY <4>4, <4>5
    <3> QED
      BY <3>1, <3>2
  <2>10. PICK g \in h..Len(sendBuffer) :
           /\ handed' = handed \o SubSeq(sendBuffer, h + 1, g)
           /\ m \in Done => g = h
           /\ m \notin Done => g = h + 1
    BY <1>1, <1>2, <1>3, <2>5, <2>9, OneHanded
  <2>11. UNCHANGED lists \/ (lists' = Cleared /\ g = Len(sendBuffer))
    BY <1>2, <1>3, <2>10
  <2>12. /\ OutboxStep /\ OldListsAreDone' /\ DoneFirst' /\ DoneWasAccepted'
         /\ UNCHANGED lists => DoneUpTo(g)'
         /\ lists' = Cleared => DoneUpTo(0)' /\ Len(sendBuffer') = 0
    BY <1>1, <2>10, <2>11, HandedUpTo
  <2>13. NothingSkipped'
    <3> SUFFICES ASSUME NEW q \in Callers
                 PROVE  /\ ws' = Last(calls'[q]).on
                        /\ \A y \in DOMAIN sendBuffer' : sendBuffer'[y] \notin Done' =>
                             Last(calls'[q]).list = Len(lists') /\ y > Last(calls'[q]).pos
      BY DEF NothingSkipped
    <3>1. q = p /\ calls'[p] = f
      BY <1>1, <2>5 DEF OneCaller
    <3>2. ws' = Last(calls'[q]).on
      BY <2>5, <2>7, <2>8, <3>1
    <3>3. CASE UNCHANGED lists
      <4>1. sendBuffer' = s /\ Len(lists') = Len(lists)
        BY <1>2, <3>3 DEF sendBuffer
      <4>2. \A y \in 1..n : s[y] \in Done' <=> y <= g
        BY <1>3, <2>12, <3>3, <4>1 DEF DoneUpTo
      <4>3. ASSUME NEW y \in 1..n, s[y] \notin Done'
            PROVE  top.list = Len(lists) /\ y > top.pos
        <5>1. ~(y <= g) /\ h < n /\ h <= g
          BY <1>2, <1>3, <2>10, <4>2, <4>3
        <5>2. top.list = Len(lists) /\ top.pos <= h + 1
          BY <1>2, <1>3, <1>10, <2>2, <5>1
        <5>3. top.pos \in Nat
          BY <2>2 DEF Calls
        <5>4. CASE m \notin Done
          BY <2>9, <2>10, <5>1, <5>2, <5>3, <5>4
        <5>5. CASE m \in Done
          <6>1. top.pos \in 1..n /\ m = s[top.pos]
            BY <1>2, <1>3, <2>3, <2>4, <5>2
          <6>2. top.pos <= h
            BY <1>3, <5>5, <6>1
          <6> QED
            BY <5>1, <5>2, <5>3, <6>2
        <5> QED
          BY <5>4, <5>5
      <4> QED
        BY <1>3, <2>7, <2>8, <3>1, <3>2, <4>1, <4>3
    <3>4. CASE lists' = Cleared
      <4>1. DOMAIN sendBuffer' = {}
        <5>1. sendBuffer' = <<>>
          <6>1. Len(lists') = Len(lists) + 1 /\ lists'[Len(lists) + 1] = <<>>
            BY <1>1, <3>4, ClearedLists
          <6> QED
            BY <6>1 DEF sendBuffer, Last
        <5> QED
          BY <5>1
      <4> QED
        BY <3>2, <4>1
    <3> QED
      BY <3>3, <3>4
  <2> QED
    BY <2>5, <2>12, <2>13
<1> QED
  BY <1>7, <1>8, <1>9, <1>10
LEMMA SucceedOutbox ==
  ASSUME OneCaller, Inv, OutboxInv, NEW p \in Callers, Succeed(p)
  PROVE  OutboxStep /\ OutboxInv'
<1>1. WellTyped /\ ListsTyped /\ InOrder /\ conn \in [Conns -> States]
  BY DEF Inv, WellTyped
<1>2. PICK old \in Seq(Calls) : old = calls[p] /\ Stack(old)
  BY <1>1 DEF WellTyped, Stack
<1>3. old # <<>> /\ Last(old).tries < MaxRetries
      /\ UNCHANGED lists /\ listening' = "waiting" /\ Unborn # {}
  BY <1>2 DEF Succeed, Connecting
<1>4. PICK k \in Nat : /\ Opened = 1..k /\ Min(Unborn) = k + 1 /\ k + 1 \in Conns
                       /\ conn[k + 1] = "unborn" /\ k < MaxConns
  BY <1>1, <1>3, OpensNext
<1>5. conn' = [conn EXCEPT ![k + 1] = "open"]
  BY <1>4 DEF Succeed
<1>6. Opened' = 1..k + 1
  BY <1>1, <1>4, <1>5, OpenedNext
<1>7. PICK h \in 0..Len(sendBuffer) : DoneUpTo(h)
  BY DEF OutboxInv, DoneFirst
<1>8. PICK s \in Seq(Messages) : s = sendBuffer
  BY <1>1, Buffer
<1>9. PICK cs : /\ Run(p, cs, k + 1)
                /\ \/ cs = Unwound(old) /\ sendBuffer = <<>>
                   \/ cs = Started(old, k + 1) /\ sendBuffer # <<>>
  BY <1>2, <1>4 DEF Succeed, Flush, Started
<1>10. /\ cs = <<>> \/ Ready(cs)
       /\ cs # <<>> /\ h < Len(sendBuffer) =>
            Last(cs).list = Len(lists) /\ Last(cs).pos <= h + 1
  <2>1. CASE cs = Unwound(old) /\ sendBuffer = <<>>
    <3>1. Len(sendBuffer) = 0
      BY <1>8, <2>1
    <3>2. ~(h < Len(sendBuffer))
      BY <3>1
    <3> QED
      BY <1>1, <1>2, <2>1, <3>2, UnwoundReady
  <2>2. CASE cs = Started(old, k + 1) /\ sendBuffer # <<>>
    <3>1. /\ Ready(cs) /\ Len(cs) = Len(old)
          /\ cs[Len(old)].list = Len(lists) /\ cs[Len(old)].pos = 1
      BY <1>1, <1>2, <1>3, <1>4, <2>2, StartedReady
    <3>2. Last(cs).list = Len(lists) /\ Last(cs).pos <= h + 1
      BY <3>1 DEF Last
    <3> QED
      BY <3>1, <3>2
  <2> QED
    BY <1>9, <2>1, <2>2
<1>11. h \in Nat
  BY <1>8
<1>12. /\ OutboxStep /\ OldListsAreDone' /\ DoneFirst' /\ DoneWasAccepted'
       /\ NothingSkipped'
       /\ ws' = k + 1 \/ ws' = 0
  BY <1>3, <1>7, <1>9, <1>10, <1>11, RunOutbox
<1>13. NewestIsUsed'
  <2>1. k + 1 \in 1..k + 1 /\ \A d \in 1..k + 1 : d <= k + 1
    OBVIOUS
  <2> QED
    BY <1>3, <1>6, <1>12, <2>1 DEF NewestIsUsed, Newest
<1> QED
  BY <1>12, <1>13 DEF OutboxInv

LEMMA ResumeOutbox ==
  ASSUME OneCaller, Inv, OutboxInv, NEW p \in Callers, Resume(p)
  PROVE  OutboxStep /\ OutboxInv'
<1>1. WellTyped /\ ListsTyped /\ OldListsAreDone
  BY DEF Inv, WellTyped, OutboxInv
<1>2. PICK old \in Seq(Calls) : old = calls[p] /\ Stack(old)
  BY <1>1 DEF WellTyped, Stack
<1>3. old # <<>> /\ Last(old).list # 0 /\ UNCHANGED <<conn, listening>>
      /\ conn[Last(old).on] # "lost" /\ Flushing(p)
  BY <1>2 DEF Resume, Flushing
<1>4. PICK top \in Calls : top = Last(old) /\ OnItsList(top) /\ top.list # 0
  BY <1>2, <1>3, StackLast DEF Stack
<1>5. top.list \in 1..Len(lists) /\ Len(lists[top.list]) \in Nat
      /\ top.pos \in 1..Len(lists[top.list])
  BY <1>1, <1>4, ListNumber
<1>6. PICK h \in 0..Len(sendBuffer) : DoneUpTo(h)
  BY DEF OutboxInv, DoneFirst
<1>7. PICK s \in Seq(Messages) : s = sendBuffer /\ s = lists[Len(lists)]
  BY <1>1, Buffer
<1>8. PICK n \in Nat : n = Len(s) /\ DOMAIN s = 1..n /\ h \in 0..n
      /\ \A x \in 1..n : s[x] \in Done <=> x <= h
  BY <1>6, <1>7 DEF DoneUpTo
<1>9. \A x \in 1..n : x > h => top.list = Len(lists) /\ x > top.pos
  <2>1. \A x \in DOMAIN s : s[x] \notin Done => top.list = Len(lists) /\ x > top.pos
    BY <1>2, <1>3, <1>4, <1>7 DEF OutboxInv, NothingSkipped
  <2> QED
    BY <1>8, <2>1
<1>10. PICK cs :
         /\ Run(p, cs, ws)
         /\ \/ cs = NextMessage(old) /\ top.pos < Len(lists[top.list]) /\ UNCHANGED lists
            \/ cs = Unwound(old) /\ ~(top.pos < Len(lists[top.list])) /\ lists' = Cleared
  BY <1>2, <1>4 DEF Resume
<1>11. h < n => top.list = Len(lists) /\ top.pos <= h
  <2> SUFFICES ASSUME h < n  PROVE top.list = Len(lists) /\ top.pos <= h
    OBVIOUS
  <2>1. h + 1 \in 1..n /\ h + 1 > h
    BY <1>8
  <2>2. top.list = Len(lists) /\ h + 1 > top.pos
    BY <1>9, <2>1
  <2> QED
    BY <1>5, <1>8, <2>2
<1>12. /\ cs = <<>> \/ Ready(cs)
       /\ UNCHANGED lists \/ (lists' = Cleared /\ h = Len(sendBuffer))
       /\ cs # <<>> /\ h < Len(sendBuffer) =>
            Last(cs).list = Len(lists) /\ Last(cs).pos <= h + 1
  <2>1. CASE cs = NextMessage(old) /\ top.pos < Len(lists[top.list]) /\ UNCHANGED lists
    <3>1. /\ Ready(cs) /\ Len(cs) = Len(old)
          /\ cs[Len(old)] = [top EXCEPT !.pos = @ + 1]
      BY <1>1, <1>2, <1>3, <1>4, <2>1, NextMessageReady
    <3>2. Last(cs).list = top.list /\ Last(cs).pos = top.pos + 1 /\ top.pos \in Nat
      BY <3>1 DEF Last, Calls
    <3>3. h < n => Last(cs).list = Len(lists) /\ Last(cs).pos <= h + 1
      BY <1>8, <1>11, <3>2
    <3> QED
      BY <1>7, <1>8, <2>1, <3>1, <3>3
  <2>2. CASE cs = Unwound(old) /\ ~(top.pos < Len(lists[top.list])) /\ lists' = Cleared
    <3>1. h = n
      <4>1. CASE h < n
        <5>1. top.list = Len(lists) /\ top.pos <= h
          BY <1>11, <4>1
        <5>2. ~(top.pos < n)
          BY <1>7, <1>8, <2>2, <5>1
        <5> QED
          BY <1>5, <1>8, <4>1, <5>1, <5>2
      <4>2. CASE ~(h < n)
        BY <1>8, <4>2
      <4> QED
        BY <4>1, <4>2
    <3>2. ~(h < Len(sendBuffer)) /\ h = Len(sendBuffer)
      BY <1>7, <1>8, <3>1
    <3> QED
      BY <1>1, <1>2, <2>2, <3>2, UnwoundReady
  <2> QED
    BY <1>10, <2>1, <2>2
<1>13. h \in Nat
  BY <1>8
<1>14. /\ OutboxStep /\ OldListsAreDone' /\ DoneFirst' /\ DoneWasAccepted'
       /\ NothingSkipped'
       /\ ws' = ws \/ ws' = 0
  BY <1>6, <1>10, <1>12, <1>13, RunOutbox
<1>15. NewestIsUsed'
  BY <1>3, <1>14, OpenedSame DEF OutboxInv, NewestIsUsed, Newest
<1> QED
  BY <1>14, <1>15 DEF OutboxInv
(* The listening task reconnects only when the newest connection was lost, *)
(* so that every flush of a caller is at work on a lost one.               *)
LEMMA NobodyElse ==
  ASSUME Inv, OutboxInv, NEW c \in Opened, Newest(c), conn[c] = "lost",
         NEW p \in Callers, Flushing(p)
  PROVE  conn[Last(calls[p]).on] = "lost"
<1> SUFFICES ASSUME conn[Last(calls[p]).on] # "lost"  PROVE FALSE
  OBVIOUS
<1>1. ws = Last(calls[p]).on
  BY DEF OutboxInv, NothingSkipped
<1>2. Stack(calls[p]) /\ calls[p] # <<>> /\ Last(calls[p]).list # 0
  BY DEF Inv, WellTyped, Flushing
<1>3. OnItsList(Last(calls[p]))
  BY <1>2, StackLast DEF Stack
<1>4. Newest(ws) /\ Opened \subseteq Int
  BY <1>1, <1>2, <1>3 DEF OnItsList, OutboxInv, NewestIsUsed, Opened, Conns
<1>5. ws = c
  BY <1>4 DEF Newest
<1> QED
  BY <1>1, <1>5

LEMMA SeesLossOutbox ==
  ASSUME Inv, OutboxInv, ListenerSeesLoss
  PROVE  OutboxStep /\ OutboxInv'
<1>1. UNCHANGED <<conn, calls, lists, handed>> /\ ws' = 0 /\ listening = "waiting"
      /\ listening' = "connecting"
  BY DEF ListenerSeesLoss
<1>2. PICK O : O = Opened /\ O \subseteq 1..MaxConns /\ O # {} /\ conn[Max(O)] = "lost"
  <2>1. Opened # {}
    BY <1>1 DEF Inv
  <2>2. conn[Max(Opened)] = "lost" /\ Opened \subseteq 1..MaxConns
    BY DEF ListenerSeesLoss, Opened, Conns
  <2> QED
    BY <2>1, <2>2
<1>3. PICK c : c = Max(O) /\ c \in O /\ \A d \in O : d <= c
  BY <1>2, MaxIsGreatest, SendBufferAssumption
<1>4. c \in Opened /\ Newest(c) /\ conn[c] = "lost"
  BY <1>2, <1>3 DEF Newest
<1>5. NewestIsUsed'
  BY <1>1, <1>4, OpenedSame DEF NewestIsUsed, Newest
<1>6. NothingSkipped'
  <2> SUFFICES ASSUME NEW p \in Callers, Flushing(p)
               PROVE  conn[Last(calls[p]).on] = "lost"
    BY <1>1 DEF NothingSkipped, Flushing
  <2> QED
    BY <1>4, NobodyElse
<1> QED
  BY <1>1, <1>5, <1>6, NothingHanded DEF OutboxInv

LEMMA ConnectsOutbox ==
  ASSUME Inv, OutboxInv, ListenerConnects
  PROVE  OutboxStep /\ OutboxInv'
<1>1. ListsTyped /\ HistoryTyped /\ InOrder /\ conn \in [Conns -> States]
      /\ OldListsAreDone /\ DoneWasAccepted
  BY DEF Inv, WellTyped, OutboxInv
<1>2. Unborn # {} /\ listening = "connecting" /\ listening' = "waiting" /\ ws' = Min(Unborn)
      /\ UNCHANGED calls
  BY DEF ListenerConnects
<1>3. PICK k \in Nat : /\ Opened = 1..k /\ Min(Unborn) = k + 1 /\ k + 1 \in Conns
                       /\ conn[k + 1] = "unborn" /\ k < MaxConns
  BY <1>1, <1>2, OpensNext
<1>4. conn' = [conn EXCEPT ![k + 1] = "open"]
  BY <1>3 DEF ListenerConnects
<1>5. Opened' = 1..k + 1
  BY <1>1, <1>3, <1>4, OpenedNext
<1>6. NewestIsUsed'
  <2>1. k + 1 \in 1..k + 1 /\ \A d \in 1..k + 1 : d <= k + 1
    OBVIOUS
  <2> QED
    BY <1>2, <1>3, <1>5, <2>1 DEF NewestIsUsed, Newest
<1>7. NothingSkipped'
  <2>1. PICK c \in Opened : Newest(c) /\ conn[c] = "lost"
    BY <1>2 DEF OutboxInv, NewestIsUsed
  <2> SUFFICES ASSUME NEW p \in Callers, Flushing(p)
               PROVE  conn'[Last(calls[p]).on] = "lost"
    BY <1>2 DEF NothingSkipped, Flushing
  <2>2. conn[Last(calls[p]).on] = "lost"
    BY <2>1, NobodyElse
  <2>3. Last(calls[p]).on # k + 1
    BY <1>3, <2>2
  <2> QED
    BY <1>1, <1>4, <2>2, <2>3
<1>8. PICK h \in 0..Len(sendBuffer) : DoneUpTo(h)
  BY DEF OutboxInv, DoneFirst
<1>9. PICK s \in Seq(Messages) : s = sendBuffer
  BY <1>1, Buffer
<1>10. PICK n \in Nat : n = Len(s) /\ DOMAIN s = 1..n /\ h \in 0..n
       /\ \A x \in 1..n : s[x] \in Done <=> x <= h
  BY <1>8, <1>9 DEF DoneUpTo
<1>11. PICK g \in h..Len(sendBuffer) :
         /\ handed' = handed \o SubSeq(sendBuffer, h + 1, g)
         /\ UNCHANGED lists \/ (lists' = Cleared /\ g = Len(sendBuffer))
  <2>1. CASE HandOver(sendBuffer, k + 1) /\ lists' = Cleared
    <3>1. h \in 0..Len(s) /\ \A x \in 1..Len(s) : s[x] \in Done <=> x <= h
      BY <1>10
    <3>2. Unsent(s, Done) = SubSeq(s, h + 1, Len(s))
      BY <3>1, PendingRest
    <3>3. handed' = handed \o SubSeq(s, h + 1, Len(s))
      BY <1>9, <2>1, <3>2 DEF HandOver, Done
    <3>4. Len(s) \in h..Len(s)
      BY <1>10
    <3> QED
      BY <1>9, <2>1, <3>3, <3>4
  <2>2. ASSUME NEW m \in 1..Len(sendBuffer), HandOver(SubSeq(sendBuffer, 1, m), k + 1),
               UNCHANGED lists
        PROVE  \E g \in h..Len(sendBuffer) : handed' = handed \o SubSeq(sendBuffer, h + 1, g)
    <3>1. m \in Nat /\ 0 \in Nat /\ m \in 0..Len(s) /\ m - 0 = m /\ 0 + 1 = 1 /\ m <= n
          /\ \A x \in 1..m : 0 + x = x
      BY <1>9, <1>10
    <3>2. PICK t : t = SubSeq(s, 0 + 1, m)
      OBVIOUS
    <3>3. t \in Seq(Messages) /\ Len(t) = m - 0 /\ \A x \in 1..m - 0 : t[x] = s[0 + x]
      BY <3>1, <3>2, Part
    <3>4. t = SubSeq(sendBuffer, 1, m) /\ Len(t) = m /\ \A x \in 1..m : t[x] = s[x]
      BY <1>9, <3>1, <3>2, <3>3
    <3>5. handed' = handed \o Unsent(t, Done)
      BY <2>2, <3>4 DEF HandOver, Done
    <3>6. \A x \in 1..m : t[x] \in Done <=> x <= h
      <4>1. \A x \in 1..m : x \in 1..n /\ t[x] = s[x]
        BY <1>10, <3>1, <3>4
      <4> QED
        BY <1>10, <4>1
    <3>7. CASE m <= h
      <4>1. m \in 0..Len(t) /\ \A x \in 1..Len(t) : t[x] \in Done <=> x <= m
        BY <1>10, <3>1, <3>4, <3>6, <3>7
      <4>2. Unsent(t, Done) = SubSeq(t, m + 1, Len(t))
        BY <3>3, <4>1, PendingRest
      <4>3. SubSeq(t, m + 1, Len(t)) = <<>>
        BY <3>1, <3>4, SubSeqEmpty
      <4>4. SubSeq(s, h + 1, h) = <<>>
        BY <1>10, SubSeqEmpty
      <4>5. h \in h..n
        BY <1>10
      <4> QED
        BY <1>9, <1>10, <3>5, <4>2, <4>3, <4>4, <4>5
    <3>8. CASE ~(m <= h)
      <4>1. h \in 0..Len(t) /\ h \in Nat /\ m \in h..Len(t) /\ m \in h..Len(s)
            /\ \A x \in 1..Len(t) : t[x] \in Done <=> x <= h
        BY <1>10, <3>1, <3>4, <3>6, <3>8
      <4>2. Unsent(t, Done) = SubSeq(t, h + 1, m)
        BY <3>3, <3>4, <4>1, PendingRest
      <4>3. PICK a, b : a = SubSeq(t, h + 1, m) /\ b = SubSeq(s, h + 1, m)
        OBVIOUS
      <4>4. a \in Seq(Messages) /\ Len(a) = m - h /\ \A x \in 1..m - h : a[x] = t[h + x]
        BY <3>3, <4>1, <4>3, Part
      <4>5. b \in Seq(Messages) /\ Len(b) = m - h /\ \A x \in 1..m - h : b[x] = s[h + x]
        BY <4>1, <4>3, Part
      <4>6. \A x \in 1..m - h : h + x \in 1..m
        BY <3>1, <4>1
      <4>7. \A x \in 1..Len(a) : a[x] = b[x]
        BY <3>4, <4>4, <4>5, <4>6
      <4>8. a = b
        BY <4>4, <4>5, <4>7, SeqEqual
      <4> QED
        BY <1>9, <3>5, <4>1, <4>2, <4>3, <4>8
    <3> QED
      BY <3>7, <3>8
  <2> QED
    BY <1>3, <2>1, <2>2 DEF ListenerConnects
<1>12. h \in Nat
  BY <1>10
<1>13. OutboxStep /\ OldListsAreDone' /\ DoneFirst' /\ DoneWasAccepted'
  BY <1>1, <1>8, <1>11, <1>12, HandedUpTo
<1> QED
  BY <1>6, <1>7, <1>13 DEF OutboxInv

LEMMA EndOutbox ==
  ASSUME Inv, OutboxInv, NEW c \in Conns, NEW how \in {"closed", "lost"}, End(c, how)
  PROVE  OutboxStep /\ OutboxInv'
<1>1. UNCHANGED <<ws, listening, calls, lists, handed>> /\ conn[c] = "open"
      /\ conn' = [conn EXCEPT ![c] = how] /\ conn \in [Conns -> States]
  BY DEF End, Inv, WellTyped
<1>2. Opened' = Opened
  BY <1>1 DEF Opened, Unborn, States
<1>3. \A d : conn[d] = "lost" => conn'[d] = "lost"
  BY <1>1
<1>4. NewestIsUsed'
  BY <1>1, <1>2, <1>3 DEF OutboxInv, NewestIsUsed, Newest
<1>5. NothingSkipped'
  <2>1. sendBuffer' = sendBuffer /\ Done' = Done
    BY <1>1 DEF sendBuffer, Done
  <2> SUFFICES ASSUME NEW p \in Callers, Flushing(p), conn'[Last(calls[p]).on] # "lost"
               PROVE  /\ ws = Last(calls[p]).on
                      /\ \A x \in DOMAIN sendBuffer : sendBuffer[x] \notin Done =>
                           Last(calls[p]).list = Len(lists) /\ x > Last(calls[p]).pos
    BY <1>1, <2>1 DEF NothingSkipped, Flushing
  <2>2. conn[Last(calls[p]).on] # "lost"
    BY <1>3
  <2> QED
    BY <2>2 DEF OutboxInv, NothingSkipped
<1> QED
  BY <1>1, <1>4, <1>5, NothingHanded DEF OutboxInv

LEMMA StillOutbox ==
  ASSUME Inv, OutboxInv, ListenerGivesUp \/ UNCHANGED vars
  PROVE  OutboxStep /\ OutboxInv'
<1>1. UNCHANGED <<ws, conn, calls, lists, handed>> /\ (listening' = "no" \/ UNCHANGED listening)
  BY DEF ListenerGivesUp, vars
<1>2. NewestIsUsed'
  BY <1>1, OpenedSame DEF OutboxInv, NewestIsUsed, Newest
<1>3. NothingSkipped'
  BY <1>1 DEF OutboxInv, NothingSkipped, Flushing, sendBuffer, Done
<1> QED
  BY <1>1, <1>2, <1>3, NothingHanded DEF OutboxInv

LEMMA OutboxStepHolds ==
  ASSUME OneCaller, Inv, OutboxInv, [Next]_vars
  PROVE  OutboxStep /\ OutboxInv'
<1>1. ASSUME NEW p \in Callers,
             \/ CallConnect(p) \/ SendFails(p) \/ Succeed(p) \/ Fail(p) \/ GiveUp(p)
             \/ Resume(p) \/ ResumeLost(p)
      PROVE  OutboxStep /\ OutboxInv'
  BY <1>1, CallsOutbox, SucceedOutbox, ResumeOutbox
<1>2. ASSUME NEW m \in Messages, Send(m)  PROVE OutboxStep /\ OutboxInv'
  BY <1>2, SendOutbox
<1>3. CASE ListenerSeesLoss
  BY <1>3, SeesLossOutbox
<1>4. CASE ListenerConnects
  BY <1>4, ConnectsOutbox
<1>5. CASE ListenerGivesUp \/ UNCHANGED vars
  BY <1>5, StillOutbox
<1>6. ASSUME NEW c \in Conns, NEW how \in {"closed", "lost"}, End(c, how)
      PROVE  OutboxStep /\ OutboxInv'
  BY <1>6, EndOutbox
<1> QED
  BY <1>1, <1>2, <1>3, <1>4, <1>5, <1>6 DEF Next

LEMMA OutboxInitially == Init => TheOutbox!Init /\ OutboxInv
<1> SUFFICES ASSUME Init  PROVE TheOutbox!Init /\ OutboxInv
  OBVIOUS
<1>1. lists = <<<<>>>> /\ Len(lists) = 1 /\ lists[1] = <<>> /\ handed = <<>> /\ ws = 0
      /\ listening = "no" /\ calls = [p \in Callers |-> <<>>]
  BY DEF Init
<1>2. sendBuffer = <<>> /\ Done = {}
  BY <1>1 DEF sendBuffer, Last, Done, ToSet
<1>3. PICK t \in Seq(Messages) : t = <<>> /\ Len(t) = 0
  <2>1. <<>> \in Seq(Messages) /\ Len(<<>>) = 0
    OBVIOUS
  <2> QED
    BY <2>1
<1>4. 0 \in 0..Len(t) /\ \A x \in 1..Len(t) : t[x] \in Done <=> x <= 0
  BY <1>3
<1>5. Unsent(t, Done) = SubSeq(t, 0 + 1, Len(t))
  BY <1>4, PendingRest
<1>6. SubSeq(t, 0 + 1, Len(t)) = <<>>
  BY <1>3, SubSeqEmpty
<1>7. Pending = <<>>
  BY <1>2, <1>3, <1>5, <1>6 DEF Pending, Done
<1>8. DoneFirst
  BY <1>2, <1>3, <1>4 DEF DoneFirst, DoneUpTo
<1>9. NewestIsUsed /\ NothingSkipped /\ DoneWasAccepted
  BY <1>1, <1>2 DEF NewestIsUsed, NothingSkipped, Flushing, DoneWasAccepted
<1>10. OldListsAreDone
  <2>1. \A i \in DOMAIN lists : ~(i < Len(lists))
    BY <1>1
  <2> QED
    BY <2>1 DEF OldListsAreDone
<1> QED
  BY <1>1, <1>7, <1>8, <1>9, <1>10 DEF OutboxInv, TheOutbox!Init

(* With one caller of connect() at a time, however many connections are    *)
(* lost, attempts fail and flushes are interrupted, nested or cut off with *)
(* the listening task: the buffer is a queue, no accepted message is       *)
(* dropped before it was handed to a connection, and messages are handed   *)
(* over in the order of their acceptance (client.py 207-211, 324-363).     *)
THEOREM BufferIsOutbox == ASSUME OneCaller PROVE Spec => ImplementsOutbox
<1>1. Init => Inv /\ TheOutbox!Init /\ OutboxInv
  BY Initially, OutboxInitially
<1>2. Inv /\ OutboxInv /\ [Next]_vars => Inv' /\ OutboxInv' /\ [TheOutbox!Next]_(TheOutbox!vars)
  BY InvStep, OutboxStepHolds DEF OutboxStep
<1> QED
  BY <1>1, <1>2, PTL DEF Spec, ImplementsOutbox, TheOutbox!Spec
=============================================================================

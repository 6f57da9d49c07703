------------------------- MODULE AlertEngine_proofs -------------------------
(***************************************************************************)
(* Proofs, for all agents, channels and rules, that the store and the      *)
(* engine agree on the alerts that are open and that a channel hears of a  *)
(* condition once.                                                         *)
(*                                                                         *)
(* raise and clear are not atomic.  Two actors may raise one key: of them  *)
(* the one that finds it out of alerted goes on (RaiseInv), and until it   *)
(* is done nobody takes the key out again, because a key that is cleared   *)
(* is one that no reader raises (CallsInv): only the check raises and      *)
(* clears those, one call after the other.                                 *)
(***************************************************************************)
EXTENDS AlertEngine, FiniteSetTheorems, WellFoundedInduction, TLAPS

\* What an actor may have to call.
CallsOf(p) ==
  IF p = Engine THEN {c \in Call : c.op = "clear" => c.kind \notin Reported}
  ELSE {c \in Call : c.op = "raise" /\ c.kind \in Reported}

CallsInv ==
  \A p \in Actor : work[p] \in Seq(CallsOf(p)) /\ (work[p] = <<>> => stage[p] = "first")

\* A raise that has set its key finds it set, and nobody told yet; no other raise
\* of the key has got as far.
Raising(p) == work[p] # <<>> /\ Current(p).op = "raise" /\ stage[p] # "first"

RaiseInv ==
  \A p \in Actor :
    Raising(p) =>
      /\ KeyOf(p) \in alerted /\ \A c \in Channel : told[KeyOf(p)][c] = 0
      /\ \A q \in Actor \ {p} : Raising(q) => KeyOf(q) # KeyOf(p)

ToldInv ==
  \A key \in Key, c \in Channel :
    told[key][c] <= 1 /\ (key \notin alerted => told[key][c] = 0)

IndInv == TypeOK /\ CallsInv /\ RaiseInv /\ ToldInv /\ AlertIsRemembered
-----------------------------------------------------------------------------
(* Sequences.                                                               *)

\* A set of natural numbers that is not empty has a least element.
LEMMA LeastElement ==
  ASSUME NEW T \in SUBSET Nat, T # {}
  PROVE  \E x \in T : \A y \in T : x <= y
<1>. DEFINE Q == {1 .. n : n \in T}
<1>1. Q \subseteq FiniteSubsetsOf(Nat) /\ Q # {}
  <2>1. \A n \in T : IsFiniteSet(1 .. n) /\ 1 .. n \in SUBSET Nat
    BY FS_Interval
  <2>. QED  BY <2>1 DEF FiniteSubsetsOf
<1>2. \E m \in Q : \A q \in Q : ~ (<<q, m>> \in StrictSubsetOrdering(Nat))
  <2>. HIDE DEF Q
  <2>1. IsWellFoundedOn(StrictSubsetOrdering(Nat), FiniteSubsetsOf(Nat))
    BY FS_StrictSubsetOrderingWellFounded
  <2>. QED  BY <1>1, <2>1, WFMin
<1>3. PICK x \in T : \A y \in T : ~ (<<1 .. y, 1 .. x>> \in StrictSubsetOrdering(Nat))
  BY <1>2
<1>4. ASSUME NEW y \in T, y < x PROVE FALSE
  <2>. DEFINE A == 1 .. y
              B == 1 .. x
  <2>1. A \subseteq B /\ A # B /\ A \in SUBSET Nat /\ B \in SUBSET Nat
    <3>1. x \in B /\ x \notin A
      BY <1>4
    <3>. QED  BY <3>1, <1>4
  <2>2. <<A, B>> \in StrictSubsetOrdering(Nat)
    <3>. HIDE DEF A, B
    <3>. QED  BY <2>1 DEF StrictSubsetOrdering
  <2>. QED  BY <2>2, <1>3
<1>. QED  BY <1>4

\* How FlattenSeq goes through its argument.
Flattening(seqs, n, f) ==
  f = [i \in 1 .. n |-> IF i = 1 THEN seqs[i] ELSE f[i - 1] \o seqs[i]]

\* The function FlattenSeq chooses exists, for lists of every length.
LEMMA FlatteningExists ==
  ASSUME NEW seqs, NEW l \in Nat
  PROVE  \E f : Flattening(seqs, l, f)
<1>. DEFINE T == {n \in Nat : ~\E f : Flattening(seqs, n, f)}
<1>. SUFFICES ASSUME T # {} PROVE FALSE
  OBVIOUS
<1>1. PICK x \in T : \A y \in T : x <= y
  BY LeastElement
<1>2. x # 0
  <2>1. Flattening(seqs, 0, [i \in 1 .. 0 |-> i])
    BY DEF Flattening
  <2>. QED  BY <2>1
<1>3. PICK f : Flattening(seqs, x - 1, f)
  BY <1>1, <1>2
<1>. DEFINE last == IF x = 1 THEN seqs[x] ELSE f[x - 1] \o seqs[x]
            g == [i \in 1 .. x |-> IF i = x THEN last ELSE f[i]]
<1>4. \A i \in 1 .. x : g[i] = IF i = 1 THEN seqs[i] ELSE g[i - 1] \o seqs[i]
  <2>1. \A i \in 1 .. x - 1 : f[i] = IF i = 1 THEN seqs[i] ELSE f[i - 1] \o seqs[i]
    BY <1>3 DEF Flattening
  <2>2. \A i \in 1 .. x : i # x => i \in 1 .. x - 1
    OBVIOUS
  <2>3. \A i \in 1 .. x : i # 1 => i - 1 \in 1 .. x /\ i - 1 # x
    OBVIOUS
  <2>4. x \in 1 .. x /\ g[x] = last
    <3>. HIDE DEF last
    <3>. QED  BY <1>2
  <2>5. \A i \in 1 .. x : i # x => g[i] = f[i]
    OBVIOUS
  <2>6. x # 1 => g[x - 1] = f[x - 1]
    BY <2>3, <2>4, <2>5
  <2>. HIDE DEF g
  <2>. QED  BY <1>2, <2>1, <2>2, <2>3, <2>4, <2>5, <2>6
<1>5. Flattening(seqs, x, g)
  <2>1. g = [i \in 1 .. x |-> g[i]]
    OBVIOUS
  <2>2. g = [i \in 1 .. x |-> IF i = 1 THEN seqs[i] ELSE g[i - 1] \o seqs[i]]
    <3>. HIDE DEF g
    <3>. QED  BY <1>4, <2>1
  <2>. HIDE DEF g
  <2>. QED  BY <2>2 DEF Flattening
<1>. QED  BY <1>1, <1>5

\* A sequence of sequences over a set flattens to a sequence over it.
LEMMA FlattenType ==
  ASSUME NEW S, NEW seqs \in Seq(Seq(S))
  PROVE  FlattenSeq(seqs) \in Seq(S)
<1>. DEFINE l == Len(seqs)
            flat == CHOOSE f : Flattening(seqs, l, f)
<1>0. l \in Nat
  OBVIOUS
<1>1. CASE l = 0
  <2>1. seqs = <<>> /\ FlattenSeq(seqs) = seqs
    BY <1>1 DEF FlattenSeq
  <2>2. <<>> \in Seq(S)
    OBVIOUS
  <2>. QED  BY <2>1, <2>2
<1>2. CASE l # 0
  <2>1. FlattenSeq(seqs) = flat[l]
    BY <1>2 DEF FlattenSeq, Flattening
  <2>2. Flattening(seqs, l, flat)
    BY <1>0, FlatteningExists
  <2>3. \A i \in 1 .. l : seqs[i] \in Seq(S)
    OBVIOUS
  <2>. HIDE DEF l, flat
  <2>4. \A i \in 1 .. l : flat[i] = IF i = 1 THEN seqs[i] ELSE flat[i - 1] \o seqs[i]
    BY <2>2 DEF Flattening
  <2>. DEFINE T == {i \in 1 .. l : flat[i] \notin Seq(S)}
  <2>5. T = {}
    <3>. SUFFICES ASSUME T # {} PROVE FALSE
      OBVIOUS
    <3>1. T \in SUBSET Nat
      BY <1>0
    <3>2. PICK x \in T : \A y \in T : x <= y
      <4>. HIDE DEF T
      <4>. QED  BY <3>1, LeastElement
    <3>3. x \in 1 .. l /\ flat[x] \notin Seq(S)
      OBVIOUS
    <3>4. x # 1
      BY <2>3, <2>4, <3>3
    <3>5. x - 1 \in 1 .. l /\ x - 1 \notin T
      BY <1>0, <3>2, <3>3, <3>4
    <3>6. flat[x - 1] \in Seq(S) /\ seqs[x] \in Seq(S)
      BY <2>3, <3>3, <3>5
    <3>7. flat[x] = flat[x - 1] \o seqs[x]
      BY <2>4, <3>3, <3>4
    <3>. QED  BY <3>3, <3>6, <3>7
  <2>6. l \in 1 .. l
    BY <1>0, <1>2
  <2>. QED  BY <2>1, <2>5, <2>6
<1>. QED  BY <1>1, <1>2

-----------------------------------------------------------------------------
(* The calls.                                                               *)

\* The calls of an actor are calls, and nobody else works on a key that is cleared.
LEMMA CallFacts ==
  ASSUME IndInv, NEW p \in Actor, work[p] # <<>>
  PROVE  /\ Current(p) \in CallsOf(p) /\ Current(p) \in Call /\ KeyOf(p) \in Key
         /\ Tail(work[p]) \in Seq(CallsOf(p)) /\ Tail(work[p]) \in Seq(Call)
         /\ Current(p).op = "clear" => p = Engine
         /\ \A q \in Actor \ {p} : work[q] # <<>> /\ Current(p).op = "clear" => KeyOf(q) # KeyOf(p)
<1>1. \A q \in Actor : work[q] \in Seq(CallsOf(q)) /\ work[q] \in Seq(Call)
  BY DEF IndInv, CallsInv, TypeOK
<1>2. \A q \in Actor : work[q] # <<>> => Current(q) \in CallsOf(q) /\ Current(q) \in Call
  BY <1>1 DEF Current
<1>3. KeyOf(p) \in Key
  BY <1>2 DEF KeyOf, Key, Call
<1>4. Current(p).op = "clear" => p = Engine /\ Current(p).kind \notin Reported
  BY <1>2 DEF CallsOf
<1>5. ASSUME NEW q \in Actor \ {p}, work[q] # <<>>, Current(p).op = "clear"
      PROVE  KeyOf(q) # KeyOf(p)
  <2>1. q # Engine /\ Current(q).kind \in Reported
    BY <1>2, <1>4, <1>5 DEF CallsOf
  <2>. QED  BY <1>4, <1>5, <2>1 DEF KeyOf
<1>. QED  BY <1>1, <1>2, <1>3, <1>4, <1>5

\* An actor is done with a call, or goes on in it.
LEMMA ActorMoves ==
  ASSUME IndInv, NEW p \in Actor, work[p] # <<>>, NEW st \in {"store", "match"},
         Done(p) \/ GotoStage(p, st)
  PROVE  /\ CallsInv' /\ work' \in [Actor -> Seq(Call)]
         /\ stage' \in [Actor -> {"first", "store", "match"}]
         /\ \A q \in Actor \ {p} : work'[q] = work[q] /\ stage'[q] = stage[q]
         /\ Done(p) => stage'[p] = "first"
         /\ GotoStage(p, st) => work' = work /\ stage'[p] = st
<1>0. /\ work \in [Actor -> Seq(Call)] /\ stage \in [Actor -> {"first", "store", "match"}]
      /\ CallsInv
  BY DEF IndInv, TypeOK
<1>1. Tail(work[p]) \in Seq(CallsOf(p)) /\ Tail(work[p]) \in Seq(Call)
  BY CallFacts
<1>2. CASE Done(p)
  <2>1. /\ work'[p] = Tail(work[p]) /\ stage'[p] = "first"
        /\ \A q \in Actor \ {p} : work'[q] = work[q] /\ stage'[q] = stage[q]
        /\ work' \in [Actor -> Seq(Call)] /\ stage' \in [Actor -> {"first", "store", "match"}]
    BY <1>0, <1>1, <1>2 DEF Done
  <2>2. CallsInv'
    BY <1>0, <1>1, <2>1 DEF CallsInv, CallsOf
  <2>. QED  BY <1>0, <2>1, <2>2 DEF GotoStage
<1>3. CASE ~Done(p) /\ GotoStage(p, st)
  <2>1. /\ work' = work /\ stage'[p] = st
        /\ \A q \in Actor \ {p} : stage'[q] = stage[q]
        /\ stage' \in [Actor -> {"first", "store", "match"}]
    BY <1>0, <1>3 DEF GotoStage
  <2>2. CallsInv'
    BY <1>0, <2>1 DEF CallsInv, CallsOf
  <2>. QED  BY <1>0, <1>3, <2>1, <2>2
<1>. QED  BY <1>2, <1>3

\* Nobody starts to raise, and who goes on finds its key as before.
LEMMA RaiseKept ==
  ASSUME RaiseInv,
         \A q \in Actor : Raising(q)' =>
            /\ Raising(q) /\ KeyOf(q)' = KeyOf(q)
            /\ KeyOf(q) \in alerted' /\ \A c \in Channel : told'[KeyOf(q)][c] = told[KeyOf(q)][c]
  PROVE  RaiseInv'
<1>1. ASSUME NEW q \in Actor, Raising(q)'
      PROVE  KeyOf(q)' \in alerted' /\ \A c \in Channel : told'[KeyOf(q)'][c] = 0
  BY <1>1 DEF RaiseInv
<1>2. ASSUME NEW q \in Actor, Raising(q)', NEW o \in Actor \ {q}, Raising(o)'
      PROVE  KeyOf(o)' # KeyOf(q)'
  BY <1>2 DEF RaiseInv
<1>. QED  BY <1>1, <1>2 DEF RaiseInv

\* raise under e.mu.
LEMMA RaiseFirstStep ==
  ASSUME IndInv, NEW p \in Actor, RaiseFirst(p)
  PROVE  IndInv'
<1>0. TypeOK /\ CallsInv /\ RaiseInv /\ ToldInv /\ AlertIsRemembered
  BY DEF IndInv
<1>1. /\ work[p] # <<>> /\ Current(p).op = "raise" /\ stage[p] = "first"
      /\ UNCHANGED <<agents, alerts, told, dismissed>>
  BY DEF RaiseFirst, At
<1>2. KeyOf(p) \in Key
  BY <1>1, CallFacts
<1>3. \/ KeyOf(p) \in alerted /\ Done(p) /\ UNCHANGED alerted
      \/ KeyOf(p) \notin alerted /\ GotoStage(p, "store") /\ alerted' = alerted \cup {KeyOf(p)}
  BY DEF RaiseFirst
<1>4. /\ CallsInv' /\ work' \in [Actor -> Seq(Call)]
      /\ stage' \in [Actor -> {"first", "store", "match"}]
      /\ \A q \in Actor \ {p} : work'[q] = work[q] /\ stage'[q] = stage[q]
      /\ Done(p) => stage'[p] = "first"
      /\ GotoStage(p, "store") => work' = work /\ stage'[p] = "store"
  BY <1>1, <1>3, ActorMoves
<1>5. TypeOK'
  <2>1. alerted' \subseteq Key
    BY <1>0, <1>2, <1>3 DEF TypeOK
  <2>. QED  BY <1>0, <1>1, <1>4, <2>1 DEF TypeOK
<1>6. \A q \in Actor \ {p} : Current(q)' = Current(q) /\ KeyOf(q)' = KeyOf(q)
  BY <1>4 DEF Current, KeyOf
<1>7. RaiseInv'
  <2>1. \A q \in Actor \ {p} : Raising(q)' <=> Raising(q)
    BY <1>4, <1>6 DEF Raising
  <2>2. \A q \in Actor \ {p} : Raising(q) => KeyOf(q) \in alerted /\ KeyOf(q) \in alerted'
    BY <1>0, <1>3 DEF RaiseInv
  <2>3. Raising(p)' => KeyOf(p)' = KeyOf(p) /\ KeyOf(p) \notin alerted /\ KeyOf(p) \in alerted'
    <3>. SUFFICES ASSUME Raising(p)'
                  PROVE  KeyOf(p)' = KeyOf(p) /\ KeyOf(p) \notin alerted /\ KeyOf(p) \in alerted'
      OBVIOUS
    <3>1. ~Done(p)
      BY <1>4 DEF Raising
    <3>. QED  BY <1>3, <1>4, <3>1 DEF KeyOf, Current
  <2>4. \A c \in Channel : KeyOf(p) \notin alerted => told'[KeyOf(p)][c] = 0
    BY <1>0, <1>1, <1>2 DEF ToldInv
  <2>5. ASSUME NEW q \in Actor, Raising(q)'
        PROVE  KeyOf(q)' \in alerted' /\ \A c \in Channel : told'[KeyOf(q)'][c] = 0
    <3>1. CASE q # p
      BY <1>0, <1>1, <1>6, <2>1, <2>2, <2>5, <3>1 DEF RaiseInv
    <3>2. CASE q = p
      BY <2>3, <2>4, <2>5, <3>2
    <3>. QED  BY <3>1, <3>2
  <2>6. ASSUME NEW q \in Actor, Raising(q)', NEW o \in Actor \ {q}, Raising(o)'
        PROVE  KeyOf(o)' # KeyOf(q)'
    <3>1. CASE q # p /\ o # p
      BY <1>0, <1>6, <2>1, <2>6, <3>1 DEF RaiseInv
    <3>2. CASE q = p \/ o = p
      BY <1>6, <2>1, <2>2, <2>3, <2>6, <3>2
    <3>. QED  BY <3>1, <3>2
  <2>. QED  BY <2>5, <2>6 DEF RaiseInv
<1>8. ToldInv'
  BY <1>0, <1>1, <1>3 DEF ToldInv
<1>9. AlertIsRemembered'
  <2>1. \A a \in Agent, k \in Kind : Open(a, k)' => Open(a, k)
    BY <1>1 DEF Open
  <2>2. \A key : \A q \in Actor : At(q, "clear", "store") /\ KeyOf(q) = key
                                => (At(q, "clear", "store") /\ KeyOf(q) = key)'
    <3>1. \A q \in Actor : At(q, "clear", "store") => q # p
      BY <1>1 DEF At
    <3>. QED  BY <1>4, <1>6, <3>1 DEF At
  <2>. QED  BY <1>0, <1>3, <2>1, <2>2 DEF AlertIsRemembered
<1>. QED  BY <1>4, <1>5, <1>7, <1>8, <1>9 DEF IndInv

-----------------------------------------------------------------------------
(* The alerts of an agent.                                                  *)

Alert == [kind : Kind, resolved : BOOLEAN]

OpenIn(s, k) == \E i \in 1 .. Len(s) : s[i].kind = k /\ ~s[i].resolved

AlertList(s) ==
  /\ s \in Seq(Alert) /\ Len(s) <= MaxAlerts
  /\ \A i, j \in 1 .. Len(s) :
       (s[i].kind = s[j].kind /\ ~s[i].resolved /\ ~s[j].resolved) => i = j

\* AddAlert appends and drops the oldest.
LEMMA NewestList ==
  ASSUME NEW s, AlertList(s), NEW k \in Kind, ~OpenIn(s, k)
  PROVE  LET n == Newest(Append(s, [kind |-> k, resolved |-> FALSE]))
         IN  AlertList(n) /\ \A other : OpenIn(n, other) => other = k \/ OpenIn(s, other)
<1>. DEFINE new == [kind |-> k, resolved |-> FALSE]
            t == Append(s, new)
            lo == IF Len(t) > MaxAlerts THEN Len(t) - MaxAlerts + 1 ELSE 1
            n == SubSeq(t, lo, Len(t))
<1>0. s \in Seq(Alert) /\ Len(s) <= MaxAlerts /\ Len(s) \in Nat /\ MaxAlerts \in Nat /\ MaxAlerts >= 3
  BY AlertAssumption DEF AlertList
<1>1. new \in Alert /\ new.kind = k /\ ~new.resolved
  BY DEF Alert
<1>2. /\ t \in Seq(Alert) /\ Len(t) = Len(s) + 1 /\ t[Len(t)] = new
      /\ \A i \in 1 .. Len(s) : t[i] = s[i]
  <2>. HIDE DEF new
  <2>. QED  BY <1>0, <1>1
<1>. HIDE DEF new, t
<1>3. lo \in 1 .. Len(t) /\ lo \in Nat /\ Len(t) - lo + 1 <= MaxAlerts /\ Len(t) \in Nat
  BY <1>0, <1>2
<1>. HIDE DEF lo
<1>4. /\ n \in Seq(Alert) /\ Len(n) = Len(t) - lo + 1
      /\ \A i \in 1 .. Len(n) : n[i] = t[lo + i - 1] /\ lo + i - 1 \in 1 .. Len(t)
  BY <1>2, <1>3
<1>. HIDE DEF n
<1>5. \A i \in 1 .. Len(t) : ~t[i].resolved =>
        \/ i \in 1 .. Len(s) /\ t[i] = s[i] /\ t[i].kind # k
        \/ i = Len(t) /\ t[i].kind = k
  <2>. SUFFICES ASSUME NEW i \in 1 .. Len(t), ~t[i].resolved
                PROVE  \/ i \in 1 .. Len(s) /\ t[i] = s[i] /\ t[i].kind # k
                       \/ i = Len(t) /\ t[i].kind = k
    OBVIOUS
  <2>1. i \in 1 .. Len(s) \/ i = Len(t)
    BY <1>0, <1>2
  <2>. QED  BY <1>1, <1>2, <2>1 DEF OpenIn
<1>6. \A i, j \in 1 .. Len(t) :
        (t[i].kind = t[j].kind /\ ~t[i].resolved /\ ~t[j].resolved) => i = j
  BY <1>5 DEF AlertList
<1>7. AlertList(n)
  <2>1. ASSUME NEW i \in 1 .. Len(n), NEW j \in 1 .. Len(n),
               n[i].kind = n[j].kind, ~n[i].resolved, ~n[j].resolved
        PROVE  i = j
    <3>1. lo + i - 1 = lo + j - 1
      BY <1>4, <1>6, <2>1
    <3>. QED  BY <1>3, <1>4, <3>1
  <2>2. Len(n) <= MaxAlerts
    BY <1>3, <1>4
  <2>. QED  BY <1>4, <2>1, <2>2 DEF AlertList
<1>8. ASSUME NEW other, OpenIn(n, other) PROVE other = k \/ OpenIn(s, other)
  <2>1. PICK i \in 1 .. Len(n) : n[i].kind = other /\ ~n[i].resolved
    BY <1>8 DEF OpenIn
  <2>2. PICK j \in 1 .. Len(t) : t[j].kind = other /\ ~t[j].resolved
    BY <1>4, <2>1
  <2>. QED  BY <1>5, <2>2 DEF OpenIn
<1>9. n = Newest(Append(s, [kind |-> k, resolved |-> FALSE]))
  BY DEF n, t, new, lo, Newest
<1>. QED  BY <1>7, <1>8, <1>9

\* ResolveAlert.
LEMMA ResolvedList ==
  ASSUME NEW a \in Agent, NEW k \in Kind, AlertList(alerts[a])
  PROVE  /\ AlertList(Resolved(a, k)) /\ ~OpenIn(Resolved(a, k), k)
         /\ \A other : OpenIn(Resolved(a, k), other) => OpenIn(alerts[a], other)
<1>. DEFINE s == alerts[a]
            r == Resolved(a, k)
<1>1. s \in Seq(Alert) /\ Len(s) \in Nat /\ Len(s) <= MaxAlerts
  BY DEF AlertList
<1>2. r = [i \in 1 .. Len(s) |-> IF s[i].kind = k THEN [s[i] EXCEPT !.resolved = TRUE] ELSE s[i]]
  BY DEF Resolved
<1>. HIDE DEF s, r
<1>3. ASSUME NEW i \in 1 .. Len(s)
      PROVE  /\ r[i] \in Alert /\ r[i].kind = s[i].kind
             /\ s[i].kind = k => r[i].resolved
             /\ s[i].kind # k => r[i] = s[i]
  <2>1. s[i] \in Alert
    BY <1>1
  <2>. QED  BY <1>2, <2>1 DEF Alert
<1>4. r \in Seq(Alert) /\ Len(r) = Len(s)
  BY <1>1, <1>2, <1>3
<1>5. \A i \in 1 .. Len(r) : ~r[i].resolved => s[i] = r[i] /\ r[i].kind # k
  BY <1>3, <1>4
<1>6. AlertList(r)
  BY <1>1, <1>4, <1>5 DEF AlertList, s
<1>7. ~OpenIn(r, k) /\ \A other : OpenIn(r, other) => OpenIn(s, other)
  BY <1>4, <1>5 DEF OpenIn
<1>. QED  BY <1>6, <1>7 DEF r, s

\* What TypeOK says of the alerts.
LEMMA AlertTypes ==
  ASSUME TypeOK
  PROVE  /\ \A a \in Agent : AlertList(alerts[a])
         /\ \A a \in Agent : \A k : Open(a, k) <=> OpenIn(alerts[a], k)
BY DEF TypeOK, AlertList, Alert, Open, OpenIn

\* One agent's list is replaced.
LEMMA AlertsChange ==
  ASSUME TypeOK, NEW a \in Agent, NEW s, AlertList(s), alerts' = [alerts EXCEPT ![a] = s]
  PROVE  /\ alerts' \in [Agent -> Seq(Alert)] /\ \A b \in Agent : AlertList(alerts'[b])
         /\ \A b \in Agent : \A k : Open(b, k)' <=>
              IF b = a THEN OpenIn(s, k) ELSE Open(b, k)
<1>1. alerts \in [Agent -> Seq(Alert)] /\ s \in Seq(Alert)
  BY DEF TypeOK, AlertList, Alert
<1>2. \A b \in Agent : alerts'[b] = IF b = a THEN s ELSE alerts[b]
  BY <1>1
<1>3. \A b \in Agent : AlertList(alerts'[b])
  BY <1>2, AlertTypes
<1>4. \A b \in Agent : \A k : Open(b, k)' <=> OpenIn(alerts'[b], k)
  BY DEF Open, OpenIn
<1>. QED  BY <1>1, <1>2, <1>3, <1>4, AlertTypes

\* raise, AddAlert.
LEMMA RaiseStoreStep ==
  ASSUME IndInv, NEW p \in Actor, RaiseStore(p)
  PROVE  IndInv'
<1>0. TypeOK /\ CallsInv /\ RaiseInv /\ ToldInv /\ AlertIsRemembered
  BY DEF IndInv
<1>. DEFINE a == Current(p).agent
            k == Current(p).kind
<1>1. /\ work[p] # <<>> /\ Current(p).op = "raise" /\ stage[p] = "store"
      /\ UNCHANGED <<agents, alerted, told, dismissed>>
  BY DEF RaiseStore, At
<1>2. KeyOf(p) \in Key /\ Current(p) \in Call /\ KeyOf(p) = <<a, k>> /\ a \in Agent /\ k \in Kind
  BY <1>1, CallFacts DEF KeyOf, Call
<1>3. \/ /\ ~Open(a, k) /\ GotoStage(p, "match")
         /\ alerts' = [alerts EXCEPT ![a] = Newest(Append(@, [kind |-> k, resolved |-> FALSE]))]
      \/ Done(p) /\ UNCHANGED alerts
  BY DEF RaiseStore
<1>. HIDE DEF a, k
<1>4. /\ CallsInv' /\ work' \in [Actor -> Seq(Call)]
      /\ stage' \in [Actor -> {"first", "store", "match"}]
      /\ \A q \in Actor \ {p} : work'[q] = work[q] /\ stage'[q] = stage[q]
      /\ Done(p) => stage'[p] = "first"
      /\ GotoStage(p, "match") => work' = work /\ stage'[p] = "match"
  BY <1>1, <1>3, ActorMoves
<1>5. /\ alerts' \in [Agent -> Seq(Alert)] /\ \A b \in Agent : AlertList(alerts'[b])
      /\ \A b \in Agent : \A other : Open(b, other)' => Open(b, other) \/ <<b, other>> = <<a, k>>
  <2>1. CASE UNCHANGED alerts
    BY <1>0, <2>1, AlertTypes DEF Open, TypeOK, Alert
  <2>2. CASE ~UNCHANGED alerts
    <3>1. PICK s : s = Newest(Append(alerts[a], [kind |-> k, resolved |-> FALSE]))
      OBVIOUS
    <3>2. alerts' = [alerts EXCEPT ![a] = s] /\ ~Open(a, k)
      BY <1>3, <2>2, <3>1
    <3>3. AlertList(s) /\ \A other : OpenIn(s, other) => other = k \/ OpenIn(alerts[a], other)
      BY <1>0, <1>2, <3>1, <3>2, AlertTypes, NewestList
    <3>4. \A b \in Agent : \A other : Open(b, other)' <=>
            IF b = a THEN OpenIn(s, other) ELSE Open(b, other)
      BY <1>0, <1>2, <3>2, <3>3, AlertsChange
    <3>5. \A other : OpenIn(alerts[a], other) <=> Open(a, other)
      BY <1>0, <1>2, AlertTypes
    <3>. QED  BY <1>0, <1>2, <3>2, <3>3, <3>4, <3>5, AlertsChange
  <2>. QED  BY <2>1, <2>2
<1>6. TypeOK'
  BY <1>0, <1>1, <1>4, <1>5 DEF TypeOK, AlertList, Alert
<1>7. \A q \in Actor \ {p} : Current(q)' = Current(q) /\ KeyOf(q)' = KeyOf(q)
  BY <1>4 DEF Current, KeyOf
<1>8. Raising(p) /\ KeyOf(p) \in alerted
  BY <1>0, <1>1 DEF RaiseInv, Raising
<1>9. RaiseInv'
  <2>1. ASSUME NEW q \in Actor, Raising(q)' PROVE Raising(q) /\ KeyOf(q)' = KeyOf(q)
    <3>1. CASE q # p
      BY <1>4, <1>7, <2>1, <3>1 DEF Raising
    <3>2. CASE q = p
      BY <1>3, <1>4, <1>8, <2>1, <3>2 DEF KeyOf, Current, Raising
    <3>. QED  BY <3>1, <3>2
  <2>2. \A q \in Actor : Raising(q) => KeyOf(q) \in alerted'
    BY <1>0, <1>1 DEF RaiseInv
  <2>. QED  BY <1>0, <1>1, <2>1, <2>2, RaiseKept
<1>10. ToldInv'
  BY <1>0, <1>1 DEF ToldInv
<1>11. AlertIsRemembered'
  <2>1. \A key : \A q \in Actor : At(q, "clear", "store") /\ KeyOf(q) = key
                                => (At(q, "clear", "store") /\ KeyOf(q) = key)'
    <3>1. \A q \in Actor : At(q, "clear", "store") => q # p
      BY <1>1 DEF At
    <3>. QED  BY <1>4, <1>7, <3>1 DEF At
  <2>2. <<a, k>> \in alerted'
    BY <1>1, <1>2, <1>8
  <2>3. \A b \in Agent, other \in Kind : <<b, other>> \in alerted => <<b, other>> \in alerted'
    BY <1>1
  <2>. QED  BY <1>0, <1>5, <2>1, <2>2, <2>3 DEF AlertIsRemembered
<1>. QED  BY <1>4, <1>6, <1>9, <1>10, <1>11 DEF IndInv

\* raise, the rules.
LEMMA RaiseMatchStep ==
  ASSUME IndInv, NEW p \in Actor, RaiseMatch(p)
  PROVE  IndInv'
<1>0. TypeOK /\ CallsInv /\ RaiseInv /\ ToldInv /\ AlertIsRemembered
  BY DEF IndInv
<1>1. /\ work[p] # <<>> /\ Current(p).op = "raise" /\ stage[p] = "match" /\ Done(p)
      /\ UNCHANGED <<agents, alerts, alerted, dismissed>>
  BY DEF RaiseMatch, At
<1>2. KeyOf(p) \in Key /\ Raising(p)
  BY <1>1, CallFacts DEF Raising
<1>3. KeyOf(p) \in alerted /\ \A c \in Channel : told[KeyOf(p)][c] = 0
  BY <1>0, <1>2 DEF RaiseInv
<1>4. PICK out :
        told' = [told EXCEPT ![KeyOf(p)] = [c \in Channel |-> IF c \in out THEN @[c] + 1 ELSE @[c]]]
  BY DEF RaiseMatch
<1>5. /\ told' \in [Key -> [Channel -> Nat]]
      /\ \A c \in Channel : told'[KeyOf(p)][c] <= 1
      /\ \A key \in Key : key # KeyOf(p) => told'[key] = told[key]
  <2>1. told \in [Key -> [Channel -> Nat]]
    BY <1>0 DEF TypeOK
  <2>. QED  BY <1>2, <1>3, <1>4, <2>1
<1>6. /\ CallsInv' /\ work' \in [Actor -> Seq(Call)]
      /\ stage' \in [Actor -> {"first", "store", "match"}]
      /\ \A q \in Actor \ {p} : work'[q] = work[q] /\ stage'[q] = stage[q]
      /\ stage'[p] = "first"
  BY <1>1, ActorMoves
<1>7. TypeOK'
  BY <1>0, <1>1, <1>5, <1>6 DEF TypeOK
<1>8. \A q \in Actor \ {p} : Current(q)' = Current(q) /\ KeyOf(q)' = KeyOf(q)
  BY <1>6 DEF Current, KeyOf
<1>9. RaiseInv'
  <2>1. ASSUME NEW q \in Actor, Raising(q)'
        PROVE  /\ Raising(q) /\ KeyOf(q)' = KeyOf(q) /\ KeyOf(q) \in alerted'
               /\ \A c \in Channel : told'[KeyOf(q)][c] = told[KeyOf(q)][c]
    <3>1. q # p /\ Raising(q) /\ KeyOf(q)' = KeyOf(q)
      BY <1>6, <1>8, <2>1 DEF Raising
    <3>2. KeyOf(q) \in Key
      BY <3>1, CallFacts DEF Raising
    <3>3. KeyOf(q) \in alerted /\ KeyOf(q) # KeyOf(p)
      BY <1>0, <1>2, <3>1 DEF RaiseInv
    <3>. QED  BY <1>1, <1>5, <3>1, <3>2, <3>3
  <2>. QED  BY <1>0, <2>1, RaiseKept
<1>10. ToldInv'
  BY <1>0, <1>1, <1>3, <1>5 DEF ToldInv
<1>11. AlertIsRemembered'
  <2>1. \A a \in Agent, k \in Kind : Open(a, k)' => Open(a, k)
    BY <1>1 DEF Open
  <2>2. \A key : \A q \in Actor : At(q, "clear", "store") /\ KeyOf(q) = key
                                => (At(q, "clear", "store") /\ KeyOf(q) = key)'
    <3>1. \A q \in Actor : At(q, "clear", "store") => q # p
      BY <1>1 DEF At
    <3>. QED  BY <1>6, <1>8, <3>1 DEF At
  <2>. QED  BY <1>0, <1>1, <2>1, <2>2 DEF AlertIsRemembered
<1>. QED  BY <1>6, <1>7, <1>9, <1>10, <1>11 DEF IndInv

\* clear under e.mu.
LEMMA ClearFirstStep ==
  ASSUME IndInv, NEW p \in Actor, ClearFirst(p)
  PROVE  IndInv'
<1>0. TypeOK /\ CallsInv /\ RaiseInv /\ ToldInv /\ AlertIsRemembered
  BY DEF IndInv
<1>1. /\ work[p] # <<>> /\ Current(p).op = "clear" /\ stage[p] = "first" /\ GotoStage(p, "store")
      /\ alerted' = alerted \ {KeyOf(p)}
      /\ told' = [told EXCEPT ![KeyOf(p)] = [c \in Channel |-> 0]]
      /\ dismissed' \subseteq dismissed /\ UNCHANGED <<agents, alerts>>
  BY DEF ClearFirst, At
<1>2. /\ KeyOf(p) \in Key
      /\ \A q \in Actor \ {p} : work[q] # <<>> => KeyOf(q) # KeyOf(p)
  BY <1>1, CallFacts
<1>3. /\ told' \in [Key -> [Channel -> Nat]]
      /\ \A c \in Channel : told'[KeyOf(p)][c] = 0
      /\ \A key \in Key : key # KeyOf(p) => told'[key] = told[key]
  <2>1. told \in [Key -> [Channel -> Nat]]
    BY <1>0 DEF TypeOK
  <2>. QED  BY <1>1, <1>2, <2>1
<1>4. /\ CallsInv' /\ work' = work
      /\ stage' \in [Actor -> {"first", "store", "match"}]
      /\ \A q \in Actor \ {p} : stage'[q] = stage[q]
      /\ stage'[p] = "store"
  BY <1>1, ActorMoves
<1>5. TypeOK'
  BY <1>0, <1>1, <1>3, <1>4 DEF TypeOK
<1>6. \A q \in Actor : Current(q)' = Current(q) /\ KeyOf(q)' = KeyOf(q)
  BY <1>4 DEF Current, KeyOf
<1>7. RaiseInv'
  <2>1. ASSUME NEW q \in Actor, Raising(q)'
        PROVE  /\ Raising(q) /\ KeyOf(q)' = KeyOf(q) /\ KeyOf(q) \in alerted'
               /\ \A c \in Channel : told'[KeyOf(q)][c] = told[KeyOf(q)][c]
    <3>1. q # p /\ Raising(q) /\ KeyOf(q)' = KeyOf(q)
      BY <1>1, <1>4, <1>6, <2>1 DEF Raising
    <3>2. KeyOf(q) \in alerted
      BY <1>0, <3>1 DEF RaiseInv
    <3>3. KeyOf(q) \in Key /\ KeyOf(q) # KeyOf(p)
      BY <1>2, <3>1, CallFacts DEF Raising
    <3>. QED  BY <1>1, <1>3, <3>1, <3>2, <3>3
  <2>. QED  BY <1>0, <2>1, RaiseKept
<1>8. ToldInv'
  BY <1>0, <1>1, <1>3 DEF ToldInv
<1>9. AlertIsRemembered'
  <2>1. \A a \in Agent, k \in Kind : Open(a, k)' => Open(a, k)
    BY <1>1 DEF Open
  <2>2. \A key : \A q \in Actor : At(q, "clear", "store") /\ KeyOf(q) = key
                                => (At(q, "clear", "store") /\ KeyOf(q) = key)'
    BY <1>1, <1>4, <1>6 DEF At
  <2>3. (At(p, "clear", "store") /\ KeyOf(p) = KeyOf(p))'
    BY <1>1, <1>4, <1>6 DEF At
  <2>. QED  BY <1>0, <1>1, <1>6, <2>1, <2>2, <2>3 DEF AlertIsRemembered
<1>. QED  BY <1>4, <1>5, <1>7, <1>8, <1>9 DEF IndInv

\* clear, ResolveAlert.
LEMMA ClearStoreStep ==
  ASSUME IndInv, NEW p \in Actor, ClearStore(p)
  PROVE  IndInv'
<1>0. TypeOK /\ CallsInv /\ RaiseInv /\ ToldInv /\ AlertIsRemembered
  BY DEF IndInv
<1>. DEFINE a == Current(p).agent
            k == Current(p).kind
<1>1. /\ work[p] # <<>> /\ Current(p).op = "clear" /\ stage[p] = "store" /\ Done(p)
      /\ alerts' = [alerts EXCEPT ![a] = Resolved(a, k)]
      /\ UNCHANGED <<agents, alerted, told, dismissed>>
  BY DEF ClearStore, At
<1>2. KeyOf(p) = <<a, k>> /\ a \in Agent /\ k \in Kind
  BY <1>1, CallFacts DEF KeyOf, Call
<1>. HIDE DEF a, k
<1>3. /\ CallsInv' /\ work' \in [Actor -> Seq(Call)]
      /\ stage' \in [Actor -> {"first", "store", "match"}]
      /\ \A q \in Actor \ {p} : work'[q] = work[q] /\ stage'[q] = stage[q]
      /\ stage'[p] = "first"
  BY <1>1, ActorMoves
<1>4. /\ alerts' \in [Agent -> Seq(Alert)] /\ \A b \in Agent : AlertList(alerts'[b])
      /\ \A b \in Agent : \A other : Open(b, other)' => Open(b, other) /\ <<b, other>> # <<a, k>>
  <2>1. PICK s : s = Resolved(a, k)
    OBVIOUS
  <2>2. /\ AlertList(s) /\ ~OpenIn(s, k)
        /\ \A other : OpenIn(s, other) => OpenIn(alerts[a], other)
    BY <1>0, <1>2, <2>1, AlertTypes, ResolvedList
  <2>3. \A other : OpenIn(alerts[a], other) <=> Open(a, other)
    BY <1>0, <1>2, AlertTypes
  <2>4. alerts' = [alerts EXCEPT ![a] = s]
    BY <1>1, <2>1
  <2>5. /\ alerts' \in [Agent -> Seq(Alert)] /\ \A b \in Agent : AlertList(alerts'[b])
        /\ \A b \in Agent : \A other : Open(b, other)' <=>
             IF b = a THEN OpenIn(s, other) ELSE Open(b, other)
    BY <1>0, <1>2, <2>2, <2>4, AlertsChange
  <2>. QED  BY <1>2, <2>2, <2>3, <2>5
<1>5. TypeOK'
  BY <1>0, <1>1, <1>3, <1>4 DEF TypeOK, AlertList, Alert
<1>6. \A q \in Actor \ {p} : Current(q)' = Current(q) /\ KeyOf(q)' = KeyOf(q)
  BY <1>3 DEF Current, KeyOf
<1>7. RaiseInv'
  <2>1. \A q \in Actor : Raising(q)' => Raising(q) /\ KeyOf(q)' = KeyOf(q)
    BY <1>3, <1>6 DEF Raising
  <2>2. \A q \in Actor : Raising(q) => KeyOf(q) \in alerted'
    BY <1>0, <1>1 DEF RaiseInv
  <2>. QED  BY <1>0, <1>1, <2>1, <2>2, RaiseKept
<1>8. ToldInv'
  BY <1>0, <1>1 DEF ToldInv
<1>9. AlertIsRemembered'
  <2>1. ASSUME NEW b \in Agent, NEW other \in Kind, Open(b, other)'
        PROVE  (\/ <<b, other>> \in alerted
                \/ \E q \in Actor : At(q, "clear", "store") /\ KeyOf(q) = <<b, other>>)'
    <3>1. Open(b, other) /\ <<b, other>> # KeyOf(p)
      BY <1>2, <1>4, <2>1
    <3>2. CASE <<b, other>> \in alerted
      BY <1>1, <3>2
    <3>3. CASE <<b, other>> \notin alerted
      <4>1. PICK q \in Actor : At(q, "clear", "store") /\ KeyOf(q) = <<b, other>>
        BY <1>0, <3>1, <3>3 DEF AlertIsRemembered
      <4>2. (At(q, "clear", "store") /\ KeyOf(q) = <<b, other>>)'
        BY <1>3, <1>6, <3>1, <4>1 DEF At
      <4>. QED  BY <4>2
    <3>. QED  BY <3>2, <3>3
  <2>. QED  BY <2>1 DEF AlertIsRemembered
<1>. QED  BY <1>3, <1>5, <1>7, <1>8, <1>9 DEF IndInv

\* An actor with nothing to do gets work: a check, or an agent's report.
LEMMA NewWork ==
  ASSUME IndInv, NEW p \in Actor, work[p] = <<>>, NEW calls \in Seq(CallsOf(p)),
         work' = [work EXCEPT ![p] = calls],
         UNCHANGED <<agents, alerts, alerted, stage, told, dismissed>>
  PROVE  IndInv'
<1>0. TypeOK /\ CallsInv /\ RaiseInv /\ ToldInv /\ AlertIsRemembered
  BY DEF IndInv
<1>1. CallsOf(p) \subseteq Call
  BY DEF CallsOf
<1>2. calls \in Seq(Call)
  BY <1>1
<1>3. /\ work' \in [Actor -> Seq(Call)] /\ work'[p] = calls
      /\ \A q \in Actor \ {p} : work'[q] = work[q]
  BY <1>0, <1>2 DEF TypeOK
<1>4. TypeOK'
  BY <1>0, <1>3 DEF TypeOK
<1>5. stage[p] = "first"
  BY <1>0 DEF CallsInv
<1>6. CallsInv'
  BY <1>0, <1>3, <1>5 DEF CallsInv, CallsOf
<1>7. \A q \in Actor \ {p} : Current(q)' = Current(q) /\ KeyOf(q)' = KeyOf(q)
  BY <1>3 DEF Current, KeyOf
<1>8. RaiseInv'
  <2>1. \A q \in Actor : Raising(q)' => Raising(q) /\ KeyOf(q)' = KeyOf(q)
    BY <1>3, <1>5, <1>7 DEF Raising
  <2>2. \A q \in Actor : Raising(q) => KeyOf(q) \in alerted'
    BY <1>0 DEF RaiseInv
  <2>. QED  BY <1>0, <2>1, <2>2, RaiseKept
<1>9. ToldInv'
  BY <1>0 DEF ToldInv
<1>10. AlertIsRemembered'
  <2>1. \A a \in Agent, k \in Kind : Open(a, k)' => Open(a, k)
    BY DEF Open
  <2>2. \A key : \A q \in Actor : At(q, "clear", "store") /\ KeyOf(q) = key
                                => (At(q, "clear", "store") /\ KeyOf(q) = key)'
    BY <1>3, <1>7 DEF At
  <2>. QED  BY <1>0, <2>1, <2>2 DEF AlertIsRemembered
<1>. QED  BY <1>4, <1>6, <1>8, <1>9, <1>10 DEF IndInv

\* The ticker fires.
LEMMA CheckBeginStep ==
  ASSUME IndInv, CheckBegin
  PROVE  IndInv'
<1>1. PICK order \in SetToSeqs(Agent) :
        work' = [work EXCEPT ![Engine] =
                   FlattenSeq([i \in 1 .. Len(order) |-> Checks(order[i], agents[order[i]])])]
  BY DEF CheckBegin
<1>. DEFINE seqs == [i \in 1 .. Len(order) |-> Checks(order[i], agents[order[i]])]
            S == CallsOf(Engine)
<1>2. order \in Seq(Agent) /\ Len(order) \in Nat
  <2>1. Cardinality(Agent) \in Nat
    BY AlertAssumption, FS_CardinalityType
  <2>2. order \in [1 .. Cardinality(Agent) -> Agent]
    BY <1>1 DEF SetToSeqs
  <2>. QED  BY <2>1, <2>2
<1>3. ASSUME NEW a \in Agent, NEW r PROVE Checks(a, r) \in Seq(S)
  <2>1. /\ raise(a, "offline") \in S /\ raise(a, "high_cpu") \in S /\ raise(a, "net_spike") \in S
        /\ clear(a, "offline") \in S /\ clear(a, "high_cpu") \in S
    BY AlertAssumption DEF CallsOf, Call, Kind, raise, clear
  <2>. HIDE DEF S
  <2>2. /\ <<>> \in Seq(S) /\ \A x \in S : <<x>> \in Seq(S)
        /\ \A u, v \in Seq(S) : u \o v \in Seq(S)
    OBVIOUS
  <2>. QED  BY <2>1, <2>2 DEF Checks
<1>4. seqs \in Seq(Seq(S))
  <2>1. \A i \in 1 .. Len(order) : Checks(order[i], agents[order[i]]) \in Seq(S)
    BY <1>2, <1>3
  <2>. HIDE DEF S
  <2>. QED  BY <1>2, <2>1
<1>5. FlattenSeq(seqs) \in Seq(S)
  <2>. HIDE DEF seqs, S
  <2>. QED  BY <1>4, FlattenType
<1>6. Engine \in Actor /\ work[Engine] = <<>>
      /\ UNCHANGED <<agents, alerts, alerted, stage, told, dismissed>>
  BY DEF CheckBegin, Actor
<1>7. PICK calls : calls = FlattenSeq(seqs)
  OBVIOUS
<1>. HIDE DEF seqs
<1>8. calls \in Seq(CallsOf(Engine)) /\ work' = [work EXCEPT ![Engine] = calls]
  BY <1>1, <1>5, <1>7 DEF seqs
<1>. QED  BY <1>6, <1>8, NewWork

\* An anomaly reported by an agent is a call of the reader that got it.
LEMMA ReportStep ==
  ASSUME IndInv, NEW a \in Agent, NEW p \in Reader, NEW k \in Reported, ReportAnomaly(p, a, k)
  PROVE  IndInv'
<1>1. p \in Actor /\ p # Engine
  BY AlertAssumption DEF Actor
<1>2. raise(a, k) \in CallsOf(p)
  BY <1>1, AlertAssumption DEF CallsOf, Call, Kind, raise
<1>3. <<raise(a, k)>> \in Seq(CallsOf(p))
  BY <1>2
<1>. QED  BY <1>1, <1>3, NewWork DEF ReportAnomaly

-----------------------------------------------------------------------------
(* The agents and the administrator.                                        *)

\* A change of the records, in which no alert is opened.
LEMMA StoreStep ==
  ASSUME IndInv, UNCHANGED <<alerted, work, stage, told>>, TypeOK',
         \A a \in Agent, k \in Kind : Open(a, k)' => Open(a, k)
  PROVE  IndInv'
<1>0. TypeOK /\ CallsInv /\ RaiseInv /\ ToldInv /\ AlertIsRemembered
  BY DEF IndInv
<1>1. \A q \in Actor : Current(q)' = Current(q) /\ KeyOf(q)' = KeyOf(q)
  BY DEF Current, KeyOf
<1>2. CallsInv'
  BY <1>0 DEF CallsInv, CallsOf
<1>3. RaiseInv'
  <2>1. \A q \in Actor : Raising(q)' => Raising(q) /\ KeyOf(q)' = KeyOf(q)
    BY <1>1 DEF Raising
  <2>2. \A q \in Actor : Raising(q) => KeyOf(q) \in alerted'
    BY <1>0 DEF RaiseInv
  <2>. QED  BY <1>0, <2>1, <2>2, RaiseKept
<1>4. ToldInv'
  BY <1>0 DEF ToldInv
<1>5. \A key : \A q \in Actor : At(q, "clear", "store") /\ KeyOf(q) = key
                                => (At(q, "clear", "store") /\ KeyOf(q) = key)'
  BY <1>1 DEF At
<1>6. AlertIsRemembered'
  BY <1>0, <1>5 DEF AlertIsRemembered
<1>. QED  BY <1>2, <1>3, <1>4, <1>6 DEF IndInv

Record == [approval : {"absent", "pending", "approved", "rejected"}, online : BOOLEAN,
           seen : {"never", "recent", "stale"}, metric : {"none", "low", "high"}, net : BOOLEAN]

\* What the connections do to the store's records leaves alerts and engine alone.
LEMMA AgentStep ==
  ASSUME IndInv, NEW a \in Agent,
         \/ Alive(a) \/ GoOffline(a) \/ Discover(a) \/ Silence(a)
         \/ \E m \in {"low", "high"} : UpdateMetrics(a, m)
         \/ \E high \in BOOLEAN : RecordNet(a, high)
         \/ \E s \in {"approved", "rejected"} : SetApproval(a, s)
  PROVE  IndInv'
<1>0. TypeOK
  BY DEF IndInv
<1>1. agents \in [Agent -> Record]
  BY <1>0 DEF TypeOK, Record
<1>2. agents' \in [Agent -> Record] /\ UNCHANGED engineVars
  <2>1. CASE Alive(a)
    BY <1>1, <2>1 DEF Alive, Record
  <2>2. CASE GoOffline(a)
    BY <1>1, <2>2 DEF GoOffline, Record
  <2>3. CASE Discover(a)
    BY <1>1, <2>3 DEF Discover, Record
  <2>4. CASE Silence(a)
    BY <1>1, <2>4 DEF Silence, Record
  <2>5. ASSUME NEW m \in {"low", "high"}, UpdateMetrics(a, m)
        PROVE  agents' \in [Agent -> Record] /\ UNCHANGED engineVars
    BY <1>1, <2>5 DEF UpdateMetrics, Record
  <2>6. ASSUME NEW s \in {"approved", "rejected"}, SetApproval(a, s)
        PROVE  agents' \in [Agent -> Record] /\ UNCHANGED engineVars
    BY <1>1, <2>6 DEF SetApproval, Record
  <2>7. ASSUME NEW high \in BOOLEAN, RecordNet(a, high)
        PROVE  agents' \in [Agent -> Record] /\ UNCHANGED engineVars
    BY <1>1, <2>7 DEF RecordNet, Record
  <2>. QED  BY <2>1, <2>2, <2>3, <2>4, <2>5, <2>6, <2>7
<1>3. TypeOK'
  BY <1>0, <1>2 DEF TypeOK, Record, engineVars
<1>4. \A b \in Agent, k \in Kind : Open(b, k)' => Open(b, k)
  BY <1>2 DEF Open, engineVars
<1>. QED  BY <1>2, <1>3, <1>4, StoreStep DEF engineVars

\* Removing an agent and resolving by hand close alerts and open none.
LEMMA AdminStep ==
  ASSUME IndInv, NEW a \in Agent, RemoveAgent(a) \/ \E k \in Kind : AdminResolve(a, k)
  PROVE  IndInv'
<1>0. TypeOK
  BY DEF IndInv
<1>1. PICK s : /\ AlertList(s) /\ \A other : OpenIn(s, other) => Open(a, other)
               /\ alerts' = [alerts EXCEPT ![a] = s]
  <2>1. CASE RemoveAgent(a)
    <3>1. AlertList(<<>>) /\ \A other : ~OpenIn(<<>>, other)
      BY AlertAssumption DEF AlertList, OpenIn
    <3>. QED  BY <2>1, <3>1 DEF RemoveAgent
  <2>2. CASE \E k \in Kind : AdminResolve(a, k)
    <3>1. PICK k \in Kind : AdminResolve(a, k)
      BY <2>2
    <3>2. /\ AlertList(Resolved(a, k))
          /\ \A other : OpenIn(Resolved(a, k), other) => OpenIn(alerts[a], other)
      BY <1>0, AlertTypes, ResolvedList
    <3>3. \A other : OpenIn(alerts[a], other) => Open(a, other)
      BY <1>0, AlertTypes
    <3>4. alerts' = [alerts EXCEPT ![a] = Resolved(a, k)]
      BY <3>1 DEF AdminResolve
    <3>. QED  BY <3>2, <3>3, <3>4
  <2>. QED  BY <2>1, <2>2
<1>2. /\ alerts' \in [Agent -> Seq(Alert)] /\ \A b \in Agent : AlertList(alerts'[b])
      /\ \A b \in Agent : \A k : Open(b, k)' <=> IF b = a THEN OpenIn(s, k) ELSE Open(b, k)
  BY <1>0, <1>1, AlertsChange
<1>3. agents \in [Agent -> Record] /\ dismissed \subseteq Agent
  BY <1>0 DEF TypeOK, Record
<1>4. /\ agents' \in [Agent -> Record] /\ dismissed' \subseteq Agent
      /\ UNCHANGED <<alerted, work, stage, told>>
  <2>1. CASE RemoveAgent(a)
    BY <1>3, <2>1 DEF RemoveAgent, Record
  <2>2. ASSUME NEW k \in Kind, AdminResolve(a, k)
        PROVE  /\ agents' \in [Agent -> Record] /\ dismissed' \subseteq Agent
               /\ UNCHANGED <<alerted, work, stage, told>>
    <3>1. agents' = agents /\ UNCHANGED <<alerted, work, stage, told>>
      BY <2>2 DEF AdminResolve
    <3>2. dismissed' \subseteq Agent
      BY <1>3, <2>2 DEF AdminResolve
    <3>. QED  BY <1>3, <3>1, <3>2
  <2>. QED  BY <2>1, <2>2
<1>5. TypeOK'
  BY <1>0, <1>2, <1>4 DEF TypeOK, AlertList, Alert, Record
<1>6. \A b \in Agent, k \in Kind : Open(b, k)' => Open(b, k)
  BY <1>1, <1>2
<1>. QED  BY <1>4, <1>5, <1>6, StoreStep

-----------------------------------------------------------------------------
(* The theorems.                                                            *)

\* At the start there are no alerts and no calls under way.
LEMMA InitIndInv ==
  ASSUME Init
  PROVE  IndInv
<1>1. /\ agents \in [Agent -> Record] /\ alerts = [a \in Agent |-> <<>>] /\ alerted = {}
      /\ work = [p \in Actor |-> <<>>] /\ stage = [p \in Actor |-> "first"]
      /\ told = [k \in Key |-> [c \in Channel |-> 0]] /\ dismissed = {}
  BY DEF Init, Record
<1>2. /\ alerts \in [Agent -> Seq([kind : Kind, resolved : BOOLEAN])] /\ work \in [Actor -> Seq(Call)]
      /\ told \in [Key -> [Channel -> Nat]]
  BY <1>1
<1>3. \A a \in Agent : alerts[a] = <<>> /\ Len(alerts[a]) = 0 /\ 0 <= MaxAlerts
  BY <1>1, AlertAssumption
<1>4. TypeOK
  BY <1>1, <1>2, <1>3 DEF TypeOK, Record
<1>5. \A p \in Actor : work[p] = <<>> /\ stage[p] = "first" /\ <<>> \in Seq(CallsOf(p))
  BY <1>1
<1>6. CallsInv /\ RaiseInv
  BY <1>5 DEF CallsInv, RaiseInv, Raising
<1>7. ToldInv
  BY <1>1 DEF ToldInv
<1>8. AlertIsRemembered
  BY <1>3 DEF AlertIsRemembered, Open
<1>. QED  BY <1>4, <1>6, <1>7, <1>8 DEF IndInv

\* Every step keeps the inductive invariant.
LEMMA NextIndInv ==
  ASSUME IndInv, Next
  PROVE  IndInv'
<1>1. ASSUME NEW p \in Actor, Step(p) PROVE IndInv'
  BY <1>1, RaiseFirstStep, RaiseStoreStep, RaiseMatchStep, ClearFirstStep, ClearStoreStep DEF Step
<1>. QED  BY <1>1, CheckBeginStep, ReportStep, AgentStep, AdminStep DEF Next

\* The inductive invariant holds in every state of the engine and the store.
THEOREM Invariance == Spec => []IndInv
<1>1. Init => IndInv
  BY InitIndInv
<1>2. IndInv /\ [Next]_vars => IndInv'
  <2>1. CASE Next
    BY <2>1, NextIndInv
  <2>2. CASE UNCHANGED vars
    <3>. SUFFICES ASSUME IndInv PROVE IndInv'
      BY <2>2
    <3>1. TypeOK'
      BY <2>2 DEF IndInv, TypeOK, vars
    <3>2. \A a \in Agent, k \in Kind : Open(a, k)' => Open(a, k)
      BY <2>2 DEF vars, Open
    <3>. QED  BY <2>2, <3>1, <3>2, StoreStep DEF vars
  <2>. QED  BY <2>1, <2>2
<1>. QED  BY <1>1, <1>2, PTL DEF Spec

\* Type correctness of the alert engine, with the bound on the alerts kept and
\* at most one open alert of a kind (AddAlert).
THEOREM TypeCorrect == Spec => []TypeOK
<1>1. IndInv => TypeOK
  BY DEF IndInv
<1>. QED  BY <1>1, Invariance, PTL

\* raise, clear and ResolveAlert leave no alert open that the engine has
\* forgotten and is not about to resolve.
THEOREM MemorySafety == Spec => []AlertIsRemembered
<1>1. IndInv => AlertIsRemembered
  BY DEF IndInv
<1>. QED  BY <1>1, Invariance, PTL

\* raise and Match notify a channel once of a condition that lasts.
THEOREM NoticeSafety == Spec => []NotifiedOnce
<1>1. IndInv => NotifiedOnce
  BY DEF IndInv, ToldInv, NotifiedOnce
<1>. QED  BY <1>1, Invariance, PTL

=============================================================================

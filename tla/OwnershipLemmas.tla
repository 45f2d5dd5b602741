--------------------------- MODULE OwnershipLemmas ---------------------------
(***************************************************************************)
(* Facts about a family of queues and a family of sets that share no       *)
(* element: what taking the head of a queue into a set, putting an element *)
(* of a set in a queue and dropping elements do to them.  They are stated  *)
(* of two values before and after, so that both the ownership protocol and *)
(* the programs that keep it can cite them.                                *)
(***************************************************************************)
EXTENDS Integers, Sequences, Functions, SequenceTheorems, TLAPS

\* No element is twice in the queues q[r] and the sets h[t] together.
Sole(Q, T, q, h) ==
    /\ \A r \in Q : IsInjective(q[r])
    /\ \A r, s \in Q : r # s => Range(q[r]) \cap Range(q[s]) = {}
    /\ \A t, u \in T : t # u => h[t] \cap h[u] = {}
    /\ \A t \in T, r \in Q : h[t] \cap Range(q[r]) = {}

\* Set t takes at most the head of queue r, which loses it; no other set grows.
Takes(T, q1, h1, q2, h2, t, r) ==
    /\ q1[r] # <<>>
    /\ q2 = [q1 EXCEPT ![r] = Tail(q1[r])]
    /\ h2[t] \subseteq h1[t] \cup {Head(q1[r])}
    /\ \A u \in T \ {t} : h2[u] \subseteq h1[u]

\* Set t gives its element m to the end of queue r; no set grows.
Puts(T, q1, h1, q2, h2, t, m, r) ==
    /\ m \in h1[t]
    /\ q2 = [q1 EXCEPT ![r] = Append(q1[r], m)]
    /\ m \notin h2[t]
    /\ \A u \in T : h2[u] \subseteq h1[u]

-----------------------------------------------------------------------------
(* Appending to a sequence and taking its head, as operations on its range. *)

\* Append adds one element to the range and repeats none if it is new.
LEMMA AppendLemma ==
    ASSUME NEW S, NEW s \in Seq(S), NEW x \in S
    PROVE  /\ Append(s, x) \in Seq(S)
           /\ Range(Append(s, x)) = Range(s) \cup {x}
           /\ IsInjective(s) /\ x \notin Range(s) => IsInjective(Append(s, x))
<1>1. /\ Append(s, x) \in Seq(S)
      /\ Len(Append(s, x)) = Len(s) + 1
      /\ \A i \in 1 .. Len(s) : Append(s, x)[i] = s[i]
      /\ Append(s, x)[Len(s) + 1] = x
  BY AppendProperties
<1>2. /\ Len(s) \in Nat
      /\ DOMAIN s = 1 .. Len(s)
      /\ DOMAIN Append(s, x) = 1 .. Len(s) + 1
  BY <1>1
<1>3. Range(Append(s, x)) = Range(s) \cup {x}
  BY <1>1, <1>2 DEF Range
<1>4. ASSUME IsInjective(s), x \notin Range(s)
      PROVE  IsInjective(Append(s, x))
  BY <1>1, <1>2, <1>4 DEF Range, IsInjective
<1> QED
  BY <1>1, <1>3, <1>4

\* A sequence without repetitions loses exactly its head when its tail is kept.
LEMMA TailLemma ==
    ASSUME NEW S, NEW s \in Seq(S), s # <<>>, IsInjective(s)
    PROVE  /\ Tail(s) \in Seq(S)
           /\ Head(s) \in S /\ Head(s) \in Range(s)
           /\ IsInjective(Tail(s))
           /\ Range(Tail(s)) = Range(s) \ {Head(s)}
<1>1. /\ Head(s) \in S /\ Head(s) = s[1]
      /\ Tail(s) \in Seq(S)
      /\ Len(Tail(s)) = Len(s) - 1
      /\ \A i \in 1 .. Len(Tail(s)) : Tail(s)[i] = s[i + 1]
  BY HeadTailProperties
<1>2. /\ Len(s) \in Nat /\ Len(s) > 0
      /\ DOMAIN s = 1 .. Len(s)
      /\ DOMAIN Tail(s) = 1 .. Len(s) - 1
  BY <1>1, EmptySeq
<1>3. Head(s) \in Range(s)
  BY <1>1, <1>2 DEF Range
<1>4. IsInjective(Tail(s))
  BY <1>1, <1>2 DEF IsInjective
<1>5. Range(Tail(s)) \subseteq Range(s) \ {Head(s)}
  BY <1>1, <1>2 DEF Range, IsInjective
<1>6. ASSUME NEW y \in Range(s) \ {Head(s)}
      PROVE  y \in Range(Tail(s))
  <2>1. PICK i \in 1 .. Len(s) : y = s[i]
    BY <1>2, <1>6 DEF Range
  <2>2. i # 1
    BY <1>1, <1>6, <2>1
  <2>3. i - 1 \in 1 .. Len(Tail(s)) /\ Tail(s)[i - 1] = y
    BY <1>1, <1>2, <2>1, <2>2
  <2> QED
    BY <1>1, <1>2, <2>3 DEF Range
<1> QED
  BY <1>1, <1>3, <1>4, <1>5, <1>6

\* What is in a sequence is its head or in its tail.
LEMMA HeadOrTailLemma ==
    ASSUME NEW S, NEW s \in Seq(S), s # <<>>, NEW x \in Range(s)
    PROVE  x = Head(s) \/ x \in Range(Tail(s))
<1>1. /\ Head(s) = s[1] /\ Len(Tail(s)) = Len(s) - 1 /\ Tail(s) \in Seq(S)
      /\ \A i \in 1 .. Len(Tail(s)) : Tail(s)[i] = s[i + 1]
  BY HeadTailProperties
<1>2. Len(s) \in Nat /\ DOMAIN s = 1 .. Len(s) /\ DOMAIN Tail(s) = 1 .. Len(s) - 1
  BY <1>1, LenProperties
<1>3. PICK i \in 1 .. Len(s) : x = s[i]
  BY <1>2 DEF Range
<1>4. CASE i # 1
  <2>1. i - 1 \in 1 .. Len(Tail(s)) /\ Tail(s)[i - 1] = x
    BY <1>1, <1>2, <1>3, <1>4
  <2> QED
    BY <1>1, <1>2, <2>1 DEF Range
<1> QED
  BY <1>1, <1>3, <1>4

-----------------------------------------------------------------------------
(* The three moves. *)

\* A set takes the head of a queue.
LEMMA TakeLemma ==
    ASSUME NEW Q, NEW T, NEW M,
           NEW q1 \in [Q -> Seq(M)], NEW h1, NEW q2, NEW h2,
           NEW t \in T, NEW r \in Q,
           Sole(Q, T, q1, h1), Takes(T, q1, h1, q2, h2, t, r)
    PROVE  Sole(Q, T, q2, h2)
<1> USE DEF Takes
<1> DEFINE m == Head(q1[r])
<1>1. q1[r] \in Seq(M) /\ IsInjective(q1[r])
  BY DEF Sole
<1>2. /\ IsInjective(Tail(q1[r]))
      /\ Range(Tail(q1[r])) = Range(q1[r]) \ {m}
      /\ m \in Range(q1[r])
  BY <1>1, TailLemma
<1>3. \A s \in Q : q2[s] = IF s = r THEN Tail(q1[r]) ELSE q1[s]
  OBVIOUS
<1>4. \A s \in Q : IsInjective(q2[s])
  BY <1>2, <1>3 DEF Sole
<1>5. \A s \in Q : Range(q2[s]) \subseteq Range(q1[s]) /\ m \notin Range(q2[s])
  BY <1>2, <1>3 DEF Sole
<1>6. \A u \in T : m \notin h1[u]
  BY <1>2 DEF Sole
<1>7. \A s, v \in Q : s # v => Range(q2[s]) \cap Range(q2[v]) = {}
  BY <1>5 DEF Sole
<1>8. \A u, v \in T : u # v => h2[u] \cap h2[v] = {}
  <2> SUFFICES ASSUME NEW u \in T, NEW v \in T, u # v,
                      NEW x \in h2[u], x \in h2[v]
               PROVE  FALSE
    OBVIOUS
  <2>1. x \in h1[u] \/ (u = t /\ x = m)
    OBVIOUS
  <2>2. x \in h1[v] \/ (v = t /\ x = m)
    OBVIOUS
  <2> QED
    BY <1>6, <2>1, <2>2 DEF Sole
<1>9. \A u \in T, s \in Q : h2[u] \cap Range(q2[s]) = {}
  <2> SUFFICES ASSUME NEW u \in T, NEW s \in Q,
                      NEW x \in h2[u], x \in Range(q2[s])
               PROVE  FALSE
    OBVIOUS
  <2>1. x \in Range(q1[s]) /\ x # m
    BY <1>5
  <2>2. x \in h1[u]
    BY <2>1
  <2> QED
    BY <2>1, <2>2 DEF Sole
<1> QED
  BY <1>4, <1>7, <1>8, <1>9 DEF Sole

\* An element of a set is put in a queue.
LEMMA PutLemma ==
    ASSUME NEW Q, NEW T, NEW M,
           NEW q1 \in [Q -> Seq(M)], NEW h1, NEW q2, NEW h2,
           NEW t \in T, NEW r \in Q, NEW m \in M,
           Sole(Q, T, q1, h1), Puts(T, q1, h1, q2, h2, t, m, r)
    PROVE  Sole(Q, T, q2, h2)
<1> USE DEF Puts
<1>1. q1[r] \in Seq(M) /\ IsInjective(q1[r])
  BY DEF Sole
<1>2. \A s \in Q : m \notin Range(q1[s])
  BY DEF Sole
<1>3. /\ IsInjective(Append(q1[r], m))
      /\ Range(Append(q1[r], m)) = Range(q1[r]) \cup {m}
  BY <1>1, <1>2, AppendLemma
<1>4. \A s \in Q : q2[s] = IF s = r THEN Append(q1[r], m) ELSE q1[s]
  OBVIOUS
<1>5. \A s \in Q : IsInjective(q2[s])
  BY <1>3, <1>4 DEF Sole
<1>6. \A s \in Q : Range(q2[s]) = Range(q1[s]) \cup (IF s = r THEN {m} ELSE {})
  BY <1>3, <1>4
<1>7. \A u \in T : h2[u] \subseteq h1[u] /\ m \notin h2[u]
  BY DEF Sole
<1>8. \A s, v \in Q : s # v => Range(q2[s]) \cap Range(q2[v]) = {}
  BY <1>2, <1>6 DEF Sole
<1>9. \A u, v \in T : u # v => h2[u] \cap h2[v] = {}
  BY <1>7 DEF Sole
<1>10. \A u \in T, s \in Q : h2[u] \cap Range(q2[s]) = {}
  <2> SUFFICES ASSUME NEW u \in T, NEW s \in Q,
                      NEW x \in h2[u], x \in Range(q2[s])
               PROVE  FALSE
    OBVIOUS
  <2>1. x \in h1[u] /\ x # m
    BY <1>7
  <2>2. x \in Range(q1[s])
    BY <1>6, <2>1
  <2> QED
    BY <2>1, <2>2 DEF Sole
<1> QED
  BY <1>5, <1>8, <1>9, <1>10 DEF Sole

\* Sets lose elements.
LEMMA DropLemma ==
    ASSUME NEW Q, NEW T, NEW q1, NEW h1, NEW h2,
           Sole(Q, T, q1, h1),
           \A u \in T : h2[u] \subseteq h1[u]
    PROVE  Sole(Q, T, q1, h2)
  BY DEF Sole
=============================================================================

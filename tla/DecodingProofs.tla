--------------------------- MODULE DecodingProofs ---------------------------
(***************************************************************************)
(* Decoding threads and their pipes, for any number of channels and of     *)
(* buffers: every buffer is idle, stored, in its decoder's hands or lent   *)
(* out, each of these exclusively, and the pictures of a channel bear      *)
(* consecutive numbers.  Both builds that use Decoding rest on this.       *)
(***************************************************************************)
EXTENDS Decoding, SequenceTheorems, TLAPS

-----------------------------------------------------------------------------
(* Lists of buffers: what is in them, and in which order.                  *)

(* push_back of a buffer that is not in the list. *)
LEMMA AppendNew ==
  ASSUME NEW S, NEW s \in Seq(S), NEW e \in S
  PROVE  /\ Append(s, e) \in Seq(S)
         /\ Len(Append(s, e)) = Len(s) + 1
         /\ ToSet(Append(s, e)) = ToSet(s) \cup {e}
         /\ IsInjective(s) /\ e \notin ToSet(s) => IsInjective(Append(s, e))
<1> DEFINE t == Append(s, e)
<1>1. /\ t \in Seq(S)
      /\ Len(t) = Len(s) + 1
      /\ \A i \in 1..Len(s) : t[i] = s[i]
      /\ t[Len(s) + 1] = e
  BY AppendProperties
<1>2. DOMAIN t = 1..(Len(s) + 1) /\ DOMAIN s = 1..Len(s) /\ Len(s) \in Nat
  BY <1>1, LenProperties
<1>3. DOMAIN t = DOMAIN s \cup {Len(s) + 1}
  BY <1>2
<1>4. ToSet(t) = ToSet(s) \cup {e}
  BY <1>1, <1>2, <1>3 DEF ToSet
<1>5. IsInjective(s) /\ e \notin ToSet(s) => IsInjective(t)
  BY <1>1, <1>2, <1>3 DEF ToSet, IsInjective
<1> QED
  BY <1>1, <1>4, <1>5

(* pop_front of a list without duplicates. *)
LEMMA PopFront ==
  ASSUME NEW S, NEW s \in Seq(S), s # <<>>
  PROVE  /\ Head(s) \in S
         /\ Head(s) \in ToSet(s)
         /\ Tail(s) \in Seq(S)
         /\ Len(Tail(s)) = Len(s) - 1
         /\ IsInjective(s) => /\ IsInjective(Tail(s))
                              /\ ToSet(Tail(s)) = ToSet(s) \ {Head(s)}
<1> DEFINE t == Tail(s)
<1>1. /\ Head(s) \in S
      /\ t \in Seq(S)
      /\ Len(t) = Len(s) - 1
      /\ \A i \in 1..Len(t) : t[i] = s[i + 1]
  BY HeadTailProperties
<1>2. Len(s) \in Nat \ {0} /\ DOMAIN s = 1..Len(s) /\ DOMAIN t = 1..(Len(s) - 1)
  BY <1>1, LenProperties, EmptySeq
<1>3. Head(s) = s[1]
  BY <1>2
<1>4. Head(s) \in ToSet(s)
  BY <1>2, <1>3 DEF ToSet
<1>5. ASSUME IsInjective(s)
      PROVE  IsInjective(t) /\ ToSet(t) = ToSet(s) \ {Head(s)}
  <2>1. \A i, j \in 1..Len(s) : s[i] = s[j] => i = j
    BY <1>2, <1>5 DEF IsInjective
  <2>2. \A i \in DOMAIN t : i + 1 \in 1..Len(s) /\ i + 1 # 1 /\ t[i] = s[i + 1]
    BY <1>1, <1>2
  <2>3. IsInjective(t)
    <3>1. ASSUME NEW i \in DOMAIN t, NEW j \in DOMAIN t, t[i] = t[j]
          PROVE  i = j
      <4>1. i + 1 = j + 1
        BY <2>1, <2>2, <3>1
      <4> QED
        BY <4>1, <1>2
    <3> QED
      BY <3>1 DEF IsInjective
  <2>4. ToSet(t) \subseteq ToSet(s) \ {Head(s)}
    BY <1>2, <1>3, <2>1, <2>2 DEF ToSet
  <2>5. ASSUME NEW x \in ToSet(s) \ {Head(s)}
        PROVE  x \in ToSet(t)
    <3>1. PICK i \in 1..Len(s) : x = s[i]
      BY <1>2 DEF ToSet
    <3>2. i # 1
      BY <1>3, <3>1
    <3>3. i - 1 \in DOMAIN t /\ t[i - 1] = s[i]
      <4>1. i - 1 \in 1..Len(t)
        BY <3>2, <1>1, <1>2
      <4> QED
        BY <4>1, <1>1, <1>2
    <3> QED
      BY <3>1, <3>3 DEF ToSet
  <2> QED
    BY <2>3, <2>4, <2>5
<1> QED
  BY <1>1, <1>4, <1>5

(* push_front of a buffer that is not in the list. *)
LEMMA PushFront ==
  ASSUME NEW S, NEW s \in Seq(S), NEW e \in S
  PROVE  /\ Cons(e, s) \in Seq(S)
         /\ ToSet(Cons(e, s)) = ToSet(s) \cup {e}
         /\ IsInjective(s) /\ e \notin ToSet(s) => IsInjective(Cons(e, s))
<1> DEFINE t == <<e>> \o s
<1>1. Len(s) \in Nat /\ DOMAIN s = 1..Len(s)
  BY LenProperties
<1>2. /\ t \in Seq(S)
      /\ Len(t) = Len(s) + 1
      /\ t[1] = e
      /\ \A i \in 2..(Len(s) + 1) : t[i] = s[i - 1]
  BY <1>1
<1>3. DOMAIN t = 1..(Len(s) + 1)
  BY <1>2, LenProperties
<1>4. \A i \in 1..Len(s) : i + 1 \in DOMAIN t /\ t[i + 1] = s[i]
  <2>1. ASSUME NEW i \in 1..Len(s)
        PROVE  i + 1 \in 2..(Len(s) + 1) /\ (i + 1) - 1 = i
    BY <1>1
  <2> QED
    BY <2>1, <1>1, <1>2, <1>3
<1>5. ToSet(t) = ToSet(s) \cup {e}
  <2>1. ToSet(t) \subseteq ToSet(s) \cup {e}
    <3>1. ASSUME NEW i \in DOMAIN t
          PROVE  t[i] \in ToSet(s) \cup {e}
      <4>1. CASE i = 1
        BY <4>1, <1>2
      <4>2. CASE i # 1
        <5>1. i - 1 \in DOMAIN s /\ t[i] = s[i - 1]
          BY <4>2, <1>1, <1>2, <1>3
        <5> QED
          BY <5>1 DEF ToSet
      <4> QED
        BY <4>1, <4>2
    <3> QED
      BY <3>1 DEF ToSet
  <2>2. e \in ToSet(t)
    <3>1. 1 \in DOMAIN t
      BY <1>1, <1>3
    <3> QED
      BY <3>1, <1>2 DEF ToSet
  <2>3. ToSet(s) \subseteq ToSet(t)
    BY <1>1, <1>4 DEF ToSet
  <2> QED
    BY <2>1, <2>2, <2>3
<1>6. ASSUME IsInjective(s), e \notin ToSet(s)
      PROVE  IsInjective(t)
  <2>1. \A i \in DOMAIN t \ {1} : i - 1 \in DOMAIN s /\ t[i] = s[i - 1]
    BY <1>1, <1>2, <1>3
  <2>2. \A i \in DOMAIN t \ {1} : t[i] # e
    BY <2>1, <1>6 DEF ToSet
  <2>3. \A i, j \in DOMAIN t \ {1} : t[i] = t[j] => i - 1 = j - 1
    BY <2>1, <1>6 DEF IsInjective
  <2>4. \A i, j \in DOMAIN t \ {1} : t[i] = t[j] => i = j
    BY <2>3, <1>1, <1>3
  <2> QED
    BY <2>2, <2>4, <1>2 DEF IsInjective
<1> QED
  BY <1>2, <1>5, <1>6 DEF Cons

(* A function on 1..n is a list.                                           *)
LEMMA FunctionIsList ==
  ASSUME NEW S, NEW n \in Nat, NEW f \in [1..n -> S]
  PROVE  f \in Seq(S) /\ Len(f) = n
<1>1. f \in Seq(S)
  BY SeqDef
<1>2. DOMAIN f = 1..n /\ DOMAIN f = 1..Len(f) /\ Len(f) \in Nat
  BY <1>1, LenProperties
<1>3. Len(f) = n
  BY <1>2
<1> QED
  BY <1>1, <1>3

(* Concatenation, with a definition that is expanded only where it has to  *)
(* be: elsewhere the provers are to take a line of lines as it stands.     *)
Join(s, t) == s \o t

LEMMA JoinType ==
  ASSUME NEW S, NEW s \in Seq(S), NEW t \in Seq(S)
  PROVE  Join(s, t) \in Seq(S) /\ Len(Join(s, t)) = Len(s) + Len(t)
BY DEF Join

LEMMA JoinAssociative ==
  ASSUME NEW S, NEW s \in Seq(S), NEW t \in Seq(S), NEW u \in Seq(S)
  PROVE  Join(Join(s, t), u) = Join(s, Join(t, u))
BY ConcatAssociative, SMTT(40) DEF Join

LEMMA JoinEmpty ==
  ASSUME NEW S, NEW s \in Seq(S)
  PROVE  Join(s, <<>>) = s /\ Join(<<>>, s) = s
BY ConcatEmptySeq DEF Join

(* Positions in a concatenation.                                           *)
LEMMA JoinAt ==
  ASSUME NEW S, NEW s \in Seq(S), NEW t \in Seq(S)
  PROVE  /\ Join(s, t) \in Seq(S)
         /\ Len(s) \in Nat /\ Len(t) \in Nat
         /\ DOMAIN s = 1..Len(s) /\ DOMAIN t = 1..Len(t)
         /\ Len(Join(s, t)) = Len(s) + Len(t)
         /\ DOMAIN Join(s, t) = 1..(Len(s) + Len(t))
         /\ \A i \in 1..Len(s) : Join(s, t)[i] = s[i]
         /\ \A i \in 1..Len(t) : Join(s, t)[Len(s) + i] = t[i]
         /\ \A i \in (Len(s) + 1)..(Len(s) + Len(t)) :
              i - Len(s) \in 1..Len(t) /\ Join(s, t)[i] = t[i - Len(s)]
BY DEF Join

(* What lies in the buffers of a list.                                     *)
Contents(f, s) == [i \in DOMAIN s |-> f[s[i]]]

LEMMA ContentsOfList ==
  ASSUME NEW P, NEW B, NEW s \in Seq(B), NEW f,
         \A b \in ToSet(s) : f[b] \in P
  PROVE  /\ Contents(f, s) \in Seq(P)
         /\ Len(Contents(f, s)) = Len(s)
         /\ \A i \in 1..Len(s) : s[i] \in ToSet(s) /\ Contents(f, s)[i] = f[s[i]]
<1>1. Len(s) \in Nat /\ DOMAIN s = 1..Len(s)
  BY LenProperties
<1>2. Contents(f, s) \in [1..Len(s) -> P]
  BY <1>1 DEF Contents, ToSet
<1>3. \A i \in 1..Len(s) : s[i] \in ToSet(s) /\ Contents(f, s)[i] = f[s[i]]
  BY <1>1 DEF Contents, ToSet
<1> QED
  BY <1>1, <1>2, <1>3, FunctionIsList

(* Only what is in the listed buffers matters.                             *)
LEMMA ContentsKept ==
  ASSUME NEW P, NEW B, NEW s \in Seq(B), NEW f, NEW g,
         \A b \in ToSet(s) : f[b] = g[b]
  PROVE  Contents(f, s) = Contents(g, s)
BY DEF Contents, ToSet

(* push_back, and what pop_front takes.                                    *)
LEMMA ContentsAppend ==
  ASSUME NEW P, NEW B, NEW s \in Seq(B), NEW f, NEW e \in B,
         f[e] \in P, \A b \in ToSet(s) : f[b] \in P
  PROVE  Contents(f, Append(s, e)) = Join(Contents(f, s), <<f[e]>>)
<1> DEFINE t == Append(s, e)
           new == Contents(f, t)
           old == Contents(f, s)
           app == old \o <<f[e]>>
<1>1. /\ t \in Seq(B) /\ Len(t) = Len(s) + 1 /\ Len(s) \in Nat
      /\ \A i \in 1..Len(s) : t[i] = s[i]
      /\ t[Len(s) + 1] = e
      /\ ToSet(t) = ToSet(s) \cup {e}
  <2>1. t \in Seq(B) /\ Len(t) = Len(s) + 1
    BY AppendProperties
  <2>2. /\ \A i \in 1..Len(s) : t[i] = s[i]
        /\ t[Len(s) + 1] = e
    BY AppendProperties
  <2>3. ToSet(t) = ToSet(s) \cup {e}
    BY AppendNew
  <2> QED
    BY <2>1, <2>2, <2>3, LenProperties
<1>2. /\ new \in Seq(P) /\ Len(new) = Len(s) + 1
      /\ \A i \in 1..(Len(s) + 1) : new[i] = f[t[i]]
  <2>1. \A b \in ToSet(t) : f[b] \in P
    BY <1>1
  <2>2. /\ new \in Seq(P) /\ Len(new) = Len(t)
        /\ \A i \in 1..Len(t) : new[i] = f[t[i]]
    <3> HIDE DEF t
    <3> QED
      BY <1>1, <2>1, ContentsOfList, SMTT(40)
  <2> QED
    BY <2>2, <1>1
<1>3. /\ old \in Seq(P) /\ Len(old) = Len(s)
      /\ \A i \in 1..Len(s) : old[i] = f[s[i]]
  <2>1. old \in Seq(P) /\ Len(old) = Len(s)
    BY ContentsOfList
  <2>2. \A i \in 1..Len(s) : old[i] = f[s[i]]
    BY LenProperties DEF Contents
  <2> QED
    BY <2>1, <2>2
<1> HIDE DEF old, new, t
<1>4. /\ app \in Seq(P) /\ Len(app) = Len(s) + 1
      /\ \A i \in 1..Len(s) : app[i] = old[i]
      /\ app[Len(s) + 1] = f[e]
  <2>1. app = Append(old, f[e])
    BY <1>3, AppendIsConcat
  <2> HIDE DEF app
  <2>2. /\ Append(old, f[e]) \in Seq(P)
        /\ Len(Append(old, f[e])) = Len(old) + 1
        /\ \A i \in 1..Len(old) : Append(old, f[e])[i] = old[i]
        /\ Append(old, f[e])[Len(old) + 1] = f[e]
    BY <1>3, AppendProperties
  <2> QED
    BY <1>3, <2>1, <2>2
<1> HIDE DEF app
<1>5. \A i \in 1..(Len(s) + 1) : new[i] = app[i]
  <2>1. ASSUME NEW i \in 1..(Len(s) + 1) PROVE i \in 1..Len(s) \/ i = Len(s) + 1
    BY <1>1
  <2>2. ASSUME NEW i \in 1..Len(s) PROVE new[i] = app[i]
    <3>1. i \in 1..(Len(s) + 1)
      BY <1>1
    <3> QED
      BY <3>1, <1>1, <1>2, <1>3, <1>4, SMTT(40)
  <2>3. new[Len(s) + 1] = app[Len(s) + 1]
    <3>1. Len(s) + 1 \in 1..(Len(s) + 1)
      BY <1>1
    <3> QED
      BY <3>1, <1>1, <1>2, <1>4
  <2> QED
    BY <2>1, <2>2, <2>3
<1>6. new = app
  BY <1>2, <1>4, <1>5, SeqEqual
<1> QED
  BY <1>6 DEF new, app, old, t, Join

LEMMA ContentsTail ==
  ASSUME NEW P, NEW B, NEW s \in Seq(B), NEW f, s # <<>>,
         \A b \in ToSet(s) : f[b] \in P
  PROVE  /\ Contents(f, s) = Join(<<f[Head(s)]>>, Contents(f, Tail(s)))
         /\ Contents(f, Tail(s)) \in Seq(P)
<1> DEFINE t == Tail(s)
           new == Contents(f, t)
           old == Contents(f, s)
           con == <<f[Head(s)]>> \o new
<1>1. /\ t \in Seq(B) /\ Len(s) \in Nat \ {0} /\ Len(t) = Len(s) - 1
      /\ \A i \in 1..(Len(s) - 1) : t[i] = s[i + 1]
      /\ Head(s) = s[1] /\ Head(s) \in ToSet(s)
      /\ DOMAIN s = 1..Len(s)
  BY HeadTailProperties, PopFront, LenProperties, EmptySeq
<1>2. ToSet(t) \subseteq ToSet(s)
  <2>1. DOMAIN t = 1..(Len(s) - 1)
    BY <1>1, LenProperties
  <2> QED
    BY <2>1, <1>1 DEF ToSet
<1>3. /\ old \in Seq(P) /\ Len(old) = Len(s)
      /\ \A i \in 1..Len(s) : old[i] = f[s[i]]
  BY ContentsOfList, SMTT(40)
<1>4. /\ new \in Seq(P) /\ Len(new) = Len(s) - 1
      /\ \A i \in 1..(Len(s) - 1) : new[i] = f[s[i + 1]]
  <2>1. /\ new \in Seq(P) /\ Len(new) = Len(t)
        /\ \A i \in 1..Len(t) : new[i] = f[t[i]]
    <3> HIDE DEF t
    <3> QED
      BY <1>1, <1>2, ContentsOfList
  <2> QED
    BY <2>1, <1>1
<1> HIDE DEF old, new, t
<1>5. /\ con \in Seq(P) /\ Len(con) = Len(s)
      /\ con[1] = f[Head(s)]
      /\ \A i \in 2..Len(s) : con[i] = new[i - 1]
  BY <1>1, <1>4
<1> HIDE DEF con
<1>6. ASSUME NEW i \in 1..Len(s) PROVE old[i] = con[i]
  <2>1. CASE i = 1
    BY <2>1, <1>1, <1>3, <1>5
  <2>2. CASE i # 1
    <3>1. i \in 2..Len(s) /\ i - 1 \in 1..(Len(s) - 1) /\ (i - 1) + 1 = i
      BY <2>2, <1>1
    <3> QED
      BY <3>1, <1>3, <1>4, <1>5
  <2> QED
    BY <2>1, <2>2
<1>7. old = con
  BY <1>3, <1>5, <1>6, SeqEqual
<1> QED
  BY <1>4, <1>7 DEF new, con, old, t, Join

(* The same of a list of elements that all have contents of one kind: the  *)
(* provers take the hypothesis as it stands.                               *)
Maps(f, B, P) == \A b \in B : f[b] \in P

LEMMA ContentsType ==
  ASSUME NEW P, NEW B, NEW f, Maps(f, B, P), NEW s \in Seq(B)
  PROVE  /\ Contents(f, s) \in Seq(P) /\ Len(Contents(f, s)) = Len(s)
         /\ \A i \in 1..Len(s) : Contents(f, s)[i] = f[s[i]]
<1>1. Len(s) \in Nat /\ DOMAIN s = 1..Len(s) /\ \A i \in 1..Len(s) : s[i] \in B
  BY LenProperties, ElementOfSeq
<1>2. Contents(f, s) \in [1..Len(s) -> P]
  BY <1>1 DEF Contents, Maps
<1>3. \A i \in 1..Len(s) : Contents(f, s)[i] = f[s[i]]
  BY <1>1 DEF Contents
<1> QED
  BY <1>1, <1>2, <1>3, FunctionIsList

LEMMA ContentsPush ==
  ASSUME NEW P, NEW B, NEW f, Maps(f, B, P), NEW s \in Seq(B), NEW e \in B
  PROVE  Contents(f, Append(s, e)) = Join(Contents(f, s), <<f[e]>>)
<1> DEFINE x == f[e]
           one == <<x>>
           t == Append(s, e)
           new == Contents(f, t)
           old == Contents(f, s)
           app == Join(old, one)
           n == Len(s)
<1>1. /\ t \in Seq(B) /\ Len(t) = n + 1 /\ n \in Nat
      /\ \A i \in 1..n : t[i] = s[i]
      /\ t[n + 1] = e
  BY AppendProperties, LenProperties
<1> HIDE DEF t, n
<1>2. /\ new \in Seq(P) /\ Len(new) = n + 1
      /\ \A i \in 1..(n + 1) : new[i] = f[t[i]]
  BY <1>1, ContentsType
<1>3. /\ old \in Seq(P) /\ Len(old) = n
      /\ \A i \in 1..n : old[i] = f[s[i]]
  BY ContentsType DEF n
<1>4. x \in P
  BY DEF Maps
<1> HIDE DEF old, new, x
<1>5. one \in Seq(P) /\ Len(one) = 1 /\ one[1] = x
  BY <1>4
<1> HIDE DEF one
<1>6. /\ app \in Seq(P) /\ Len(app) = n + 1
      /\ \A i \in 1..n : app[i] = old[i]
      /\ app[n + 1] = x
  <2>0. old \in Seq(P) /\ one \in Seq(P)
    BY <1>3, <1>5
  <2>1. app \in Seq(P) /\ Len(app) = Len(old) + Len(one)
    BY <2>0, JoinAt
  <2>2. \A i \in 1..Len(old) : app[i] = old[i]
    BY <2>0, JoinAt
  <2>3. \A i \in 1..Len(one) : app[Len(old) + i] = one[i]
    BY <2>0, JoinAt
  <2> QED
    BY <2>1, <2>2, <2>3, <1>1, <1>3, <1>5
<1> HIDE DEF app
<1>7. ASSUME NEW i \in 1..(n + 1) PROVE new[i] = app[i]
  <2>1. CASE i \in 1..n
    <3>1. new[i] = f[t[i]] /\ t[i] = s[i]
      BY <2>1, <1>1, <1>2
    <3>2. app[i] = f[s[i]]
      BY <2>1, <1>3, <1>6
    <3> QED
      BY <3>1, <3>2
  <2>2. CASE i = n + 1
    <3>1. new[i] = f[t[i]] /\ t[i] = e
      BY <2>2, <1>1, <1>2
    <3> QED
      BY <2>2, <3>1, <1>6 DEF x
  <2> QED
    BY <2>1, <2>2, <1>1
<1>8. new = app
  BY <1>2, <1>6, <1>7, SeqEqual
<1> QED
  BY <1>8 DEF new, app, old, t, one, x

(* A list of two parts, and how a list is parted.                          *)
LEMMA ContentsJoin ==
  ASSUME NEW P, NEW B, NEW f, Maps(f, B, P), NEW front \in Seq(B), NEW rest \in Seq(B)
  PROVE  Contents(f, Join(front, rest)) = Join(Contents(f, front), Contents(f, rest))
<1> DEFINE s == Join(front, rest)
           all == Contents(f, s)
           one == Contents(f, front)
           two == Contents(f, rest)
           con == Join(one, two)
           n == Len(front)
           m == Len(rest)
<1>1. /\ s \in Seq(B) /\ Len(s) = n + m /\ n \in Nat /\ m \in Nat
      /\ \A i \in 1..n : s[i] = front[i]
  BY JoinAt
<1>2. \A i \in (n + 1)..(n + m) : i - n \in 1..m /\ s[i] = rest[i - n]
  BY JoinAt
<1>3. /\ one \in Seq(P) /\ Len(one) = n
      /\ \A i \in 1..n : one[i] = f[front[i]]
  BY ContentsType
<1>4. /\ two \in Seq(P) /\ Len(two) = m
      /\ \A i \in 1..m : two[i] = f[rest[i]]
  BY ContentsType
<1> HIDE DEF s, n, m
<1>5. /\ all \in Seq(P) /\ Len(all) = n + m
      /\ \A i \in 1..(n + m) : all[i] = f[s[i]]
  BY <1>1, ContentsType
<1> HIDE DEF all, one, two
<1>6. one \in Seq(P) /\ two \in Seq(P)
  BY <1>3, <1>4
<1>7. /\ con \in Seq(P) /\ Len(con) = Len(one) + Len(two)
      /\ \A i \in 1..Len(one) : con[i] = one[i]
  BY <1>6, JoinAt
<1>8. \A i \in (Len(one) + 1)..(Len(one) + Len(two)) : con[i] = two[i - Len(one)]
  BY <1>6, JoinAt
<1> HIDE DEF con
<1>9. ASSUME NEW i \in 1..(n + m) PROVE all[i] = con[i]
  <2>1. CASE i \in 1..n
    <3>1. all[i] = f[s[i]] /\ s[i] = front[i]
      BY <2>1, <1>1, <1>5
    <3>2. con[i] = f[front[i]]
      BY <2>1, <1>3, <1>7
    <3> QED
      BY <3>1, <3>2
  <2>2. CASE i \in (n + 1)..(n + m)
    <3>1. all[i] = f[s[i]] /\ s[i] = rest[i - n] /\ i - n \in 1..m
      BY <2>2, <1>2, <1>5
    <3>2. con[i] = two[i - n]
      BY <2>2, <1>3, <1>4, <1>8
    <3>3. two[i - n] = f[rest[i - n]]
      BY <3>1, <1>4
    <3> QED
      BY <3>1, <3>2, <3>3
  <2> QED
    BY <2>1, <2>2, <1>1
<1>10. all = con
  <2>1. Len(con) = n + m
    BY <1>3, <1>4, <1>7
  <2> QED
    BY <2>1, <1>5, <1>7, <1>9, SeqEqual
<1> QED
  BY <1>10 DEF all, con, one, two, s

LEMMA Parted ==
  ASSUME NEW S, NEW s \in Seq(S), NEW n \in Nat, n <= Len(s)
  PROVE  /\ SubSeq(s, 1, n) \in Seq(S) /\ SubSeq(s, n + 1, Len(s)) \in Seq(S)
         /\ Join(SubSeq(s, 1, n), SubSeq(s, n + 1, Len(s))) = s
<1> DEFINE m == Len(s)
           front == SubSeq(s, 1, n)
           rest == SubSeq(s, n + 1, m)
           con == Join(front, rest)
<1>1. m \in Nat /\ \A i \in 1..m : s[i] \in S
  BY LenProperties, ElementOfSeq
<1>2. /\ front \in Seq(S) /\ Len(front) = n
      /\ \A i \in 1..n : front[i] = s[i]
  BY <1>1
<1>3. /\ rest \in Seq(S) /\ Len(rest) = m - n
      /\ \A i \in 1..(m - n) : rest[i] = s[n + i]
  BY <1>1
<1> HIDE DEF front, rest
<1>4. front \in Seq(S) /\ rest \in Seq(S)
  BY <1>2, <1>3
<1>5. /\ con \in Seq(S) /\ Len(con) = Len(front) + Len(rest)
      /\ \A i \in 1..Len(front) : con[i] = front[i]
  BY <1>4, JoinAt
<1>6. \A i \in (Len(front) + 1)..(Len(front) + Len(rest)) : con[i] = rest[i - Len(front)]
  BY <1>4, JoinAt
<1> HIDE DEF con
<1>7. ASSUME NEW i \in 1..m PROVE con[i] = s[i]
  <2>1. CASE i \in 1..n
    BY <2>1, <1>2, <1>5
  <2>2. CASE i \in (n + 1)..m
    <3>1. i - n \in 1..(m - n) /\ n + (i - n) = i /\ n + (m - n) = m
      BY <2>2, <1>1
    <3>2. con[i] = rest[i - n]
      BY <2>2, <3>1, <1>2, <1>3, <1>6
    <3> QED
      BY <3>1, <3>2, <1>3
  <2> QED
    BY <2>1, <2>2, <1>1
<1>8. Len(con) = m
  BY <1>1, <1>2, <1>3, <1>5
<1>9. con = s
  BY <1>5, <1>7, <1>8, SeqEqual
<1> QED
  BY <1>2, <1>3, <1>9 DEF con, front, rest

-----------------------------------------------------------------------------
LEMMA FollowingNoType == \A n \in FrameNos : FollowingNo(n) \in FrameNos
BY DecodingAssumption DEF FrameNos, FollowingNo

LEMMA OwnBuffers ==
  ASSUME NEW c \in Channels
  PROVE  Own(c) \subseteq Buffers
<1>1. FLAGS_c \in Nat /\ NumBuffers \in Nat /\ c \in 1..FLAGS_c
  BY DecodingAssumption DEF Channels
<1>2. c * NumBuffers <= FLAGS_c * NumBuffers /\ (c - 1) * NumBuffers >= 0
  BY <1>1
<1>3. c * NumBuffers \in Nat /\ FLAGS_c * NumBuffers \in Nat /\ (c - 1) * NumBuffers \in Nat
  BY <1>1
<1> QED
  BY <1>2, <1>3 DEF Own, Buffers

LEMMA OwnDisjoint ==
  ASSUME NEW c \in Channels, NEW d \in Channels, c # d
  PROVE  Own(c) \cap Own(d) = {}
<1>1. NumBuffers \in Nat /\ c \in Nat /\ d \in Nat
  BY DecodingAssumption DEF Channels
<1>2. ASSUME NEW i \in Nat, NEW j \in Nat, i < j
      PROVE i * NumBuffers <= (j - 1) * NumBuffers
  BY <1>1, <1>2
<1> QED
  BY <1>1, <1>2 DEF Own

-----------------------------------------------------------------------------
(* Lines of pictures.                                                      *)

(* Forgetting the oldest pictures.                                         *)
LEMMA ForgetOldest ==
  ASSUME NEW S, NEW s \in Seq(S), NEW t \in Seq(S), NEW c, NEW newest,
         Consecutive(c, Join(s, t), newest)
  PROVE  Consecutive(c, t, newest)
<1> DEFINE st == Join(s, t)
           m == Len(s)
<1> HIDE DEF st
<1>1. /\ m \in Nat /\ Len(t) \in Nat /\ DOMAIN t = 1..Len(t)
      /\ DOMAIN st = 1..(m + Len(t))
      /\ \A i \in 1..Len(t) : st[m + i] = t[i]
  BY JoinAt DEF st
<1>2. Consecutive(c, st, newest)
  BY DEF st
<1>3. ASSUME NEW i \in DOMAIN t, NEW j \in DOMAIN t, Adjacent(c, t, i, j)
      PROVE  t[j].frameno = FollowingNo(t[i].frameno)
  <2>1. m + i < m + j /\ st[m + i].channel = c /\ st[m + j].channel = c
    BY <1>1, <1>3 DEF Adjacent
  <2>2. ASSUME NEW k \in (m + i + 1)..(m + j - 1)
        PROVE  st[k].channel # c
    <3>1. k - m \in (i + 1)..(j - 1) /\ k - m \in 1..Len(t) /\ m + (k - m) = k
      BY <1>1
    <3> QED
      BY <3>1, <1>1, <1>3 DEF Adjacent
  <2>3. Adjacent(c, st, m + i, m + j)
    BY <2>1, <2>2 DEF Adjacent
  <2>4. m + i \in DOMAIN st /\ m + j \in DOMAIN st
    BY <1>1
  <2> QED
    BY <2>3, <2>4, <1>1, <1>2 DEF Consecutive
<1>4. ASSUME NEW i \in DOMAIN t, t[i].channel = c, t[i].frameno # newest
      PROVE  \E j \in DOMAIN t : j > i /\ t[j].channel = c
  <2>1. m + i \in DOMAIN st /\ st[m + i] = t[i]
    BY <1>1
  <2>2. PICK j \in DOMAIN st : j > m + i /\ st[j].channel = c
    BY <2>1, <1>2, <1>4 DEF Consecutive
  <2>3. j - m \in DOMAIN t /\ j - m > i /\ m + (j - m) = j
    BY <2>2, <1>1
  <2> QED
    BY <2>2, <2>3, <1>1
<1> QED
  BY <1>3, <1>4 DEF Consecutive

(* A picture that was just decoded.                                        *)
LEMMA AppendNext ==
  ASSUME NEW S, NEW s \in Seq(S), NEW e \in S, NEW c, NEW newest,
         Consecutive(c, s, newest),
         e.channel = c, e.frameno = FollowingNo(newest)
  PROVE  Consecutive(c, Join(s, <<e>>), e.frameno)
<1> DEFINE t == Join(s, <<e>>)
           n == Len(s)
<1> HIDE DEF t
<1>1. /\ n \in Nat /\ DOMAIN s = 1..n /\ DOMAIN t = 1..(n + 1)
      /\ \A i \in 1..n : t[i] = s[i]
      /\ t[n + 1] = e
  BY DEF t, Join
<1>2. ASSUME NEW i \in DOMAIN t, NEW j \in DOMAIN t, Adjacent(c, t, i, j)
      PROVE  t[j].frameno = FollowingNo(t[i].frameno)
  <2>1. i \in DOMAIN s /\ t[i] = s[i] /\ s[i].channel = c
    BY <1>1, <1>2 DEF Adjacent
  <2>2. CASE j \in DOMAIN s
    <3>1. Adjacent(c, s, i, j)
      BY <2>1, <2>2, <1>1, <1>2 DEF Adjacent
    <3> QED
      BY <3>1, <2>1, <2>2, <1>1 DEF Consecutive
  <2>3. CASE j = n + 1
    <3>1. ~\E k \in DOMAIN s : k > i /\ s[k].channel = c
      BY <2>3, <1>1, <1>2 DEF Adjacent
    <3>2. s[i].frameno = newest
      BY <3>1, <2>1 DEF Consecutive
    <3> QED
      BY <3>2, <2>1, <2>3, <1>1
  <2> QED
    BY <2>2, <2>3, <1>1
<1>3. ASSUME NEW i \in DOMAIN t, t[i].channel = c, t[i].frameno # e.frameno
      PROVE  \E j \in DOMAIN t : j > i /\ t[j].channel = c
  BY <1>1, <1>3
<1> QED
  BY <1>2, <1>3 DEF Consecutive, t

(* Pictures of other channels, put anywhere into the line.                 *)
LEMMA InsertOthers ==
  ASSUME NEW S, NEW s \in Seq(S), NEW t \in Seq(S), NEW f \in Seq(S),
         NEW c, NEW newest,
         Consecutive(c, Join(s, t), newest),
         \A i \in DOMAIN f : f[i].channel # c
  PROVE  Consecutive(c, Join(Join(s, f), t), newest)
<1> DEFINE old == Join(s, t)
           sf == Join(s, f)
           new == Join(sf, t)
           m == Len(s)
           d == Len(f)
           n == Len(t)
<1> HIDE DEF old, sf, new
<1>1. /\ m \in Nat /\ d \in Nat /\ n \in Nat /\ DOMAIN f = 1..d
      /\ DOMAIN old = 1..(m + n)
      /\ \A i \in 1..m : old[i] = s[i]
      /\ \A i \in (m + 1)..(m + n) : old[i] = t[i - m]
  <2>1. m \in Nat /\ d \in Nat /\ n \in Nat /\ DOMAIN f = 1..d
    OBVIOUS
  <2>2. DOMAIN old = 1..(m + n) /\ \A i \in 1..m : old[i] = s[i]
    BY JoinAt DEF old
  <2>3. \A i \in (m + 1)..(m + n) : old[i] = t[i - m]
    BY JoinAt DEF old
  <2> QED
    BY <2>1, <2>2, <2>3
<1>2. /\ sf \in Seq(S) /\ Len(sf) = m + d
      /\ \A i \in 1..m : sf[i] = s[i]
      /\ \A i \in (m + 1)..(m + d) : i - m \in 1..d /\ sf[i] = f[i - m]
  <2>1. sf \in Seq(S) /\ Len(sf) = m + d
    BY JoinAt DEF sf
  <2>2. \A i \in 1..m : sf[i] = s[i]
    BY JoinAt DEF sf
  <2>3. \A i \in (m + 1)..(m + d) : i - m \in 1..d /\ sf[i] = f[i - m]
    BY JoinAt DEF sf
  <2> QED
    BY <2>1, <2>2, <2>3
<1>3. /\ DOMAIN new = 1..(m + d + n)
      /\ \A i \in 1..(m + d) : new[i] = sf[i]
      /\ \A i \in (m + d + 1)..(m + d + n) : new[i] = t[i - (m + d)]
  <2>1. sf \in Seq(S) /\ Len(sf) = m + d
    BY <1>2
  <2>2. /\ DOMAIN new = 1..(Len(sf) + Len(t))
        /\ \A i \in 1..Len(sf) : new[i] = sf[i]
        /\ \A i \in (Len(sf) + 1)..(Len(sf) + Len(t)) : new[i] = t[i - Len(sf)]
    <3>0. sf \in Seq(S)
      BY <2>1
    <3>1. DOMAIN new = 1..(Len(sf) + Len(t))
      BY <3>0, JoinAt DEF new
    <3>2. \A i \in 1..Len(sf) : new[i] = sf[i]
      BY <3>0, JoinAt DEF new
    <3>3. \A i \in (Len(sf) + 1)..(Len(sf) + Len(t)) : new[i] = t[i - Len(sf)]
      BY <3>0, JoinAt DEF new
    <3> QED
      BY <3>1, <3>2, <3>3
  <2> QED
    BY <2>1, <2>2, <1>1
<1> DEFINE was(i) == IF i <= m THEN i ELSE i - d
           now(i) == IF i <= m THEN i ELSE i + d
<1>4. \A i \in DOMAIN old : now(i) \in DOMAIN new /\ new[now(i)] = old[i]
  <2>1. ASSUME NEW i \in DOMAIN old PROVE now(i) \in DOMAIN new /\ new[now(i)] = old[i]
    <3>1. CASE i <= m
      BY <3>1, <1>1, <1>2, <1>3
    <3>2. CASE i > m
      <4>1. /\ i + d \in (m + d + 1)..(m + d + n) /\ (i + d) - (m + d) = i - m
            /\ now(i) = i + d
        BY <3>2, <1>1
      <4>2. i + d \in DOMAIN new /\ new[i + d] = t[i - m]
        BY <4>1, <1>1, <1>3
      <4>3. old[i] = t[i - m]
        BY <3>2, <1>1
      <4> QED
        BY <4>1, <4>2, <4>3
    <3> QED
      BY <3>1, <3>2, <1>1
  <2> QED
    BY <2>1
<1>5. ASSUME NEW i \in DOMAIN new, new[i].channel = c
      PROVE  /\ i <= m \/ i > m + d
             /\ was(i) \in DOMAIN old /\ old[was(i)] = new[i] /\ now(was(i)) = i
  <2>1. CASE i <= m
    BY <2>1, <1>1, <1>2, <1>3
  <2>2. CASE i > m + d
    <3>1. /\ i - d \in (m + 1)..(m + n) /\ (i - d) - m = i - (m + d)
          /\ i \in (m + d + 1)..(m + d + n) /\ i > m /\ (i - d) + d = i
      BY <2>2, <1>1, <1>3
    <3>2. new[i] = t[i - (m + d)]
      BY <3>1, <1>3
    <3>3. i - d \in DOMAIN old /\ old[i - d] = t[i - (m + d)]
      BY <3>1, <1>1, SMTT(40)
    <3>4. was(i) = i - d /\ now(i - d) = i
      BY <3>1, <1>1, SMTT(40)
    <3> QED
      BY <2>2, <3>2, <3>3, <3>4
  <2>3. CASE i > m /\ i <= m + d
    <3>1. i \in (m + 1)..(m + d) /\ i \in 1..(m + d)
      BY <2>3, <1>1, <1>3
    <3>2. i - m \in DOMAIN f /\ new[i] = f[i - m]
      BY <3>1, <1>1, <1>2, <1>3
    <3> QED
      BY <3>2, <1>5
  <2> QED
    BY <2>1, <2>2, <2>3, <1>1, <1>3
<1>6. ASSUME NEW i \in DOMAIN new, NEW j \in DOMAIN new, Adjacent(c, new, i, j)
      PROVE  new[j].frameno = FollowingNo(new[i].frameno)
  <2>1. /\ was(i) \in DOMAIN old /\ old[was(i)] = new[i] /\ now(was(i)) = i
        /\ was(j) \in DOMAIN old /\ old[was(j)] = new[j] /\ now(was(j)) = j
        /\ i <= m \/ i > m + d
        /\ j <= m \/ j > m + d
    BY <1>5, <1>6 DEF Adjacent
  <2>2. was(i) < was(j)
    <3>1. i \in Int /\ j \in Int /\ i < j
      BY <1>3, <1>1, <1>6 DEF Adjacent
    <3> QED
      BY <3>1, <2>1, <1>1
  <2>3. ASSUME NEW k \in (was(i) + 1)..(was(j) - 1)
        PROVE  old[k].channel # c
    <3>1. k \in DOMAIN old
      BY <2>1, <1>1
    <3>2. i \in Int /\ j \in Int /\ was(i) \in Int /\ was(j) \in Int
      BY <1>3, <1>1
    <3>3. k \in Int /\ was(i) < k /\ k < was(j)
      BY <3>1, <3>2, <1>1
    <3>4. now(was(i)) < now(k) /\ now(k) < now(was(j)) /\ now(k) \in Int
      <4> HIDE DEF was
      <4> QED
        BY <3>2, <3>3, <1>1
    <3>5. now(k) \in (i + 1)..(j - 1)
      BY <3>2, <3>4, <2>1, SMTT(40)
    <3> QED
      BY <3>1, <3>5, <1>4, <1>6 DEF Adjacent
  <2>4. Adjacent(c, old, was(i), was(j))
    BY <2>1, <2>2, <2>3, <1>6 DEF Adjacent
  <2> QED
    BY <2>1, <2>4 DEF Consecutive, old
<1>7. ASSUME NEW i \in DOMAIN new, new[i].channel = c, new[i].frameno # newest
      PROVE  \E j \in DOMAIN new : j > i /\ new[j].channel = c
  <2>1. was(i) \in DOMAIN old /\ old[was(i)] = new[i] /\ now(was(i)) = i
    BY <1>5, <1>7
  <2>2. PICK j \in DOMAIN old : j > was(i) /\ old[j].channel = c
    BY <2>1, <1>7 DEF Consecutive, old
  <2>3. now(j) > i
    BY <2>1, <2>2, <1>1, <1>3
  <2> QED
    BY <2>2, <2>3, <1>4
<1> QED
  BY <1>6, <1>7 DEF Consecutive, new, sf

-----------------------------------------------------------------------------
(* The invariant of the pipes and the decoding threads.                    *)

\* The buffers of channel c that its pipe and its decoder have.
Held(c) == (ToSet(inPipe[c]) \cup ToSet(outPipe[c]))
             \cup (IF decoder[c] = "store" THEN {decframe[c]} ELSE {})

(* No buffer is in two places, or in the pipe of another channel.          *)
Owned(c) ==
  /\ inPipe[c] \in Seq(Own(c)) /\ IsInjective(inPipe[c])
  /\ outPipe[c] \in Seq(Own(c)) /\ IsInjective(outPipe[c])
  /\ ToSet(inPipe[c]) \cap ToSet(outPipe[c]) = {}
  /\ decoder[c] = "store" =>
       /\ decframe[c] \in Own(c)
       /\ decframe[c] \notin ToSet(inPipe[c]) \cup ToSet(outPipe[c])
  /\ decoder[c] # "store" => decframe[c] = NoBuffer

(* A buffer never holds a picture of another channel; on its way to the    *)
(* consumer it holds one.                                                  *)
Labelled(c) ==
  /\ \A b \in Own(c) : imgbuf[b] # Unfilled => imgbuf[b].channel = c
  /\ \A b \in ToSet(outPipe[c]) : imgbuf[b] # Unfilled
  /\ decoder[c] = "store" => imgbuf[decframe[c]] # Unfilled

DecodingInv ==
  /\ DecodingTypeOK
  /\ \A c \in Channels : Owned(c) /\ Labelled(c)

PicturesOf(c) == [channel : {c}, frameno : FrameNos]

(* What a step of a decoding thread does for channel c: nothing, or one    *)
(* more picture, with the next number.                                     *)
Grows(c) ==
  \/ Pending(c)' = Pending(c) /\ nFrameProcessed'[c] = nFrameProcessed[c]
  \/ \E e \in PicturesOf(c) :
       /\ e.frameno = FollowingNo(nFrameProcessed[c])
       /\ nFrameProcessed'[c] = e.frameno
       /\ Pending(c)' = Join(Pending(c), <<e>>)

(* What is written into a buffer, idle as it is, is of the same channel.   *)
BuffersKept(c) ==
  /\ \A b \in Own(c) \ ToSet(inPipe[c]) : imgbuf'[b] = imgbuf[b]
  /\ \A b \in Own(c) : imgbuf[b] # Unfilled => imgbuf'[b] # Unfilled

LEMMA NotUnfilled ==
  ASSUME NEW f \in Frames \cup {Unfilled}
  PROVE  f # Unfilled => f \in Frames /\ f.channel \in Channels
BY DEF Frames, Unfilled

LEMMA FrameIsFilled ==
  ASSUME NEW c \in Channels, NEW n \in FrameNos
  PROVE  /\ [channel |-> c, frameno |-> n] \in Frames
         /\ [channel |-> c, frameno |-> n] # Unfilled
         /\ [channel |-> c, frameno |-> n] \in PicturesOf(c)
<1>1. c # 0
  BY DEF Channels
<1>2. [channel |-> c, frameno |-> n].channel = c /\ Unfilled.channel = 0
  BY DEF Unfilled
<1> QED
  BY <1>1, <1>2 DEF Frames, PicturesOf

LEMMA PendingType ==
  ASSUME DecodingInv, NEW c \in Channels
  PROVE  /\ Stored(c) \in Seq(PicturesOf(c))
         /\ Filling(c) \in Seq(PicturesOf(c))
         /\ Decoded(c) \in Seq(PicturesOf(c))
         /\ Pending(c) \in Seq(PicturesOf(c))
<1> USE DEF DecodingInv
<1>1. Owned(c) /\ Labelled(c)
  OBVIOUS
<1>2. \A b \in Own(c) : imgbuf[b] # Unfilled => imgbuf[b] \in PicturesOf(c)
  <2>1. ASSUME NEW b \in Own(c), imgbuf[b] # Unfilled
        PROVE  imgbuf[b] \in PicturesOf(c)
    <3>1. imgbuf[b] \in Frames \cup {Unfilled}
      BY OwnBuffers DEF DecodingTypeOK
    <3>2. imgbuf[b] \in Frames /\ imgbuf[b].channel = c
      BY <3>1, <2>1, <1>1, NotUnfilled DEF Labelled
    <3> QED
      BY <3>2 DEF Frames, PicturesOf
  <2> QED
    BY <2>1
<1>3. ToSet(outPipe[c]) \subseteq Own(c)
  BY <1>1 DEF Owned, ToSet
<1>4. Stored(c) \in Seq(PicturesOf(c))
  <2>1. \A b \in ToSet(outPipe[c]) : imgbuf[b] \in PicturesOf(c)
    BY <1>1, <1>2, <1>3 DEF Labelled
  <2>2. Contents(imgbuf, outPipe[c]) \in Seq(PicturesOf(c))
    BY <2>1, <1>1, ContentsOfList DEF Owned
  <2> QED
    BY <2>2 DEF Stored, Contents
<1>5. Filling(c) \in Seq(PicturesOf(c))
  BY <1>1, <1>2 DEF Owned, Labelled, Filling
<1>6. Decoded(c) \in Seq(PicturesOf(c))
  BY FrameIsFilled DEF Decoded, DecodingTypeOK
<1>7. Pending(c) \in Seq(PicturesOf(c))
  BY <1>4, <1>5, <1>6, ConcatProperties DEF Pending
<1> QED
  BY <1>4, <1>5, <1>6, <1>7

LEMMA PendingTypes == DecodingInv => \A c \in Channels : Pending(c) \in Seq(PicturesOf(c))
BY PendingType

LEMMA PendingTypesNext ==
  DecodingInv' => (\A c \in Channels : Pending(c) \in Seq(PicturesOf(c)))'
BY PendingTypes, PTL

(* At the start every pipe has its buffers, idle and unfilled.             *)
LEMMA DecodingInitInv ==
  ASSUME DecodingInit
  PROVE  DecodingInv /\ \A c \in Channels : Pending(c) = <<>>
<1> USE DEF DecodingInit
<1>1. FLAGS_c \in Nat \ {0} /\ NumBuffers \in Nat \ {0} /\ FrameCycle \in Nat \ {0}
      /\ SEM_VALUE_MAX \in Nat \ {0} /\ StartupWindow \in Nat
  BY DecodingAssumption
<1>2. ASSUME NEW c \in Channels
      PROVE  /\ inPipe[c] \in Seq(Own(c)) /\ IsInjective(inPipe[c])
             /\ outPipe[c] = <<>> /\ decoder[c] = "decode" /\ decframe[c] = NoBuffer
  <2> DEFINE list == [i \in 1..NumBuffers |-> (c - 1) * NumBuffers + i]
  <2>1. inPipe[c] = list /\ outPipe[c] = <<>> /\ decoder[c] = "decode"
        /\ decframe[c] = NoBuffer
    OBVIOUS
  <2>2. (c - 1) * NumBuffers \in Nat /\ c * NumBuffers = (c - 1) * NumBuffers + NumBuffers
    BY <1>1 DEF Channels
  <2>3. \A i \in 1..NumBuffers : (c - 1) * NumBuffers + i \in Own(c)
    BY <1>1, <2>2 DEF Own
  <2>4. list \in [1..NumBuffers -> Own(c)]
    BY <2>3
  <2>5. list \in Seq(Own(c))
    <3> HIDE DEF list
    <3> QED
      BY <2>4, <1>1, FunctionIsList
  <2>6. IsInjective(list)
    <3>1. ASSUME NEW i \in 1..NumBuffers, NEW j \in 1..NumBuffers, list[i] = list[j]
          PROVE  i = j
      BY <3>1, <2>2, <1>1
    <3> QED
      BY <3>1 DEF IsInjective
  <2> QED
    BY <2>1, <2>5, <2>6
<1>3. ASSUME NEW c \in Channels
      PROVE  Owned(c) /\ Labelled(c) /\ Pending(c) = <<>>
  <2>1. ToSet(outPipe[c]) = {}
    BY <1>2 DEF ToSet
  <2>2. outPipe[c] \in Seq(Own(c)) /\ IsInjective(outPipe[c])
    <3>1. DOMAIN outPipe[c] = {}
      BY <1>2
    <3> QED
      BY <1>2, <3>1 DEF IsInjective
  <2>3. Owned(c)
    BY <1>2, <2>1, <2>2 DEF Owned
  <2>4. Labelled(c)
    BY <1>2, <2>1, OwnBuffers DEF Labelled
  <2>5. Stored(c) = <<>> /\ Filling(c) = <<>> /\ Decoded(c) = <<>>
    BY <1>2 DEF Stored, Filling, Decoded
  <2> QED
    BY <2>3, <2>4, <2>5 DEF Pending
<1>4. DecodingTypeOK
  <2>1. ASSUME NEW c \in Channels
        PROVE  inPipe[c] \in Seq(Buffers) /\ outPipe[c] \in Seq(Buffers)
    <3>1. Own(c) \subseteq Buffers
      BY OwnBuffers
    <3>2. inPipe[c] \in Seq(Buffers)
      BY <1>2, <3>1, SeqMonotonic
    <3>3. outPipe[c] \in Seq(Buffers)
      BY <1>2
    <3> QED
      BY <3>2, <3>3
  <2>2. inPipe \in [Channels -> Seq(Buffers)]
    BY <2>1
  <2>3. 0 \in FrameNos
    BY <1>1 DEF FrameNos
  <2> QED
    BY <1>1, <2>2, <2>3 DEF DecodingTypeOK
<1> QED
  BY <1>3, <1>4 DEF DecodingInv

(* A pipe nobody touches.                                                  *)
LEMMA PipeUntouched ==
  ASSUME DecodingInv, NEW c \in Channels,
         inPipe'[c] = inPipe[c], outPipe'[c] = outPipe[c],
         decoder'[c] = decoder[c], decframe'[c] = decframe[c],
         nFrameProcessed'[c] = nFrameProcessed[c],
         \A b \in Own(c) : imgbuf'[b] = imgbuf[b]
  PROVE  /\ Owned(c)' /\ Labelled(c)'
         /\ Held(c)' = Held(c)
         /\ Pending(c)' = Pending(c)
<1>1. Owned(c) /\ Labelled(c)
  BY DEF DecodingInv
<1>2. ToSet(outPipe[c]) \subseteq Own(c)
  BY <1>1 DEF Owned, ToSet
<1>3. Owned(c)'
  BY <1>1 DEF Owned
<1>4. Labelled(c)'
  BY <1>1, <1>2 DEF Owned, Labelled
<1>5. Stored(c)' = Stored(c)
  BY <1>2 DEF Stored, ToSet
<1>6. Filling(c)' = Filling(c) /\ Decoded(c)' = Decoded(c)
  BY <1>1 DEF Owned, Filling, Decoded
<1> QED
  BY <1>3, <1>4, <1>5, <1>6 DEF Pending, Held

LEMMA DecoderTypes ==
  ASSUME DecodingInv, NEW d \in Channels, DecoderStep(d)
  PROVE  DecodingTypeOK'
<1>1. DecodingTypeOK /\ Owned(d) /\ Own(d) \subseteq Buffers
  BY OwnBuffers DEF DecodingInv
<1>2. /\ FollowingNo(nFrameProcessed[d]) \in FrameNos
      /\ SEM_VALUE_MAX \in Nat /\ StartupWindow \in Nat
  BY <1>1, FollowingNoType, DecodingAssumption DEF DecodingTypeOK
<1>3. CASE DecoderExit(d)
  BY <1>1, <1>3 DEF DecoderExit, DecoderAt, mainVars, pipeVars, DecodingTypeOK
<1>4. CASE Decode(d)
  BY <1>1, <1>2, <1>4 DEF Decode, DecoderAt, mainVars, pipeVars, DecodingTypeOK
<1>5. CASE VppFails(d)
  BY <1>1, <1>2, <1>5 DEF VppFails, DecoderAt, mainVars, pipeVars, DecodingTypeOK
<1>6. CASE Fill(d)
  <2>1. Head(inPipe[d]) \in Buffers /\ Tail(inPipe[d]) \in Seq(Buffers)
    BY <1>1, <1>6 DEF Fill, DecodingTypeOK
  <2>2. [channel |-> d, frameno |-> nFrameProcessed[d]] \in Frames
    BY <1>1, FrameIsFilled DEF DecodingTypeOK
  <2> QED
    BY <1>1, <1>6, <2>1, <2>2 DEF Fill, DecoderAt, mainVars, DecodingTypeOK
<1>7. CASE StoreFrame(d)
  <2>1. Append(outPipe[d], decframe[d]) \in Seq(Buffers)
    <3>1. decframe[d] \in Buffers
      BY <1>1, <1>7 DEF StoreFrame, DecoderAt, Owned
    <3> QED
      BY <3>1, <1>1, AppendProperties DEF DecodingTypeOK
  <2>2. early' \in 0..StartupWindow
    BY <1>1, <1>2, <1>7 DEF StoreFrame, DecodingTypeOK
  <2> QED
    BY <1>1, <1>7, <2>1, <2>2 DEF StoreFrame, DecoderAt, DecodingTypeOK
<1>8. CASE Announce(d)
  <2>1. gNewtaskAvaiable' \in 0..SEM_VALUE_MAX
    BY <1>1, <1>2, <1>8 DEF Announce, Posted, DecodingTypeOK
  <2> QED
    BY <1>1, <1>8, <2>1 DEF Announce, DecoderAt, pipeVars, DecodingTypeOK
<1> QED
  BY <1>3, <1>4, <1>5, <1>6, <1>7, <1>8 DEF DecoderStep

(* A step of the decoding thread of channel c.                             *)
LEMMA DecoderOwnStep ==
  ASSUME DecodingInv, NEW c \in Channels, DecoderStep(c)
  PROVE  /\ Owned(c)' /\ Labelled(c)'
         /\ Held(c)' = Held(c)
         /\ Grows(c) /\ BuffersKept(c)
<1>1. DecodingTypeOK /\ Owned(c) /\ Labelled(c)
  BY DEF DecodingInv
<1>2. /\ Stored(c) \in Seq(PicturesOf(c))
      /\ Pending(c) \in Seq(PicturesOf(c))
  BY PendingType
<1>3. CASE DecoderExit(c) \/ Announce(c)
  <2>1. /\ decoder[c] \in {"decode", "post"} /\ decoder'[c] \in {"decode", "done"}
        /\ UNCHANGED <<inPipe, outPipe, imgbuf, decframe, nFrameProcessed>>
    BY <1>1, <1>3 DEF DecoderExit, Announce, DecoderAt, pipeVars, DecodingTypeOK
  <2>2. Pending(c)' = Pending(c)
    BY <2>1 DEF Pending, Stored, Filling, Decoded
  <2> QED
    BY <1>1, <2>1, <2>2 DEF Owned, Labelled, Held, Grows, BuffersKept
<1>4. CASE Decode(c) \/ VppFails(c)
  <2> DEFINE e == [channel |-> c, frameno |-> FollowingNo(nFrameProcessed[c])]
  <2>1. /\ decoder[c] = "decode" /\ decoder'[c] \in {"get", "failed"}
        /\ nFrameProcessed'[c] = FollowingNo(nFrameProcessed[c])
        /\ UNCHANGED <<inPipe, outPipe, imgbuf, decframe>>
    BY <1>1, <1>4 DEF Decode, VppFails, DecoderAt, pipeVars, DecodingTypeOK
  <2>2. e \in PicturesOf(c)
    BY <1>1, FollowingNoType, FrameIsFilled DEF DecodingTypeOK
  <2>3. /\ Pending(c)' = Stored(c) \o (<<>> \o <<e>>)
        /\ Pending(c) = Stored(c) \o (<<>> \o <<>>)
    BY <2>1 DEF Pending, Stored, Filling, Decoded
  <2>4. Pending(c)' = Join(Pending(c), <<e>>)
    <3> HIDE DEF e
    <3>1. <<>> \o <<e>> = <<e>> /\ <<>> \o <<>> = <<>> /\ Stored(c) \o <<>> = Stored(c)
      BY <1>2, <2>2
    <3> QED
      BY <2>3, <3>1 DEF Join
  <2>5. Grows(c)
    BY <2>1, <2>2, <2>4 DEF Grows
  <2> QED
    BY <1>1, <2>1, <2>5 DEF Owned, Labelled, Held, BuffersKept
<1>5. CASE Fill(c)
  <2> DEFINE b == Head(inPipe[c])
             e == [channel |-> c, frameno |-> nFrameProcessed[c]]
  <2>1. /\ decoder[c] = "get" /\ decoder'[c] = "store"
        /\ inPipe[c] # <<>> /\ inPipe'[c] = Tail(inPipe[c])
        /\ decframe'[c] = b
        /\ UNCHANGED <<outPipe, nFrameProcessed>>
    BY <1>1, <1>5 DEF Fill, DecoderAt, DecodingTypeOK
  <2>2. /\ b \in Own(c) /\ b \in ToSet(inPipe[c])
        /\ Tail(inPipe[c]) \in Seq(Own(c)) /\ IsInjective(Tail(inPipe[c]))
        /\ ToSet(Tail(inPipe[c])) = ToSet(inPipe[c]) \ {b}
    BY <1>1, <2>1, PopFront DEF Owned
  <2>3. b \in Buffers /\ e # Unfilled /\ e.channel = c
    BY <1>1, <2>2, OwnBuffers, FrameIsFilled DEF DecodingTypeOK
  <2>4. imgbuf'[b] = e /\ \A x \in Own(c) \ {b} : imgbuf'[x] = imgbuf[x]
    BY <1>1, <1>5, <2>3, OwnBuffers DEF Fill, DecodingTypeOK
  <2>5. ToSet(outPipe[c]) \subseteq Own(c) \ {b}
    <3>1. ToSet(outPipe[c]) \subseteq Own(c)
      BY <1>1 DEF Owned, ToSet
    <3> QED
      BY <3>1, <1>1, <2>2 DEF Owned
  <2> HIDE DEF b, e
  <2>6. Owned(c)'
    BY <1>1, <2>1, <2>2, <2>5 DEF Owned
  <2>7. Labelled(c)'
    BY <1>1, <2>1, <2>3, <2>4, <2>5 DEF Labelled
  <2>8. Held(c)' = Held(c)
    BY <2>1, <2>2 DEF Held
  <2>9. Stored(c)' = Stored(c)
    BY <2>1, <2>4, <2>5 DEF Stored, ToSet
  <2>10. /\ Pending(c)' = Stored(c) \o (<<e>> \o <<>>)
         /\ Pending(c) = Stored(c) \o (<<>> \o <<e>>)
    BY <2>1, <2>4, <2>9 DEF Pending, Filling, Decoded, e
  <2>11. Pending(c)' = Pending(c)
    BY <2>10
  <2> QED
    BY <2>1, <2>2, <2>3, <2>4, <2>6, <2>7, <2>8, <2>11 DEF Grows, BuffersKept
<1>6. CASE StoreFrame(c)
  <2> DEFINE b == decframe[c]
  <2>1. /\ decoder[c] = "store" /\ decoder'[c] = "post"
        /\ outPipe'[c] = Append(outPipe[c], b)
        /\ decframe'[c] = NoBuffer
        /\ UNCHANGED <<inPipe, imgbuf, nFrameProcessed>>
    BY <1>1, <1>6 DEF StoreFrame, DecoderAt, DecodingTypeOK
  <2>2. /\ b \in Own(c) /\ b \notin ToSet(inPipe[c]) \cup ToSet(outPipe[c])
        /\ imgbuf[b] # Unfilled
    BY <1>1, <2>1 DEF Owned, Labelled
  <2>3. /\ outPipe'[c] \in Seq(Own(c)) /\ IsInjective(outPipe'[c])
        /\ ToSet(outPipe'[c]) = ToSet(outPipe[c]) \cup {b}
    BY <1>1, <2>1, <2>2, AppendNew DEF Owned
  <2>4. /\ outPipe[c] \in Seq(Own(c))
        /\ imgbuf[b] \in PicturesOf(c)
        /\ \A x \in ToSet(outPipe[c]) : imgbuf[x] \in PicturesOf(c)
    <3>1. ASSUME NEW x \in Own(c), imgbuf[x] # Unfilled
          PROVE  imgbuf[x] \in PicturesOf(c)
      <4>1. imgbuf[x] \in Frames /\ imgbuf[x].channel = c
        BY <3>1, <1>1, OwnBuffers, NotUnfilled DEF Labelled, DecodingTypeOK
      <4> QED
        BY <4>1 DEF Frames, PicturesOf
    <3>2. ToSet(outPipe[c]) \subseteq Own(c)
      BY <1>1 DEF Owned, ToSet
    <3> QED
      BY <3>1, <3>2, <1>1, <2>2 DEF Owned, Labelled
  <2>5. Contents(imgbuf, Append(outPipe[c], b)) = Join(Contents(imgbuf, outPipe[c]), <<imgbuf[b]>>)
    BY <2>2, <2>4, ContentsAppend
  <2>6. Stored(c)' = Stored(c) \o <<imgbuf[b]>>
    BY <2>1, <2>5 DEF Stored, Contents, Join
  <2> HIDE DEF b
  <2>7. Owned(c)'
    BY <1>1, <2>1, <2>2, <2>3 DEF Owned
  <2>8. Labelled(c)'
    BY <1>1, <2>1, <2>2, <2>3 DEF Labelled
  <2>9. Held(c)' = Held(c)
    BY <2>1, <2>3 DEF Held, b
  <2>10. /\ Pending(c)' = Stored(c)' \o (<<>> \o <<>>)
         /\ Pending(c) = Stored(c) \o (<<imgbuf[b]>> \o <<>>)
    BY <2>1 DEF Pending, Filling, Decoded, b
  <2>11. Pending(c)' = Pending(c)
    <3>1. Stored(c)' \in Seq(PicturesOf(c))
      BY <2>4, <2>6, <1>2
    <3> QED
      BY <3>1, <2>6, <2>10
  <2> QED
    BY <2>1, <2>7, <2>8, <2>9, <2>11 DEF Grows, BuffersKept
<1> QED
  BY <1>3, <1>4, <1>5, <1>6 DEF DecoderStep

(* A step of any decoding thread.                                          *)
LEMMA DecoderKeeps ==
  ASSUME DecodingInv, NEW d \in Channels, DecoderStep(d)
  PROVE  /\ DecodingInv'
         /\ \A c \in Channels : Held(c)' = Held(c) /\ Grows(c) /\ BuffersKept(c)
<1>1. ASSUME NEW c \in Channels, c # d
      PROVE  /\ Owned(c)' /\ Labelled(c)'
             /\ Held(c)' = Held(c)
             /\ Grows(c) /\ BuffersKept(c)
  <2>1. DecodingTypeOK /\ Owned(d)
    BY DEF DecodingInv
  <2>2. /\ inPipe'[c] = inPipe[c] /\ outPipe'[c] = outPipe[c]
        /\ decoder'[c] = decoder[c] /\ decframe'[c] = decframe[c]
        /\ nFrameProcessed'[c] = nFrameProcessed[c]
    BY <1>1, <2>1 DEF DecoderStep, DecoderExit, Decode, VppFails, Fill, StoreFrame,
         Announce, DecoderAt, pipeVars, DecodingTypeOK
  <2>3. ASSUME NEW b \in Own(c) PROVE imgbuf'[b] = imgbuf[b]
    <3>1. CASE Fill(d)
      <4>1. Head(inPipe[d]) \in Own(d)
        BY <2>1, <3>1 DEF Fill, Owned
      <4>2. b # Head(inPipe[d])
        BY <4>1, <1>1, OwnDisjoint
      <4> QED
        BY <3>1, <4>2, <2>1, OwnBuffers DEF Fill, DecodingTypeOK
    <3>2. CASE ~Fill(d)
      BY <3>2 DEF DecoderStep, DecoderExit, Decode, VppFails, StoreFrame, Announce, pipeVars
    <3> QED
      BY <3>1, <3>2
  <2> QED
    BY <2>2, <2>3, PipeUntouched DEF Grows, BuffersKept
<1>2. /\ Owned(d)' /\ Labelled(d)'
      /\ Held(d)' = Held(d)
      /\ Grows(d) /\ BuffersKept(d)
  BY DecoderOwnStep
<1>3. DecodingTypeOK'
  BY DecoderTypes
<1> QED
  BY <1>1, <1>2, <1>3 DEF DecodingInv

-----------------------------------------------------------------------------
(* What the consumers of a pipe do to it.                                  *)

(* All that goes on elsewhere.                                             *)
LEMMA PipesUntouched ==
  ASSUME DecodingInv, UNCHANGED <<pipeVars, decVars>>,
         grunning' \in BOOLEAN,
         mainPc' \in {"creating", "pause", "posting", "joining", "terminated"},
         early' \in 0..StartupWindow,
         gNewtaskAvaiable' \in 0..SEM_VALUE_MAX
  PROVE  /\ DecodingInv'
         /\ \A c \in Channels : Held(c)' = Held(c) /\ Pending(c)' = Pending(c)
<1>1. DecodingTypeOK'
  BY DEF DecodingInv, DecodingTypeOK, pipeVars, decVars
<1>2. ASSUME NEW c \in Channels
      PROVE  Owned(c)' /\ Labelled(c)' /\ Held(c)' = Held(c) /\ Pending(c)' = Pending(c)
  BY PipeUntouched DEF pipeVars, decVars
<1> QED
  BY <1>1, <1>2 DEF DecodingInv

(* Load and LoadNoWait.                                                    *)
LEMMA TakeFront ==
  ASSUME DecodingInv, NEW c \in Channels, outPipe[c] # <<>>,
         outPipe' = [outPipe EXCEPT ![c] = Tail(outPipe[c])],
         UNCHANGED <<mainVars, inPipe, imgbuf, decVars>>
  PROVE  /\ DecodingInv'
         /\ Head(outPipe[c]) \in Own(c) \cap ToSet(outPipe[c])
         /\ imgbuf[Head(outPipe[c])] \in PicturesOf(c)
         /\ Held(c)' = Held(c) \ {Head(outPipe[c])}
         /\ Pending(c) = Join(<<imgbuf[Head(outPipe[c])]>>, Pending(c)')
         /\ \A d \in Channels \ {c} :
              Held(d)' = Held(d) /\ Pending(d)' = Pending(d)
<1> DEFINE b == Head(outPipe[c])
<1>1. DecodingTypeOK /\ Owned(c) /\ Labelled(c)
  BY DEF DecodingInv
<1>2. /\ outPipe'[c] = Tail(outPipe[c]) /\ outPipe[c] # <<>>
      /\ outPipe[c] \in Seq(Own(c)) /\ outPipe[c] \in Seq(Buffers)
      /\ UNCHANGED <<grunning, mainPc, early, gNewtaskAvaiable, inPipe, imgbuf,
                     nFrameProcessed, decoder, decframe>>
  BY <1>1 DEF Owned, DecodingTypeOK, mainVars, decVars
<1>3. /\ b \in Own(c) /\ b \in ToSet(outPipe[c])
      /\ outPipe'[c] \in Seq(Own(c)) /\ IsInjective(outPipe'[c])
      /\ ToSet(outPipe'[c]) = ToSet(outPipe[c]) \ {b}
  BY <1>1, <1>2, PopFront DEF Owned
<1>4. outPipe'[c] \in Seq(Buffers)
  BY <1>2, PopFront
<1>5. DecodingTypeOK'
  BY <1>1, <1>2, <1>4 DEF DecodingTypeOK
<1>6. /\ imgbuf[b] \in PicturesOf(c)
      /\ \A x \in ToSet(outPipe[c]) : imgbuf[x] \in PicturesOf(c)
  <2>1. ASSUME NEW x \in Own(c), imgbuf[x] # Unfilled
        PROVE  imgbuf[x] \in PicturesOf(c)
    <3>1. imgbuf[x] \in Frames /\ imgbuf[x].channel = c
      BY <2>1, <1>1, OwnBuffers, NotUnfilled DEF Labelled, DecodingTypeOK
    <3> QED
      BY <3>1 DEF Frames, PicturesOf
  <2>2. ToSet(outPipe[c]) \subseteq Own(c)
    BY <1>1 DEF Owned, ToSet
  <2> QED
    BY <2>1, <2>2, <1>1, <1>3 DEF Labelled
<1>7. Contents(imgbuf, outPipe[c]) = Join(<<imgbuf[b]>>, Contents(imgbuf, Tail(outPipe[c])))
      /\ Contents(imgbuf, Tail(outPipe[c])) \in Seq(PicturesOf(c))
  BY <1>2, <1>6, ContentsTail
<1> HIDE DEF b
<1>8. Stored(c) = Join(<<imgbuf[b]>>, Stored(c)') /\ Stored(c)' \in Seq(PicturesOf(c))
  BY <1>2, <1>7 DEF Stored, Contents
<1>9. Filling(c)' = Filling(c) /\ Decoded(c)' = Decoded(c)
  BY <1>2 DEF Filling, Decoded
<1>10. Pending(c) = Join(<<imgbuf[b]>>, Pending(c)')
  <2> DEFINE rest == Join(Filling(c), Decoded(c))
  <2>1. rest \in Seq(PicturesOf(c)) /\ <<imgbuf[b]>> \in Seq(PicturesOf(c))
    <3>1. Filling(c) \in Seq(PicturesOf(c)) /\ Decoded(c) \in Seq(PicturesOf(c))
      BY PendingType
    <3>2. rest \in Seq(PicturesOf(c))
      BY <3>1, JoinType
    <3> QED
      BY <3>2, <1>6
  <2>2. Pending(c) = Join(Stored(c), rest) /\ Pending(c)' = Join(Stored(c)', rest)
    BY <1>9 DEF Pending, Join
  <2> DEFINE one == <<imgbuf[b]>>
             left == Stored(c)'
  <2>3. /\ one \in Seq(PicturesOf(c)) /\ left \in Seq(PicturesOf(c))
        /\ Stored(c) = Join(one, left) /\ Pending(c)' = Join(left, rest)
    BY <1>8, <2>1, <2>2
  <2> HIDE DEF rest, one, left
  <2>4. Join(Join(one, left), rest) = Join(one, Join(left, rest))
    BY <2>1, <2>3, JoinAssociative
  <2> QED
    BY <2>2, <2>3, <2>4 DEF one
<1>11. Owned(c)'
  BY <1>1, <1>2, <1>3 DEF Owned
<1>12. Labelled(c)'
  BY <1>1, <1>2, <1>3 DEF Labelled
<1>13. Held(c)' = Held(c) \ {b}
  BY <1>1, <1>2, <1>3 DEF Held, Owned
<1>14. ASSUME NEW d \in Channels \ {c}
       PROVE  Owned(d)' /\ Labelled(d)' /\ Held(d)' = Held(d) /\ Pending(d)' = Pending(d)
  <2>1. outPipe'[d] = outPipe[d]
    BY <1>1 DEF DecodingTypeOK
  <2> QED
    BY <2>1, <1>2, PipeUntouched
<1> QED
  BY <1>3, <1>5, <1>6, <1>10, <1>11, <1>12, <1>13, <1>14 DEF DecodingInv, b

(* Put.                                                                    *)
LEMMA GiveBackBuffer ==
  ASSUME DecodingInv, NEW c \in Channels, NEW b \in Own(c), b \notin Held(c),
         inPipe' = [inPipe EXCEPT ![c] = Cons(b, inPipe[c])],
         UNCHANGED <<mainVars, outPipe, imgbuf, decVars>>
  PROVE  /\ DecodingInv'
         /\ Held(c)' = Held(c) \cup {b}
         /\ \A d \in Channels \ {c} : Held(d)' = Held(d)
         /\ \A d \in Channels : Pending(d)' = Pending(d)
<1>1. DecodingTypeOK /\ Owned(c) /\ Labelled(c)
  BY DEF DecodingInv
<1>2. /\ inPipe'[c] = Cons(b, inPipe[c])
      /\ inPipe[c] \in Seq(Own(c)) /\ inPipe[c] \in Seq(Buffers)
      /\ b \in Buffers /\ b \notin ToSet(inPipe[c])
      /\ b \notin ToSet(outPipe[c]) /\ (decoder[c] = "store" => decframe[c] # b)
      /\ UNCHANGED <<grunning, mainPc, early, gNewtaskAvaiable, outPipe, imgbuf,
                     nFrameProcessed, decoder, decframe>>
  BY <1>1, OwnBuffers DEF Owned, Held, DecodingTypeOK, mainVars, decVars
<1>3. /\ inPipe'[c] \in Seq(Own(c)) /\ IsInjective(inPipe'[c])
      /\ ToSet(inPipe'[c]) = ToSet(inPipe[c]) \cup {b}
  BY <1>1, <1>2, PushFront DEF Owned
<1>4. inPipe'[c] \in Seq(Buffers)
  BY <1>2, PushFront
<1>5. DecodingTypeOK'
  BY <1>1, <1>2, <1>4 DEF DecodingTypeOK
<1>6. Owned(c)'
  BY <1>1, <1>2, <1>3 DEF Owned
<1>7. Labelled(c)'
  BY <1>1, <1>2 DEF Labelled
<1>8. Held(c)' = Held(c) \cup {b}
  BY <1>2, <1>3 DEF Held
<1>9. Pending(c)' = Pending(c)
  BY <1>2 DEF Pending, Stored, Filling, Decoded
<1>10. ASSUME NEW d \in Channels \ {c}
       PROVE  Owned(d)' /\ Labelled(d)' /\ Held(d)' = Held(d) /\ Pending(d)' = Pending(d)
  <2>1. inPipe'[d] = inPipe[d]
    BY <1>1 DEF DecodingTypeOK
  <2> QED
    BY <2>1, <1>2, PipeUntouched
<1> QED
  BY <1>5, <1>6, <1>7, <1>8, <1>9, <1>10 DEF DecodingInv


(* Seen from one pipe, a decoding thread takes an idle buffer when it has  *)
(* none, or stores the one it has, or does nothing.                        *)
LEMMA DecoderMoves ==
  ASSUME DecodingInv, NEW d \in Channels, DecoderStep(d), NEW c \in Channels
  PROVE  \/ /\ inPipe'[c] = inPipe[c] /\ outPipe'[c] = outPipe[c]
            /\ decframe'[c] = decframe[c]
         \/ \E b \in ToSet(inPipe[c]) :
              /\ decframe[c] = NoBuffer /\ decframe'[c] = b
              /\ ToSet(inPipe'[c]) = ToSet(inPipe[c]) \ {b}
              /\ outPipe'[c] = outPipe[c]
         \/ /\ decframe[c] # NoBuffer /\ decframe'[c] = NoBuffer
            /\ outPipe'[c] = Append(outPipe[c], decframe[c])
            /\ inPipe'[c] = inPipe[c]
<1>1. /\ Owned(c) /\ DecodingTypeOK
  BY DEF DecodingInv
<1>2. CASE DecoderExit(d) \/ Decode(d) \/ VppFails(d) \/ Announce(d)
  BY <1>2 DEF DecoderExit, Decode, VppFails, Announce, pipeVars
<1>3. CASE Fill(d)
  <2>1. CASE c # d
    BY <1>1, <1>3, <2>1 DEF Fill, DecodingTypeOK
  <2>2. CASE c = d
    <3> DEFINE b == Head(inPipe[c])
    <3>1. /\ b \in ToSet(inPipe[c])
          /\ ToSet(Tail(inPipe[c])) = ToSet(inPipe[c]) \ {b}
      BY <1>1, <1>3, <2>2, PopFront DEF Fill, Owned
    <3>2. /\ decframe[c] = NoBuffer /\ decframe'[c] = b
          /\ inPipe'[c] = Tail(inPipe[c]) /\ outPipe'[c] = outPipe[c]
      BY <1>1, <1>3, <2>2 DEF Fill, DecoderAt, Owned, DecodingTypeOK
    <3> QED
      BY <3>1, <3>2
  <2> QED
    BY <2>1, <2>2
<1>4. CASE StoreFrame(d)
  <2>1. CASE c # d
    BY <1>1, <1>4, <2>1 DEF StoreFrame, DecodingTypeOK
  <2>2. CASE c = d
    <3>1. decframe[c] \in Own(c) /\ NoBuffer \notin Own(c)
      <4>1. NoBuffer \notin Buffers
        BY DEF NoBuffer, Buffers
      <4> QED
        BY <1>1, <1>4, <2>2, <4>1, OwnBuffers DEF StoreFrame, DecoderAt, Owned
    <3> QED
      BY <1>1, <1>4, <2>2, <3>1 DEF StoreFrame, DecodingTypeOK
  <2> QED
    BY <2>1, <2>2
<1> QED
  BY <1>2, <1>3, <1>4 DEF DecoderStep

=============================================================================

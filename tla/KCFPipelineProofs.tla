------------------------- MODULE KCFPipelineProofs -------------------------
(***************************************************************************)
(* The safety properties of the KCF build (KCFPipeline), for any number of *)
(* channels, surfaces and buffers, any batch and any distance of key       *)
(* frames: the surfaces a tracker refers to keep the frames it has to see, *)
(* and, with one channel, each key frame meets the boxes found in it.      *)
(***************************************************************************)
EXTENDS KCFPipeline, SequenceTheorems, WellFoundedInduction, TLAPS

-----------------------------------------------------------------------------
(* Concatenation of lists of frames.                                       *)

(* Concatenation, with a definition that is expanded only where it has to  *)
(* be: elsewhere the provers are to take a line of lines as it stands.     *)
Join(s, t) == s \o t

LEMMA JoinType ==
  ASSUME NEW S, NEW s \in Seq(S), NEW t \in Seq(S)
  PROVE  Join(s, t) \in Seq(S) /\ Len(Join(s, t)) = Len(s) + Len(t)
BY DEF Join

LEMMA JoinAssociative ==
  ASSUME NEW S, NEW s \in Seq(S), NEW t \in Seq(S), NEW u \in Seq(S)
  PROVE  Join(Join(s, t), u) = Join(s, Join(t, u))
BY ConcatAssociative, SMTT(40) DEF Join

LEMMA JoinEmpty ==
  ASSUME NEW S, NEW s \in Seq(S)
  PROVE  Join(s, <<>>) = s /\ Join(<<>>, s) = s
BY ConcatEmptySeq DEF Join

LEMMA SingletonList == ASSUME NEW S, NEW e \in S PROVE <<e>> \in Seq(S)
OBVIOUS

(* The first element, and one more at the end.                             *)
LEMMA JoinFirst ==
  ASSUME NEW S, NEW e \in S, NEW s \in Seq(S)
  PROVE  /\ Join(<<e>>, s) \in Seq(S) /\ Join(<<e>>, s) # <<>>
         /\ Head(Join(<<e>>, s)) = e /\ Tail(Join(<<e>>, s)) = s
         /\ 1 \in DOMAIN Join(<<e>>, s) /\ Join(<<e>>, s)[1] = e
<1>0. PICK one : one = <<e>>
  OBVIOUS
<1>1. one = <<e>> /\ one \in Seq(S) /\ Len(one) = 1 /\ one[1] = e
  BY <1>0
<1> DEFINE t == Join(one, s)
<1>a. one \in Seq(S) /\ s \in Seq(S)
  BY <1>1
<1>b. /\ t \in Seq(S) /\ Len(s) \in Nat
      /\ Len(t) = Len(one) + Len(s) /\ DOMAIN t = 1..(Len(one) + Len(s))
      /\ \A i \in 1..Len(one) : t[i] = one[i]
      /\ \A i \in 1..Len(s) : t[Len(one) + i] = s[i]
  BY <1>a DEF Join
<1> HIDE DEF t
<1>2. /\ t \in Seq(S) /\ Len(s) \in Nat
      /\ Len(t) = 1 + Len(s) /\ DOMAIN t = 1..(1 + Len(s))
      /\ \A i \in 1..1 : t[i] = one[i]
      /\ \A i \in 1..Len(s) : t[1 + i] = s[i]
  BY <1>1, <1>b
<1>3. t[1] = e /\ 1 \in DOMAIN t
  BY <1>1, <1>2
<1>4. t # <<>>
  BY <1>2
<1>5. Head(t) = e
  BY <1>2, <1>3, <1>4
<1>6. Tail(t) = s
  <2> DEFINE u == Tail(t)
  <2>1. u \in Seq(S) /\ Len(u) = Len(s) /\ \A i \in 1..Len(u) : u[i] = t[i + 1]
    BY <1>2, <1>4, HeadTailProperties
  <2>2. \A i \in 1..Len(u) : u[i] = s[i]
    <3> HIDE DEF u
    <3>1. ASSUME NEW i \in 1..Len(u) PROVE u[i] = s[i]
      <4>1. i \in 1..Len(s) /\ i + 1 = 1 + i
        BY <1>2, <2>1
      <4> QED
        BY <1>2, <2>1, <4>1
    <3> QED
      BY <3>1
  <2> HIDE DEF u
  <2>3. u = s
    BY <2>1, <2>2, SeqEqual
  <2> QED
    BY <2>3 DEF u
<1> QED
  BY <1>1, <1>2, <1>3, <1>4, <1>5, <1>6 DEF t

LEMMA HeadJoinTail ==
  ASSUME NEW S, NEW s \in Seq(S), s # <<>>
  PROVE  /\ Head(s) \in S /\ Tail(s) \in Seq(S)
         /\ Join(<<Head(s)>>, Tail(s)) = s
<1> DEFINE h == Head(s)
           t == Tail(s)
           u == Join(<<h>>, t)
<1>1. h \in S /\ t \in Seq(S)
  BY HeadTailProperties
<1>2. u \in Seq(S) /\ u # <<>> /\ Head(u) = h /\ Tail(u) = t
  <2> HIDE DEF h, t
  <2> QED
    BY <1>1, JoinFirst
<1> HIDE DEF u
<1>3. u = s
  <2>1. Len(u) = 1 + Len(t) /\ u[1] = h /\ \A i \in 1..Len(t) : u[1 + i] = t[i]
    <3> HIDE DEF h, t
    <3>0. PICK one : one = <<h>>
      OBVIOUS
    <3>1. one = <<h>> /\ one \in Seq(S) /\ Len(one) = 1 /\ one[1] = h
      BY <1>1, <3>0
    <3>2. u = Join(one, t)
      BY <3>1 DEF u
    <3>a. one \in Seq(S) /\ t \in Seq(S)
      BY <1>1, <3>1
    <3>3. /\ Len(u) = Len(one) + Len(t) /\ Len(t) \in Nat
          /\ \A i \in 1..Len(one) : u[i] = one[i]
          /\ \A i \in 1..Len(t) : u[Len(one) + i] = t[i]
      BY <3>a, <3>2 DEF Join
    <3> QED
      BY <3>1, <3>3
  <2>2. /\ Len(t) = Len(s) - 1 /\ Len(s) \in Nat \ {0} /\ h = s[1]
        /\ \A i \in 1..Len(t) : t[i] = s[i + 1]
    BY HeadTailProperties, LenProperties, EmptySeq
  <2> HIDE DEF h, t
  <2>3. ASSUME NEW i \in 1..Len(u) PROVE u[i] = s[i]
    <3>1. CASE i = 1
      BY <2>1, <2>2, <3>1
    <3>2. CASE i # 1
      <4>1. PICK j \in 1..Len(t) : i = 1 + j /\ i = j + 1
        BY <2>1, <2>2, <3>2
      <4> QED
        BY <2>1, <2>2, <4>1
    <3> QED
      BY <3>1, <3>2
  <2>4. Len(u) = Len(s)
    BY <2>1, <2>2
  <2> QED
    BY <1>2, <2>3, <2>4, SeqEqual
<1> QED
  BY <1>1, <1>3 DEF u

LEMMA JoinOne ==
  ASSUME NEW S, NEW e \in S, NEW s \in Seq(S)
  PROVE  Join(s, <<e>>) = Append(s, e)
BY AppendIsConcat DEF Join

-----------------------------------------------------------------------------
(* Counting modulo.                                                        *)

LEMMA ModUnique ==
  ASSUME NEW F \in Nat \ {0}, NEW q \in Int, NEW r \in 0..(F - 1)
  PROVE  (F * q + r) % F = r
<1> DEFINE y == F * q + r
           d == y \div F
           m == y % F
<1>1. y \in Int /\ d \in Int /\ m \in 0..(F - 1) /\ y = F * d + m
  OBVIOUS
<1> HIDE DEF d, m
<1>2. F * (q - d) = m - r
  BY <1>1
<1>3. q - d \in Int
  BY <1>1
<1>4. CASE q - d >= 1
  <2>1. F * (q - d) >= F
    BY <1>3, <1>4
  <2> QED
    BY <1>1, <1>2, <2>1
<1>5. CASE q - d <= -1
  <2>1. F * (q - d) <= -F
    BY <1>3, <1>5
  <2> QED
    BY <1>1, <1>2, <2>1
<1>6. CASE q - d = 0
  BY <1>1, <1>2, <1>6 DEF m
<1> QED
  BY <1>3, <1>4, <1>5, <1>6

LEMMA ModNext ==
  ASSUME NEW F \in Nat \ {0}, NEW n \in Int
  PROVE  (n + 1) % F = ((n % F) + 1) % F
<1> DEFINE d == n \div F
           r == n % F
<1>1. d \in Int /\ r \in 0..(F - 1) /\ n = F * d + r
  OBVIOUS
<1> HIDE DEF d, r
<1>2. CASE r + 1 < F
  <2>0. PICK k \in 0..(F - 1) : k = r + 1
    BY <1>1, <1>2
  <2>1. n + 1 = F * d + k /\ k = F * 0 + k
    BY <1>1, <2>0
  <2>2. (F * d + k) % F = k
    BY <1>1, ModUnique
  <2>3. (F * 0 + k) % F = k
    BY ModUnique
  <2>4. (n + 1) % F = r + 1 /\ (r + 1) % F = r + 1
    BY <2>0, <2>1, <2>2, <2>3
  <2> QED
    BY <2>4 DEF r
<1>3. CASE r + 1 = F
  <2>0. PICK e \in Int, z \in 0..(F - 1) : e = d + 1 /\ z = 0
    BY <1>1
  <2>1. n + 1 = F * e + z /\ r + 1 = F * 1 + z
    BY <1>1, <1>3, <2>0
  <2>2. (F * e + z) % F = z
    BY ModUnique
  <2>3. (F * 1 + z) % F = z
    BY ModUnique
  <2>4. (n + 1) % F = 0 /\ (r + 1) % F = 0
    BY <2>0, <2>1, <2>2, <2>3
  <2> QED
    BY <2>4 DEF r
<1> QED
  BY <1>1, <1>2, <1>3

(* The number of the frame before, and of the one after that.              *)
LEMMA ModBack ==
  ASSUME NEW F \in Nat \ {0}, NEW n \in 0..(F - 1)
  PROVE  /\ n % F = n
         /\ (n + F - 1) % F \in 0..(F - 1)
         /\ (((n + F - 1) % F) + 1) % F = n
         /\ (((n + 1) % F) + F - 1) % F = n
<1>1. n % F = n /\ (n + F) % F = n
  <2>1. n = F * 0 + n /\ n + F = F * 1 + n
    OBVIOUS
  <2>2. (F * 0 + n) % F = n /\ (F * 1 + n) % F = n
    BY ModUnique
  <2> QED
    BY <2>1, <2>2
<1>2. (n + F - 1) % F \in 0..(F - 1) /\ n + F - 1 \in Int /\ (n + F - 1) + 1 = n + F
  OBVIOUS
<1>3. (((n + F - 1) % F) + 1) % F = n
  <2>1. ((n + F - 1) + 1) % F = (((n + F - 1) % F) + 1) % F
    BY <1>2, ModNext
  <2> QED
    BY <1>1, <1>2, <2>1
<1>4. (((n + 1) % F) + F - 1) % F = n
  <2>1. CASE n + 1 < F
    <3>1. n + 1 = F * 0 + (n + 1) /\ n + 1 \in 0..(F - 1)
      BY <2>1
    <3>2. (F * 0 + (n + 1)) % F = n + 1
      BY <3>1, ModUnique
    <3>3. (n + 1) % F = n + 1 /\ (n + 1) + F - 1 = n + F
      BY <3>1, <3>2
    <3> QED
      BY <1>1, <3>3
  <2>2. CASE n + 1 = F
    <3>1. n + 1 = F * 1 + 0 /\ 0 \in 0..(F - 1)
      BY <2>2
    <3>2. (F * 1 + 0) % F = 0
      BY <3>1, ModUnique
    <3>3. (n + 1) % F = 0 /\ 0 + F - 1 = n
      BY <2>2, <3>1, <3>2
    <3> QED
      BY <1>1, <3>3
  <2> QED
    BY <2>1, <2>2
<1> QED
  BY <1>1, <1>2, <1>3, <1>4

(* GetFreeSurfaceIndex returns one of the free surfaces.                   *)
LEMMA MinOf ==
  ASSUME NEW S \in SUBSET Nat, S # {}
  PROVE  Min(S) \in S
<1> DEFINE R == {ss \in Nat \X Nat : ss[1] < ss[2]}
<1>1. IsWellFoundedOn(R, Nat)
  BY NatLessThanWellFounded DEF OpToRel
<1> HIDE DEF R
<1>2. \E x \in S : \A y \in S : ~ (<<y, x>> \in R)
  BY <1>1, WFMin
<1>3. \E x \in S : \A y \in S : x =< y
  <2>1. PICK x \in S : \A y \in S : <<y, x>> \notin R
    BY <1>2
  <2>2. ASSUME NEW y \in S PROVE x =< y
    <3>1. <<y, x>> \in Nat \X Nat /\ <<y, x>>[1] = y /\ <<y, x>>[2] = x /\ y \in Nat /\ x \in Nat
      OBVIOUS
    <3>2. ~(y < x)
      BY <2>1, <3>1 DEF R
    <3> QED
      BY <3>1, <3>2
  <2> QED
    BY <2>2
<1> QED
  BY <1>3 DEF Min

-----------------------------------------------------------------------------
(* The inductive invariant.                                                *)

(* What is known of a list of tracks of channel c that ends with the frame *)
(* number last: the surfaces differ, are locked, and hold the pictures     *)
(* that have to be seen.                                                   *)
Distinct(tracks) ==
  \A i, j \in DOMAIN tracks :
    tracks[i].pmfxSurface = tracks[j].pmfxSurface => i = j

AllLocked(tracks, locked) ==
  \A i \in DOMAIN tracks : locked[tracks[i].pmfxSurface] = 1

Numbered(c, tracks, seen, last) ==
  \A i \in DOMAIN tracks :
    LET picture == seen[tracks[i].pmfxSurface] IN
      /\ picture.channel = c
      /\ (picture.frameno + Len(tracks) - i) % FrameCycle = last
      /\ tracks[i].bROIRrefresh = IsKey(picture.frameno)

Intact(c, tracks, locked, seen, last) ==
  /\ tracks \in Seq(Tracks)
  /\ Distinct(tracks) /\ AllLocked(tracks, locked)
  /\ Numbered(c, tracks, seen, last)

Tracked(c) == Intact(c, ToTrack(c), Locked[c], surface[c], LastNo(c))

(* A decoder that has a frame finds it in its surface, which is free until *)
(* it is locked; a tracker that waits for a result has a key frame.        *)
Carrying(c) ==
  /\ decoder[c] # "decode" =>
       /\ nIndexVPP_In[c] \in Surfaces
       /\ surface[c][nIndexVPP_In[c]] = [channel |-> c, frameno |-> nFrame[c]]
  /\ decoder[c] = "kcfget" => Locked[c][nIndexVPP_In[c]] = 0
  /\ decoder[c] \in {"get", "store", "post"} => IsKey(nFrame[c])
  /\ tracker[c] \in {"await", "init", "update", "unlock", "put"} => srcframe[c] \in Tracks
  /\ tracker[c] \in {"await", "init"} => srcframe[c].bROIRrefresh
  /\ tracker[c] = "update" => ~ srcframe[c].bROIRrefresh

\* Every buffer of both pipes is idle, stored, or in one thread's hands.
One(held) == IF held THEN 1 ELSE 0

Counted(c) ==
  /\ kcfIdle[c] + Len(kcfOut[c]) + One(decoder[c] = "kcfstore")
       + One(tracker[c] \in {"await", "init", "update", "unlock", "put"})
       = NumKCFBuffers
  /\ idle[c] + Len(out[c]) + One(decoder[c] = "store")
       + One(scheduler = "put" /\ channel = c) = NumBuffers

\* The scheduler has a picture or results exactly when it works on them.
Detecting ==
  /\ scheduler \in {"put", "insert"} => frame \in Pictures
  /\ scheduler \in {"result", "postresult"} <=> objects # <<>>
  /\ scheduler \in {"result", "postresult"} => imginfoque_ = <<>>

KCFInv ==
  /\ TypeOK /\ Detecting
  /\ \A c \in Channels : Carrying(c) /\ Counted(c) /\ Tracked(c)

(* A result is stored before it is announced.                              *)
Announced ==
  \A c \in Channels :
    gDetectResultAvaiable[c] + One(tracker[c] = "init")
        + One(scheduler = "postresult" /\ c = ResultChannel)
      <= Len(gDetectResultque[c])

-----------------------------------------------------------------------------
(* Lists of tracks.                                                        *)

LEMMA TrackAt ==
  ASSUME NEW t \in Seq(Tracks)
  PROVE  /\ Len(t) \in Nat /\ DOMAIN t = 1..Len(t)
         /\ \A i \in 1..Len(t) : t[i] \in Tracks /\ t[i].pmfxSurface \in Surfaces
<1>1. Len(t) \in Nat /\ DOMAIN t = 1..Len(t)
  BY LenProperties
<1>2. \A i \in 1..Len(t) : t[i] \in Tracks
  BY <1>1, ElementOfSeq
<1>3. \A e \in Tracks : e.pmfxSurface \in Surfaces
  BY DEF Tracks
<1> QED
  BY <1>1, <1>2, <1>3

(* The decoder writes to a surface that is not locked.                     *)
LEMMA DecodeIntact ==
  ASSUME NEW c, NEW t, NEW locked, NEW seen, NEW other, NEW last, NEW s,
         Intact(c, t, locked, seen, last), locked[s] = 0,
         \A r \in Surfaces \ {s} : other[r] = seen[r]
  PROVE  Intact(c, t, locked, other, last)
<1>1. ASSUME NEW i \in DOMAIN t
      PROVE  other[t[i].pmfxSurface] = seen[t[i].pmfxSurface]
  <2>1. t[i].pmfxSurface \in Surfaces
    BY TrackAt DEF Intact
  <2>2. locked[t[i].pmfxSurface] = 1
    BY DEF Intact, AllLocked
  <2> QED
    BY <2>1, <2>2
<1> QED
  BY <1>1 DEF Intact, Numbered

(* The decoder locks the surface of the next frame.                        *)
LEMMA LockIntact ==
  ASSUME NEW c, NEW t, NEW locked \in [Surfaces -> {0, 1}],
         NEW seen \in [Surfaces -> Pictures \cup {NoPicture}], NEW last,
         NEW s \in Surfaces, NEW n \in FrameNos,
         Intact(c, t, locked, seen, last), locked[s] = 0,
         seen[s] = [channel |-> c, frameno |-> n], (last + 1) % FrameCycle = n
  PROVE  Intact(c, Append(t, [bROIRrefresh |-> IsKey(n), pmfxSurface |-> s]),
                [locked EXCEPT ![s] = 1], seen, n)
<1> DEFINE e == [bROIRrefresh |-> IsKey(n), pmfxSurface |-> s]
           u == Append(t, e)
           m == Len(t)
<1>1. e \in Tracks /\ e.pmfxSurface = s /\ e.bROIRrefresh = IsKey(n)
  BY DEF Tracks, IsKey
<1>2. t \in Seq(Tracks) /\ m \in Nat /\ DOMAIN t = 1..m
  BY LenProperties DEF Intact
<1>3. /\ u \in Seq(Tracks) /\ Len(u) = m + 1 /\ DOMAIN u = 1..(m + 1)
      /\ u[m + 1] = e /\ \A i \in 1..m : u[i] = t[i]
  BY <1>1, <1>2, AppendProperties, LenProperties
<1> HIDE DEF e, u, m
<1>a. \A i \in 1..m : t[i] \in Tracks /\ t[i].pmfxSurface \in Surfaces
  BY <1>2, TrackAt DEF m
<1>4. \A i \in 1..m : /\ t[i] \in Tracks /\ t[i].pmfxSurface \in Surfaces
                      /\ t[i].pmfxSurface # s /\ locked[t[i].pmfxSurface] = 1
  BY <1>2, <1>a DEF Intact, AllLocked
<1>5. Distinct(u)
  <2>1. ASSUME NEW i \in 1..(m + 1), NEW j \in 1..(m + 1),
               u[i].pmfxSurface = u[j].pmfxSurface
        PROVE  i = j
    <3>1. CASE i \in 1..m /\ j \in 1..m
      BY <1>2, <1>3, <2>1, <3>1 DEF Intact, Distinct
    <3>2. CASE i = m + 1 \/ j = m + 1
      BY <1>1, <1>2, <1>3, <1>4, <2>1, <3>2
    <3> QED
      BY <1>2, <3>1, <3>2
  <2> QED
    BY <1>3, <2>1 DEF Distinct
<1>6. AllLocked(u, [locked EXCEPT ![s] = 1])
  <2>1. ASSUME NEW i \in 1..(m + 1)
        PROVE  [locked EXCEPT ![s] = 1][u[i].pmfxSurface] = 1
    <3>1. CASE i = m + 1
      BY <1>1, <1>3, <3>1
    <3>2. CASE i \in 1..m
      BY <1>3, <1>4, <3>2
    <3> QED
      BY <1>2, <3>1, <3>2
  <2> QED
    BY <1>3, <2>1 DEF AllLocked
<1>7. Numbered(c, u, seen, n)
  <2>1. ASSUME NEW i \in 1..(m + 1)
        PROVE  LET picture == seen[u[i].pmfxSurface] IN
                 /\ picture.channel = c
                 /\ (picture.frameno + (m + 1) - i) % FrameCycle = n
                 /\ u[i].bROIRrefresh = IsKey(picture.frameno)
    <3>1. CASE i = m + 1
      <4>1. n % FrameCycle = n
        BY ModBack, KCFAssumption DEF FrameNos
      <4>2. /\ seen[u[i].pmfxSurface] = [channel |-> c, frameno |-> n]
            /\ n \in Int /\ n + (m + 1) - i = n
        BY <1>1, <1>2, <1>3, <3>1 DEF FrameNos
      <4> QED
        BY <1>1, <1>3, <3>1, <4>1, <4>2
    <3>2. CASE i \in 1..m
      <4>1. PICK p \in Pictures \cup {NoPicture} : p = seen[t[i].pmfxSurface]
        BY <1>4, <3>2
      <4>2. /\ p.channel = c /\ (p.frameno + m - i) % FrameCycle = last
            /\ t[i].bROIRrefresh = IsKey(p.frameno)
        BY <1>2, <3>2, <4>1 DEF Intact, Numbered, m
      <4>3. p.frameno \in Int
        BY DEF Pictures, NoPicture, FrameNos
      <4>4. PICK k \in Int : k = p.frameno + m - i
        BY <1>2, <4>3
      <4>5. (k + 1) % FrameCycle = n
        BY <4>2, <4>4, ModNext, KCFAssumption
      <4>6. p.frameno + (m + 1) - i = k + 1
        BY <1>2, <4>3, <4>4
      <4> QED
        BY <1>3, <3>2, <4>1, <4>2, <4>5, <4>6
    <3> QED
      BY <1>2, <3>1, <3>2
  <2> QED
    BY <1>3, <2>1 DEF Numbered
<1> QED
  BY <1>3, <1>5, <1>6, <1>7 DEF Intact, u, e

(* The tracker has seen the oldest frame and unlocks its surface.          *)
LEMMA UnlockIntact ==
  ASSUME NEW c, NEW t, NEW locked \in [Surfaces -> {0, 1}], NEW seen, NEW last,
         Intact(c, t, locked, seen, last), t # <<>>,
         seen \in [Surfaces -> Pictures \cup {NoPicture}]
  PROVE  Intact(c, Tail(t), [locked EXCEPT ![Head(t).pmfxSurface] = 0], seen, last)
<1> DEFINE u == Tail(t)
           m == Len(t)
           h == Head(t)
<1>1. t \in Seq(Tracks) /\ m \in Nat \ {0} /\ DOMAIN t = 1..m /\ h = t[1]
  BY LenProperties, EmptySeq DEF Intact
<1>2. /\ u \in Seq(Tracks) /\ Len(u) = m - 1 /\ DOMAIN u = 1..(m - 1)
      /\ \A i \in 1..(m - 1) : u[i] = t[i + 1]
  BY <1>1, HeadTailProperties, LenProperties DEF Intact
<1> HIDE DEF u, m, h
<1>3. \A i \in 1..m : t[i] \in Tracks /\ t[i].pmfxSurface \in Surfaces
  BY <1>1, TrackAt DEF m
<1>4. Distinct(u)
  <2>1. ASSUME NEW i \in 1..(m - 1), NEW j \in 1..(m - 1),
               u[i].pmfxSurface = u[j].pmfxSurface
        PROVE  i = j
    <3>1. i + 1 \in 1..m /\ j + 1 \in 1..m
      BY <1>1
    <3>3. t[i + 1].pmfxSurface = t[j + 1].pmfxSurface
      BY <1>2, <2>1
    <3>2. i + 1 = j + 1
      <4>1. PICK a \in DOMAIN t, b \in DOMAIN t : a = i + 1 /\ b = j + 1
        BY <1>1, <3>1
      <4> QED
        BY <3>3, <4>1 DEF Intact, Distinct
    <3> QED
      BY <1>1, <3>2
  <2> QED
    BY <1>2, <2>1 DEF Distinct
<1>5. AllLocked(u, [locked EXCEPT ![h.pmfxSurface] = 0])
  <2>1. ASSUME NEW i \in 1..(m - 1)
        PROVE  [locked EXCEPT ![h.pmfxSurface] = 0][u[i].pmfxSurface] = 1
    <3>1. i + 1 \in 1..m /\ 1 \in 1..m /\ i + 1 # 1
      BY <1>1
    <3>2. t[i + 1].pmfxSurface # h.pmfxSurface /\ locked[t[i + 1].pmfxSurface] = 1
      BY <1>1, <3>1 DEF Intact, Distinct, AllLocked
    <3> QED
      BY <1>2, <1>3, <3>1, <3>2
  <2> QED
    BY <1>2, <2>1 DEF AllLocked
<1>6. Numbered(c, u, seen, last)
  <2>1. ASSUME NEW i \in 1..(m - 1)
        PROVE  LET picture == seen[u[i].pmfxSurface] IN
                 /\ picture.channel = c
                 /\ (picture.frameno + (m - 1) - i) % FrameCycle = last
                 /\ u[i].bROIRrefresh = IsKey(picture.frameno)
    <3>1. i + 1 \in 1..m
      BY <1>1
    <3>2. PICK p \in Pictures \cup {NoPicture} : p = seen[t[i + 1].pmfxSurface]
      BY <1>3, <3>1
    <3>3. /\ p.channel = c /\ (p.frameno + m - (i + 1)) % FrameCycle = last
          /\ t[i + 1].bROIRrefresh = IsKey(p.frameno)
      BY <1>1, <3>1, <3>2 DEF Intact, Numbered, m
    <3>4. p.frameno \in Int /\ p.frameno + m - (i + 1) = p.frameno + (m - 1) - i
      BY <1>1 DEF Pictures, NoPicture, FrameNos
    <3> QED
      BY <1>2, <3>2, <3>3, <3>4
  <2> QED
    BY <1>2, <2>1 DEF Numbered
<1> QED
  BY <1>2, <1>4, <1>5, <1>6 DEF Intact, u, h

-----------------------------------------------------------------------------
(* Types.                                                                  *)

LEMMA PostedType ==
  \A sem \in 0..SEM_VALUE_MAX : Posted(sem) \in 0..SEM_VALUE_MAX
BY KCFAssumption DEF Posted

LEMMA OneType == \A held : One(held) \in {0, 1}
BY DEF One

LEMMA KeyType == \A n \in FrameNos : IsKey(n) \in BOOLEAN /\ (n + 1) % FrameCycle \in FrameNos
BY KCFAssumption DEF IsKey, FrameNos

LEMMA DecoderTypes ==
  ASSUME KCFInv, NEW c \in Channels, DecoderStep(c)
  PROVE  TypeOK'
<1>0. TypeOK /\ Carrying(c) /\ Counted(c)
  BY DEF KCFInv
<1>a. /\ kcfIdle[c] \in 0..NumKCFBuffers /\ idle[c] \in 0..NumBuffers
      /\ nFrame[c] \in FrameNos /\ gNewTrackTaskAvaiable[c] \in 0..SEM_VALUE_MAX
  BY <1>0 DEF TypeOK
<1>1. /\ TypeOK /\ Carrying(c) /\ Counted(c)
      /\ kcfIdle[c] \in 0..NumKCFBuffers /\ idle[c] \in 0..NumBuffers
      /\ nFrame[c] \in FrameNos /\ gNewTrackTaskAvaiable[c] \in 0..SEM_VALUE_MAX
  BY <1>0, <1>a
<1>2. UNCHANGED <<schedVars, resVars, trackVars>>
  BY DEF DecoderStep, Decode, GetTrack, StoreTrack, AnnounceTrack, GetFrame, StoreFrame,
     Announce
<1>3. decoder' \in [Channels -> {"decode", "kcfget", "kcfstore", "kcfpost", "get", "store", "post"}]
  <2>1. decoder \in [Channels -> {"decode", "kcfget", "kcfstore", "kcfpost", "get", "store", "post"}]
    BY <1>0 DEF TypeOK
  <2>2. PICK pc \in {"decode", "kcfget", "kcfstore", "kcfpost", "get", "store", "post"} :
          decoder' = [decoder EXCEPT ![c] = pc]
    BY DEF DecoderStep, Decode, GetTrack, StoreTrack, AnnounceTrack, GetFrame,
       StoreFrame, Announce, DecoderAt
  <2> QED
    BY <2>1, <2>2
<1>4. CASE Decode(c)
  <2>1. FreeSurfaces(c) \subseteq Surfaces /\ FreeSurfaces(c) \subseteq Nat /\ FreeSurfaces(c) # {}
    BY <1>4 DEF Decode, FreeSurfaces, Surfaces
  <2>2. PICK s \in Surfaces : s = Min(FreeSurfaces(c))
    BY <2>1, MinOf
  <2>3. PICK p \in Pictures : p = [channel |-> c, frameno |-> nFrame[c]]
    BY <1>1 DEF Pictures
  <2>4. /\ nIndexVPP_In' = [nIndexVPP_In EXCEPT ![c] = s]
        /\ surface' = [surface EXCEPT ![c][s] = p]
        /\ UNCHANGED <<nFrame, Locked, kcfVars, pipeVars>>
    BY <1>4, <2>2, <2>3 DEF Decode
  <2>5. /\ nIndexVPP_In' \in [Channels -> Surfaces \cup {0}]
        /\ surface' \in [Channels -> [Surfaces -> Pictures \cup {NoPicture}]]
    BY <1>1, <2>4 DEF TypeOK
  <2> QED
    BY <1>1, <1>2, <1>3, <2>4, <2>5 DEF TypeOK, kcfVars, pipeVars, schedVars, resVars, trackVars
<1>5. CASE GetTrack(c)
  <2>1. PICK s \in Surfaces : s = nIndexVPP_In[c] /\ Locked[c][s] = 0
    BY <1>1, <1>5 DEF Carrying, GetTrack, DecoderAt
  <2>2. /\ kcfIdle' = [kcfIdle EXCEPT ![c] = @ - 1] /\ kcfIdle[c] > 0
        /\ Locked' = [Locked EXCEPT ![c][s] = @ + 1]
        /\ UNCHANGED <<nFrame, nIndexVPP_In, surface, kcfOut, gNewTrackTaskAvaiable, pipeVars>>
    BY <1>5, <2>1 DEF GetTrack
  <2>3. Locked' \in [Channels -> [Surfaces -> {0, 1}]]
    <3>1. Locked \in [Channels -> [Surfaces -> {0, 1}]]
      BY <1>1 DEF TypeOK
    <3>2. /\ Locked' = [Locked EXCEPT ![c] = [Locked[c] EXCEPT ![s] = 1]]
          /\ [Locked[c] EXCEPT ![s] = 1] \in [Surfaces -> {0, 1}]
      BY <2>1, <2>2, <3>1
    <3> QED
      BY <3>1, <3>2
  <2>4. kcfIdle' \in [Channels -> 0..NumKCFBuffers]
    <3>1. kcfIdle[c] - 1 \in 0..NumKCFBuffers
      BY <1>1, <2>2, KCFAssumption
    <3> QED
      BY <1>1, <2>2, <3>1 DEF TypeOK
  <2> QED
    BY <1>1, <1>2, <1>3, <2>2, <2>3, <2>4 DEF TypeOK, pipeVars, schedVars, resVars, trackVars
<1>6. CASE StoreTrack(c)
  <2>1. PICK e \in Tracks :
          e = [bROIRrefresh |-> IsKey(nFrame[c]), pmfxSurface |-> nIndexVPP_In[c]]
    BY <1>1, <1>6, KeyType DEF Carrying, StoreTrack, DecoderAt, Tracks
  <2>2. /\ kcfOut' = [kcfOut EXCEPT ![c] = Append(kcfOut[c], e)]
        /\ UNCHANGED <<nFrame, nIndexVPP_In, Locked, surface, kcfIdle,
                       gNewTrackTaskAvaiable, pipeVars>>
    BY <1>6, <2>1 DEF StoreTrack
  <2>3. kcfOut' \in [Channels -> Seq(Tracks)]
    BY <1>1, <2>2, AppendProperties DEF TypeOK
  <2> QED
    BY <1>1, <1>2, <1>3, <2>2, <2>3 DEF TypeOK, pipeVars, schedVars, resVars, trackVars
<1>7. CASE AnnounceTrack(c)
  <2>1. /\ \/ nFrame' = nFrame
           \/ nFrame' = [nFrame EXCEPT ![c] = (nFrame[c] + 1) % FrameCycle]
        /\ gNewTrackTaskAvaiable' = [gNewTrackTaskAvaiable EXCEPT ![c] = Posted(gNewTrackTaskAvaiable[c])]
        /\ UNCHANGED <<nIndexVPP_In, Locked, surface, kcfIdle, kcfOut, pipeVars>>
    BY <1>7 DEF AnnounceTrack, NextFrame
  <2>2. /\ nFrame' \in [Channels -> FrameNos]
        /\ gNewTrackTaskAvaiable' \in [Channels -> 0..SEM_VALUE_MAX]
    <3>1. (nFrame[c] + 1) % FrameCycle \in FrameNos
      BY <1>1, KeyType
    <3>2. Posted(gNewTrackTaskAvaiable[c]) \in 0..SEM_VALUE_MAX
      BY <1>1, PostedType
    <3> QED
      <4>1. /\ nFrame \in [Channels -> FrameNos]
            /\ gNewTrackTaskAvaiable \in [Channels -> 0..SEM_VALUE_MAX]
        BY <1>0 DEF TypeOK
      <4>2. nFrame' \in [Channels -> FrameNos]
        BY <2>1, <3>1, <4>1
      <4>3. gNewTrackTaskAvaiable' \in [Channels -> 0..SEM_VALUE_MAX]
        BY <2>1, <3>2, <4>1
      <4> QED
        BY <4>2, <4>3
  <2> QED
    BY <1>1, <1>2, <1>3, <2>1, <2>2 DEF TypeOK, pipeVars, schedVars, resVars, trackVars
<1>8. CASE GetFrame(c)
  <2>1. /\ idle' = [idle EXCEPT ![c] = @ - 1] /\ idle[c] > 0
        /\ UNCHANGED <<nFrame, nIndexVPP_In, Locked, surface, kcfVars, out, gNewtaskAvaiable>>
    BY <1>8 DEF GetFrame
  <2>2. idle' \in [Channels -> 0..NumBuffers]
    <3>1. idle[c] - 1 \in 0..NumBuffers
      BY <1>1, <2>1, KCFAssumption
    <3> QED
      BY <1>1, <2>1, <3>1 DEF TypeOK
  <2> QED
    BY <1>1, <1>2, <1>3, <2>1, <2>2 DEF TypeOK, kcfVars, schedVars, resVars, trackVars
<1>9. CASE StoreFrame(c)
  <2>1. PICK p \in Pictures : p = surface[c][nIndexVPP_In[c]]
    BY <1>1, <1>9 DEF Carrying, StoreFrame, DecoderAt, Pictures
  <2>2. /\ out' = [out EXCEPT ![c] = Append(out[c], p)]
        /\ UNCHANGED <<nFrame, nIndexVPP_In, Locked, surface, kcfVars, idle, gNewtaskAvaiable>>
    BY <1>9, <2>1 DEF StoreFrame
  <2>3. out' \in [Channels -> Seq(Pictures)]
    BY <1>1, <2>2, AppendProperties DEF TypeOK
  <2> QED
    BY <1>1, <1>2, <1>3, <2>2, <2>3 DEF TypeOK, kcfVars, schedVars, resVars, trackVars
<1>10. CASE Announce(c)
  <2>1. /\ nFrame' = [nFrame EXCEPT ![c] = (nFrame[c] + 1) % FrameCycle]
        /\ gNewtaskAvaiable' = Posted(gNewtaskAvaiable)
        /\ UNCHANGED <<nIndexVPP_In, Locked, surface, kcfVars, idle, out>>
    BY <1>10 DEF Announce, NextFrame
  <2>2. nFrame' \in [Channels -> FrameNos] /\ gNewtaskAvaiable' \in 0..SEM_VALUE_MAX
    BY <1>1, <2>1, KeyType, PostedType DEF TypeOK
  <2> QED
    BY <1>1, <1>2, <1>3, <2>1, <2>2 DEF TypeOK, kcfVars, schedVars, resVars, trackVars
<1> QED
  BY <1>4, <1>5, <1>6, <1>7, <1>8, <1>9, <1>10 DEF DecoderStep

-----------------------------------------------------------------------------
(* The parts of ToTrack.                                                   *)

InHand(c) ==
  IF tracker[c] \in {"await", "init", "update", "unlock"} THEN <<srcframe[c]>> ELSE <<>>
Newest(c) == [bROIRrefresh |-> IsKey(nFrame[c]), pmfxSurface |-> nIndexVPP_In[c]]
Stored(c) == IF decoder[c] = "kcfstore" THEN <<Newest(c)>> ELSE <<>>

LEMMA ToTrackIs ==
  ASSUME NEW c \in Channels
  PROVE  ToTrack(c) = Join(Join(InHand(c), kcfOut[c]), Stored(c))
BY DEF ToTrack, Join, InHand, Stored, Newest

(* Every part is a list of tracks.                                         *)
LEMMA PartTypes ==
  ASSUME KCFInv, NEW c \in Channels
  PROVE  /\ InHand(c) \in Seq(Tracks) /\ kcfOut[c] \in Seq(Tracks)
         /\ Stored(c) \in Seq(Tracks)
         /\ ToTrack(c) \in Seq(Tracks)
         /\ ToTrack(c) = Join(InHand(c), Join(kcfOut[c], Stored(c)))
         /\ decoder[c] = "kcfstore" => Newest(c) \in Tracks
<1>1. TypeOK /\ Carrying(c)
  BY DEF KCFInv
<1>2. kcfOut[c] \in Seq(Tracks) /\ nFrame[c] \in FrameNos
  BY <1>1 DEF TypeOK
<1>3. decoder[c] = "kcfstore" => Newest(c) \in Tracks
  BY <1>1, <1>2, KeyType DEF Carrying, Newest, Tracks
<1>4. Stored(c) \in Seq(Tracks)
  BY <1>3, EmptySeq, SingletonList DEF Stored
<1>5. InHand(c) \in Seq(Tracks)
  BY <1>1, EmptySeq, SingletonList DEF InHand, Carrying
<1>6. ToTrack(c) = Join(InHand(c), Join(kcfOut[c], Stored(c)))
  BY <1>2, <1>4, <1>5, ToTrackIs, JoinAssociative
<1>7. Join(kcfOut[c], Stored(c)) \in Seq(Tracks)
  BY <1>2, <1>4, JoinType
<1>8. ToTrack(c) \in Seq(Tracks)
  BY <1>5, <1>6, <1>7, JoinType
<1> QED
  BY <1>2, <1>3, <1>4, <1>5, <1>6, <1>8

(* The frame a tracker looks at comes first.                               *)
LEMMA HandFirst ==
  ASSUME KCFInv, NEW c \in Channels, tracker[c] \in {"await", "init", "update", "unlock"}
  PROVE  /\ srcframe[c] \in Tracks
         /\ ToTrack(c) = Join(<<srcframe[c]>>, Join(kcfOut[c], Stored(c)))
         /\ ToTrack(c) # <<>> /\ Head(ToTrack(c)) = srcframe[c]
         /\ Tail(ToTrack(c)) = Join(kcfOut[c], Stored(c))
         /\ Locked[c][srcframe[c].pmfxSurface] = 1
<1>1. srcframe[c] \in Tracks /\ Tracked(c)
  BY DEF KCFInv, Carrying
<1>2. ToTrack(c) = Join(<<srcframe[c]>>, Join(kcfOut[c], Stored(c)))
  BY PartTypes DEF InHand
<1>3. Join(kcfOut[c], Stored(c)) \in Seq(Tracks)
  BY PartTypes, JoinType
<1>4. /\ ToTrack(c) # <<>> /\ Head(ToTrack(c)) = srcframe[c]
      /\ Tail(ToTrack(c)) = Join(kcfOut[c], Stored(c))
      /\ 1 \in DOMAIN ToTrack(c) /\ ToTrack(c)[1] = srcframe[c]
  BY <1>1, <1>2, <1>3, JoinFirst, SMTT(40)
<1>5. Locked[c][srcframe[c].pmfxSurface] = 1
  BY <1>1, <1>4 DEF Tracked, Intact, AllLocked
<1> QED
  BY <1>1, <1>2, <1>4, <1>5

(* What a tracker does to the types of its variables.                      *)
LEMMA TrackerTypes ==
  ASSUME KCFInv, NEW c \in Channels, TrackerStep(c)
  PROVE  TypeOK'
<1>1. TypeOK /\ Carrying(c) /\ Counted(c)
  BY DEF KCFInv
<1>2. UNCHANGED <<decoder, nFrame, nIndexVPP_In, surface, pipeVars, schedVars>>
  BY DEF TrackerStep, AwaitTrack, LoadTrack, AwaitResult, InitTargets, Update, Unlock, PutTrack,
     decVars
<1>3. tracker' \in [Channels -> {"semwait", "load", "await", "init", "update", "unlock", "put"}]
  <2>1. tracker \in [Channels -> {"semwait", "load", "await", "init", "update", "unlock", "put"}]
    BY <1>1 DEF TypeOK
  <2>2. PICK pc \in {"semwait", "load", "await", "init", "update", "unlock", "put"} :
          tracker' = [tracker EXCEPT ![c] = pc]
    BY DEF TrackerStep, AwaitTrack, LoadTrack, AwaitResult, InitTargets, Update, Unlock,
       PutTrack, TrackerAt
  <2> QED
    BY <2>1, <2>2
<1>4. CASE AwaitTrack(c)
  <2>1. /\ gNewTrackTaskAvaiable' = [gNewTrackTaskAvaiable EXCEPT ![c] = @ - 1]
        /\ gNewTrackTaskAvaiable[c] > 0
        /\ UNCHANGED <<decVars, kcfIdle, kcfOut, resVars, srcframe, targets, skiptrack>>
    BY <1>4 DEF AwaitTrack
  <2>2. gNewTrackTaskAvaiable \in [Channels -> 0..SEM_VALUE_MAX]
    BY <1>1 DEF TypeOK
  <2>3. gNewTrackTaskAvaiable[c] - 1 \in 0..SEM_VALUE_MAX
    BY <2>1, <2>2, KCFAssumption
  <2>4. gNewTrackTaskAvaiable' \in [Channels -> 0..SEM_VALUE_MAX]
    BY <2>1, <2>2, <2>3
  <2> QED
    BY <1>1, <1>2, <1>3, <2>1, <2>4 DEF TypeOK, decVars, pipeVars, schedVars, resVars
<1>5. CASE LoadTrack(c)
  <2>1. /\ kcfOut[c] # <<>> /\ srcframe' = [srcframe EXCEPT ![c] = Head(kcfOut[c])]
        /\ kcfOut' = [kcfOut EXCEPT ![c] = Tail(kcfOut[c])]
        /\ UNCHANGED <<decVars, kcfIdle, gNewTrackTaskAvaiable, resVars, targets, skiptrack>>
    BY <1>5 DEF LoadTrack
  <2>2. Head(kcfOut[c]) \in Tracks /\ Tail(kcfOut[c]) \in Seq(Tracks)
    BY <1>1, <2>1, HeadTailProperties DEF TypeOK
  <2>3. /\ srcframe' \in [Channels -> Tracks \cup {NoTrack}]
        /\ kcfOut' \in [Channels -> Seq(Tracks)]
    BY <1>1, <2>1, <2>2 DEF TypeOK
  <2> QED
    BY <1>1, <1>2, <1>3, <2>1, <2>3 DEF TypeOK, decVars, pipeVars, schedVars, resVars
<1>6. CASE AwaitResult(c)
  <2>1. /\ gDetectResultAvaiable' = [gDetectResultAvaiable EXCEPT ![c] = @ - 1]
        /\ gDetectResultAvaiable[c] > 0
        /\ UNCHANGED <<decVars, kcfVars, gDetectResultque, srcframe, targets, skiptrack>>
    BY <1>6 DEF AwaitResult
  <2>2. gDetectResultAvaiable \in [Channels -> 0..SEM_VALUE_MAX]
    BY <1>1 DEF TypeOK
  <2>3. gDetectResultAvaiable[c] - 1 \in 0..SEM_VALUE_MAX
    BY <2>1, <2>2, KCFAssumption
  <2>4. gDetectResultAvaiable' \in [Channels -> 0..SEM_VALUE_MAX]
    BY <2>1, <2>2, <2>3
  <2> QED
    BY <1>1, <1>2, <1>3, <2>1, <2>4 DEF TypeOK, decVars, kcfVars, pipeVars, schedVars
<1>7. CASE InitTargets(c)
  <2>1. UNCHANGED <<decVars, kcfVars, gDetectResultAvaiable, srcframe>>
    BY <1>7 DEF InitTargets
  <2>2. /\ gDetectResultque \in [Channels -> Seq(Pictures)]
        /\ skiptrack \in [Channels -> BOOLEAN]
        /\ targets \in [Channels -> [boxes : Pictures \cup {NoPicture},
                                     template : Pictures \cup {NoPicture}]]
        /\ surface \in [Channels -> [Surfaces -> Pictures \cup {NoPicture}]]
    BY <1>1 DEF TypeOK
  <2>3. Seen(c) \in Pictures \cup {NoPicture}
    <3>1. srcframe[c].pmfxSurface \in Surfaces
      BY <1>1, <1>7 DEF InitTargets, TrackerAt, Carrying, Tracks
    <3> QED
      BY <2>2, <3>1 DEF Seen
  <2>4. gDetectResultque[c] # <<>> =>
          Head(gDetectResultque[c]) \in Pictures /\ Tail(gDetectResultque[c]) \in Seq(Pictures)
    BY <2>2, HeadTailProperties
  <2>5. CASE UNCHANGED <<gDetectResultque, targets, skiptrack>>
    BY <1>1, <1>2, <1>3, <2>1, <2>5 DEF TypeOK, decVars, kcfVars, pipeVars, schedVars
  <2>6. CASE /\ gDetectResultque[c] # <<>>
             /\ gDetectResultque' = [gDetectResultque EXCEPT ![c] = Tail(@)]
             /\ \/ /\ targets' = [targets EXCEPT ![c] =
                        [boxes |-> Head(gDetectResultque[c]), template |-> Seen(c)]]
                   /\ skiptrack' = [skiptrack EXCEPT ![c] = FALSE]
                \/ /\ skiptrack' = [skiptrack EXCEPT ![c] = TRUE]
                   /\ UNCHANGED targets
    <3>1. gDetectResultque' \in [Channels -> Seq(Pictures)]
      BY <2>2, <2>4, <2>6
    <3>2. skiptrack' \in [Channels -> BOOLEAN]
      BY <2>2, <2>6
    <3>3. targets' \in [Channels -> [boxes : Pictures \cup {NoPicture},
                                     template : Pictures \cup {NoPicture}]]
      <4>1. PICK r \in [boxes : Pictures \cup {NoPicture}, template : Pictures \cup {NoPicture}] :
              r = [boxes |-> Head(gDetectResultque[c]), template |-> Seen(c)]
        BY <2>3, <2>4, <2>6
      <4>2. targets' = [targets EXCEPT ![c] = r] \/ targets' = targets
        BY <2>6, <4>1
      <4> QED
        BY <2>2, <4>2
    <3> QED
      BY <1>1, <1>2, <1>3, <2>1, <3>1, <3>2, <3>3 DEF TypeOK, decVars, kcfVars, pipeVars, schedVars
  <2> QED
    BY <1>7, <2>5, <2>6 DEF InitTargets
<1>8. CASE Update(c)
  BY <1>1, <1>2, <1>3, <1>8 DEF Update, TypeOK, decVars, kcfVars, pipeVars, schedVars, resVars
<1>9. CASE Unlock(c)
  <2>1. PICK s \in Surfaces : s = srcframe[c].pmfxSurface /\ Locked[c][s] = 1
    BY <1>9, HandFirst DEF Unlock, TrackerAt, Tracks
  <2>2. /\ Locked' = [Locked EXCEPT ![c][s] = @ - 1]
        /\ UNCHANGED <<kcfVars, resVars, srcframe, targets, skiptrack>>
    BY <1>9, <2>1 DEF Unlock
  <2>3. Locked' \in [Channels -> [Surfaces -> {0, 1}]]
    BY <1>1, <2>1, <2>2, SMTT(40) DEF TypeOK
  <2> QED
    BY <1>1, <1>2, <1>3, <2>2, <2>3 DEF TypeOK, kcfVars, pipeVars, schedVars, resVars
<1>10. CASE PutTrack(c)
  <2>1. /\ kcfIdle' = [kcfIdle EXCEPT ![c] = @ + 1] /\ tracker[c] = "put"
        /\ srcframe' = [srcframe EXCEPT ![c] = NoTrack]
        /\ UNCHANGED <<decVars, kcfOut, gNewTrackTaskAvaiable, resVars, targets, skiptrack>>
    BY <1>10 DEF PutTrack, TrackerAt
  <2>2. kcfIdle[c] + 1 \in 0..NumKCFBuffers
    <3>1. /\ kcfIdle[c] \in 0..NumKCFBuffers /\ Len(kcfOut[c]) \in Nat
      BY <1>1, LenProperties DEF TypeOK
    <3>2. One(decoder[c] = "kcfstore") \in {0, 1}
      BY OneType
    <3>3. kcfIdle[c] + Len(kcfOut[c]) + One(decoder[c] = "kcfstore") + 1 = NumKCFBuffers
      BY <1>1, <2>1 DEF Counted, One
    <3> QED
      BY <3>1, <3>2, <3>3, KCFAssumption, SMTT(40)
  <2>3. /\ kcfIdle' \in [Channels -> 0..NumKCFBuffers]
        /\ srcframe' \in [Channels -> Tracks \cup {NoTrack}]
    BY <1>1, <2>1, <2>2 DEF TypeOK
  <2> QED
    BY <1>1, <1>2, <1>3, <2>1, <2>3 DEF TypeOK, decVars, pipeVars, schedVars, resVars
<1> QED
  BY <1>4, <1>5, <1>6, <1>7, <1>8, <1>9, <1>10 DEF TrackerStep

(* What the scheduler does to the types of its variables; it has a picture *)
(* or results exactly when it works on them.                               *)
LEMMA NextPipeTypes ==
  ASSUME channel \in Channels, NextPipe
  PROVE  /\ channel' \in Channels /\ frame' = NoPicture
         /\ scheduler' \in {"load", "semwait"}
BY KCFAssumption DEF NextPipe, Channels

LEMMA SchedulerTypes ==
  ASSUME KCFInv, SchedulerStep
  PROVE  TypeOK' /\ Detecting'
<1>0. channel \in Channels /\ 1 \in Channels /\ ResultChannel = 1
  BY KCFAssumption DEF KCFInv, TypeOK, Channels, ResultChannel
<1>1. /\ TypeOK /\ Detecting /\ channel \in Channels /\ Counted(channel)
      /\ 1 \in Channels /\ ResultChannel = 1
  BY <1>0 DEF KCFInv
<1>2. UNCHANGED <<decVars, kcfVars, trackVars>>
  BY DEF SchedulerStep, AwaitTask, LoadFrame, PutFrame, InsertImage, PushResult, PostResult
<1>3. /\ objects \in Seq(Pictures) /\ imginfoque_ \in Seq(Pictures)
      /\ out \in [Channels -> Seq(Pictures)] /\ idle \in [Channels -> 0..NumBuffers]
      /\ gNewtaskAvaiable \in 0..SEM_VALUE_MAX
      /\ gDetectResultque \in [Channels -> Seq(Pictures)]
      /\ gDetectResultAvaiable \in [Channels -> 0..SEM_VALUE_MAX]
      /\ frame \in Pictures \cup {NoPicture}
  BY <1>1 DEF TypeOK
<1>4. CASE AwaitTask
  <2>1. /\ scheduler = "semwait" /\ scheduler' = "load"
        /\ gNewtaskAvaiable > 0 /\ gNewtaskAvaiable' = gNewtaskAvaiable - 1
        /\ UNCHANGED <<idle, out, channel, frame, imginfoque_, objects, resVars>>
    BY <1>4 DEF AwaitTask
  <2>2. gNewtaskAvaiable' \in 0..SEM_VALUE_MAX
    BY <1>3, <2>1, KCFAssumption
  <2>3. TypeOK'
    BY <1>1, <1>2, <2>1, <2>2 DEF TypeOK, decVars, kcfVars, trackVars, resVars
  <2> QED
    BY <1>1, <2>1, <2>3 DEF Detecting
<1>5. CASE LoadFrame
  <2>1. /\ scheduler = "load" /\ scheduler' = "put" /\ out[channel] # <<>>
        /\ frame' = Head(out[channel])
        /\ out' = [out EXCEPT ![channel] = Tail(out[channel])]
        /\ UNCHANGED <<idle, gNewtaskAvaiable, channel, imginfoque_, objects, resVars>>
    BY <1>5 DEF LoadFrame
  <2>2. Head(out[channel]) \in Pictures /\ Tail(out[channel]) \in Seq(Pictures)
    BY <1>1, <1>3, <2>1, HeadTailProperties
  <2>3. out' \in [Channels -> Seq(Pictures)] /\ frame' \in Pictures
    BY <1>3, <2>1, <2>2
  <2>4. TypeOK'
    BY <1>1, <1>2, <2>1, <2>3 DEF TypeOK, decVars, kcfVars, trackVars, resVars
  <2> QED
    BY <1>1, <2>1, <2>3, <2>4 DEF Detecting
<1>6. CASE PutFrame
  <2>1. /\ scheduler = "put" /\ scheduler' = "insert"
        /\ idle' = [idle EXCEPT ![channel] = @ + 1]
        /\ UNCHANGED <<out, gNewtaskAvaiable, channel, frame, imginfoque_, objects, resVars>>
    BY <1>6 DEF PutFrame
  <2>2. idle[channel] + 1 \in 0..NumBuffers
    <3>1. idle[channel] \in 0..NumBuffers /\ Len(out[channel]) \in Nat
      BY <1>1, <1>3, LenProperties
    <3>2. One(decoder[channel] = "store") \in {0, 1}
      BY OneType
    <3>3. idle[channel] + Len(out[channel]) + One(decoder[channel] = "store") + 1 = NumBuffers
      BY <1>1, <2>1 DEF Counted, One
    <3> QED
      BY <3>1, <3>2, <3>3, KCFAssumption
  <2>3. idle' \in [Channels -> 0..NumBuffers]
    BY <1>1, <1>3, <2>1, <2>2
  <2>4. TypeOK'
    BY <1>1, <1>2, <2>1, <2>3 DEF TypeOK, decVars, kcfVars, trackVars, resVars
  <2> QED
    BY <1>1, <2>1, <2>4 DEF Detecting
<1>7. CASE InsertImage
  <2>1. /\ scheduler = "insert" /\ frame \in Pictures /\ objects = <<>>
        /\ UNCHANGED <<idle, out, gNewtaskAvaiable, resVars>>
    BY <1>1, <1>7 DEF InsertImage, Detecting, pipeVars
  <2>2. Append(imginfoque_, frame) \in Seq(Pictures) /\ Append(imginfoque_, frame) # <<>>
    <3>1. PICK q \in Seq(Pictures), p \in Pictures : q = imginfoque_ /\ p = frame
      BY <1>3, <2>1
    <3>2. Append(q, p) \in Seq(Pictures) /\ Append(q, p) # <<>>
      BY AppendProperties
    <3> QED
      BY <3>1, <3>2
  <2>3. CASE imginfoque_' = Append(imginfoque_, frame) /\ NextPipe /\ UNCHANGED objects
    <3>1. channel' \in Channels /\ frame' = NoPicture /\ scheduler' \in {"load", "semwait"}
      BY <1>1, <2>3, NextPipeTypes
    <3>2. TypeOK'
      BY <1>1, <1>2, <2>1, <2>2, <2>3, <3>1 DEF TypeOK, decVars, kcfVars, trackVars, resVars
    <3> QED
      BY <2>1, <2>3, <3>1, <3>2 DEF Detecting
  <2>4. CASE /\ imginfoque_' = <<>> /\ objects' = Append(imginfoque_, frame)
             /\ scheduler' = "result" /\ frame' = NoPicture /\ UNCHANGED channel
    <3>1. TypeOK'
      BY <1>1, <1>2, <2>1, <2>2, <2>4, EmptySeq DEF TypeOK, decVars, kcfVars, trackVars, resVars
    <3> QED
      BY <2>2, <2>4, <3>1 DEF Detecting
  <2> QED
    BY <1>7, <2>3, <2>4 DEF InsertImage
<1>8. CASE PushResult
  <2>1. /\ scheduler = "result" /\ scheduler' = "postresult" /\ objects # <<>>
        /\ gDetectResultque' = [gDetectResultque EXCEPT ![1] =
                                  Append(gDetectResultque[1], Head(objects))]
        /\ UNCHANGED <<pipeVars, channel, frame, imginfoque_, objects, gDetectResultAvaiable>>
    BY <1>1, <1>8 DEF PushResult, Detecting
  <2>2. Head(objects) \in Pictures
    BY <1>3, <2>1, HeadTailProperties
  <2>3. Append(gDetectResultque[1], Head(objects)) \in Seq(Pictures)
    BY <1>1, <1>3, <2>2, AppendProperties
  <2>4. gDetectResultque' \in [Channels -> Seq(Pictures)]
    BY <1>3, <2>1, <2>3
  <2>5. TypeOK'
    BY <1>1, <1>2, <2>1, <2>4 DEF TypeOK, decVars, kcfVars, trackVars, pipeVars
  <2> QED
    BY <1>1, <2>1, <2>5 DEF Detecting
<1>9. CASE PostResult
  <2>1. /\ scheduler = "postresult" /\ objects # <<>> /\ imginfoque_ = <<>>
        /\ gDetectResultAvaiable' = [gDetectResultAvaiable EXCEPT ![1] =
                                       Posted(gDetectResultAvaiable[1])]
        /\ objects' = Tail(objects)
        /\ UNCHANGED <<pipeVars, imginfoque_, gDetectResultque>>
    BY <1>1, <1>9 DEF PostResult, Detecting
  <2>2. /\ Tail(objects) \in Seq(Pictures) /\ Len(Tail(objects)) = Len(objects) - 1
        /\ Len(objects) \in Nat
    BY <1>3, <2>1, HeadTailProperties, LenProperties
  <2>3. Posted(gDetectResultAvaiable[1]) \in 0..SEM_VALUE_MAX
    BY <1>1, <1>3, PostedType
  <2>4. gDetectResultAvaiable' \in [Channels -> 0..SEM_VALUE_MAX]
    BY <1>3, <2>1, <2>3
  <2>5. CASE Len(objects) = 1 /\ NextPipe
    <3>1. channel' \in Channels /\ frame' = NoPicture /\ scheduler' \in {"load", "semwait"}
      BY <1>1, <2>5, NextPipeTypes
    <3>2. objects' = <<>>
      BY <2>1, <2>2, <2>5, EmptySeq
    <3>3. TypeOK'
      BY <1>1, <1>2, <2>1, <2>2, <2>4, <3>1 DEF TypeOK, decVars, kcfVars, trackVars, pipeVars
    <3> QED
      BY <3>1, <3>2, <3>3 DEF Detecting
  <2>6. CASE Len(objects) # 1 /\ scheduler' = "result" /\ UNCHANGED <<channel, frame>>
    <3>1. objects' # <<>>
      <4>1. Len(objects') # 0
        BY <2>1, <2>2, <2>6
      <4> QED
        BY <4>1
    <3>2. TypeOK'
      BY <1>1, <1>2, <2>1, <2>2, <2>4, <2>6 DEF TypeOK, decVars, kcfVars, trackVars, pipeVars
    <3> QED
      BY <2>1, <2>6, <3>1, <3>2 DEF Detecting
  <2> QED
    BY <1>9, <2>5, <2>6 DEF PostResult
<1> QED
  BY <1>4, <1>5, <1>6, <1>7, <1>8, <1>9 DEF SchedulerStep

-----------------------------------------------------------------------------
(* Buffers.                                                                *)

TrackerHas(c) == tracker[c] \in {"await", "init", "update", "unlock", "put"}
SchedulerHas(c) == scheduler = "put" /\ channel = c

LEMMA CountedIs ==
  ASSUME NEW c \in Channels
  PROVE  Counted(c) <=>
           /\ kcfIdle[c] + Len(kcfOut[c]) + One(decoder[c] = "kcfstore") + One(TrackerHas(c))
                = NumKCFBuffers
           /\ idle[c] + Len(out[c]) + One(decoder[c] = "store") + One(SchedulerHas(c))
                = NumBuffers
BY DEF Counted, TrackerHas, SchedulerHas

LEMMA CountedStays ==
  ASSUME NEW c \in Channels, Counted(c),
         UNCHANGED <<kcfIdle[c], kcfOut[c], idle[c], out[c]>>,
         decoder'[c] = "kcfstore" <=> decoder[c] = "kcfstore",
         decoder'[c] = "store" <=> decoder[c] = "store",
         TrackerHas(c)' <=> TrackerHas(c), SchedulerHas(c)' <=> SchedulerHas(c)
  PROVE  Counted(c)'
BY DEF Counted, One, TrackerHas, SchedulerHas

LEMMA DecoderCounts ==
  ASSUME KCFInv, NEW d \in Channels, DecoderStep(d), NEW c \in Channels
  PROVE  Counted(c)'
<1>1. TypeOK /\ Counted(c)
  BY DEF KCFInv
<1>2. UNCHANGED <<tracker, scheduler, channel>>
  BY DEF DecoderStep, Decode, GetTrack, StoreTrack, AnnounceTrack, GetFrame, StoreFrame,
     Announce, trackVars, schedVars
<1>3. /\ kcfIdle[c] \in Nat /\ idle[c] \in Nat
      /\ Len(kcfOut[c]) \in Nat /\ Len(out[c]) \in Nat
      /\ kcfOut[c] \in Seq(Tracks) /\ out[c] \in Seq(Pictures)
  <2>1. kcfOut[c] \in Seq(Tracks) /\ out[c] \in Seq(Pictures)
    BY <1>1 DEF TypeOK
  <2>2. kcfIdle[c] \in 0..NumKCFBuffers /\ idle[c] \in 0..NumBuffers
    BY <1>1 DEF TypeOK
  <2> QED
    BY <2>1, <2>2, LenProperties
<1>4. (TrackerHas(c)' <=> TrackerHas(c)) /\ (SchedulerHas(c)' <=> SchedulerHas(c))
  BY <1>2 DEF TrackerHas, SchedulerHas
<1>5. CASE c # d
  <2>1. UNCHANGED <<kcfIdle[c], kcfOut[c], idle[c], out[c], decoder[c]>>
    BY <1>1, <1>5 DEF TypeOK, DecoderStep, Decode, GetTrack, StoreTrack, AnnounceTrack, GetFrame,
       StoreFrame, Announce, DecoderAt, kcfVars, pipeVars
  <2> QED
    BY <1>1, <1>4, <2>1, CountedStays
<1>6. CASE c = d
  <2>1. CASE Decode(c) \/ AnnounceTrack(c) \/ Announce(c)
    <3>1. /\ UNCHANGED <<kcfIdle[c], kcfOut[c], idle[c], out[c]>>
          /\ decoder[c] \notin {"kcfstore", "store"} /\ decoder'[c] \notin {"kcfstore", "store"}
      BY <1>1, <2>1 DEF TypeOK, Decode, AnnounceTrack, Announce, DecoderAt, kcfVars, pipeVars
    <3> QED
      BY <1>1, <1>4, <3>1, CountedStays
  <2>2. CASE GetTrack(c)
    <3>1. /\ decoder[c] = "kcfget" /\ decoder'[c] = "kcfstore" /\ kcfIdle'[c] = kcfIdle[c] - 1
          /\ UNCHANGED <<kcfOut[c], idle[c], out[c]>>
      BY <1>1, <2>2 DEF TypeOK, GetTrack, DecoderAt, pipeVars
    <3> QED
      BY <1>1, <1>2, <1>3, <3>1 DEF Counted, One
  <2>3. CASE StoreTrack(c)
    <3>1. /\ decoder[c] = "kcfstore" /\ decoder'[c] = "kcfpost"
          /\ kcfOut'[c] = Append(kcfOut[c], Newest(c))
          /\ UNCHANGED <<kcfIdle[c], idle[c], out[c]>>
      BY <1>1, <2>3 DEF TypeOK, StoreTrack, DecoderAt, pipeVars, Newest
    <3>2. Newest(c) \in Tracks
      BY <3>1, PartTypes
    <3>3. Len(kcfOut'[c]) = Len(kcfOut[c]) + 1
      BY <1>3, <3>1, <3>2, AppendProperties
    <3> QED
      BY <1>1, <1>2, <1>3, <3>1, <3>3 DEF Counted, One
  <2>4. CASE GetFrame(c)
    <3>1. /\ decoder[c] = "get" /\ decoder'[c] = "store" /\ idle'[c] = idle[c] - 1
          /\ UNCHANGED <<kcfIdle[c], kcfOut[c], out[c]>>
      BY <1>1, <2>4 DEF TypeOK, GetFrame, DecoderAt, kcfVars
    <3> QED
      BY <1>1, <1>2, <1>3, <3>1 DEF Counted, One
  <2>5. CASE StoreFrame(c)
    <3>a. nFrame[c] \in FrameNos
      BY <1>1 DEF TypeOK
    <3>1. PICK p \in Pictures : p = surface[c][nIndexVPP_In[c]]
      BY <2>5, <3>a DEF KCFInv, Carrying, StoreFrame, DecoderAt, Pictures
    <3>2. /\ decoder[c] = "store" /\ decoder'[c] = "post"
          /\ out'[c] = Append(out[c], p)
          /\ UNCHANGED <<kcfIdle[c], kcfOut[c], idle[c]>>
      BY <1>1, <2>5, <3>1 DEF TypeOK, StoreFrame, DecoderAt, kcfVars
    <3>3. Len(out'[c]) = Len(out[c]) + 1
      BY <1>3, <3>1, <3>2, AppendProperties
    <3> QED
      BY <1>1, <1>2, <1>3, <3>2, <3>3 DEF Counted, One
  <2> QED
    BY <1>6, <2>1, <2>2, <2>3, <2>4, <2>5 DEF DecoderStep
<1> QED
  BY <1>5, <1>6

LEMMA TrackerCounts ==
  ASSUME KCFInv, NEW d \in Channels, TrackerStep(d), NEW c \in Channels
  PROVE  Counted(c)'
<1>1. TypeOK /\ Counted(c)
  BY DEF KCFInv
<1>2. UNCHANGED <<decoder, scheduler, channel, idle, out>>
  BY DEF TrackerStep, AwaitTrack, LoadTrack, AwaitResult, InitTargets, Update, Unlock, PutTrack,
     decVars, schedVars, pipeVars
<1>3. /\ kcfIdle[c] \in Nat /\ Len(kcfOut[c]) \in Nat /\ kcfOut[c] \in Seq(Tracks)
  <2>1. kcfOut[c] \in Seq(Tracks) /\ kcfIdle[c] \in 0..NumKCFBuffers
    BY <1>1 DEF TypeOK
  <2> QED
    BY <2>1, LenProperties
<1>4. SchedulerHas(c)' <=> SchedulerHas(c)
  BY <1>2 DEF SchedulerHas
<1>5. CASE c # d
  <2>1. UNCHANGED <<kcfIdle[c], kcfOut[c], tracker[c]>>
    BY <1>1, <1>5 DEF TypeOK, TrackerStep, AwaitTrack, LoadTrack, AwaitResult, InitTargets,
       Update, Unlock, PutTrack, TrackerAt, kcfVars
  <2> QED
    BY <1>1, <1>2, <1>4, <2>1, CountedStays DEF TrackerHas
<1>6. CASE c = d
  <2>1. CASE AwaitTrack(c) \/ AwaitResult(c) \/ InitTargets(c) \/ Update(c) \/ Unlock(c)
    <3>1. /\ UNCHANGED <<kcfIdle[c], kcfOut[c]>>
          /\ TrackerHas(c)' <=> TrackerHas(c)
      BY <1>1, <2>1 DEF TypeOK, AwaitTrack, AwaitResult, InitTargets, Update, Unlock, TrackerAt,
         kcfVars, TrackerHas
    <3> QED
      BY <1>1, <1>2, <1>4, <3>1, CountedStays
  <2>2. CASE LoadTrack(c)
    <3>1. /\ tracker[c] = "load" /\ tracker'[c] \in {"await", "update"}
          /\ kcfOut[c] # <<>> /\ kcfOut'[c] = Tail(kcfOut[c]) /\ UNCHANGED kcfIdle[c]
      BY <1>1, <2>2 DEF TypeOK, LoadTrack, TrackerAt
    <3>2. Len(kcfOut'[c]) = Len(kcfOut[c]) - 1
      BY <1>3, <3>1, HeadTailProperties
    <3> QED
      BY <1>1, <1>2, <1>3, <3>1, <3>2 DEF Counted, One
  <2>3. CASE PutTrack(c)
    <3>1. /\ tracker[c] = "put" /\ tracker'[c] = "load"
          /\ kcfIdle'[c] = kcfIdle[c] + 1 /\ UNCHANGED kcfOut[c]
      BY <1>1, <2>3 DEF TypeOK, PutTrack, TrackerAt
    <3> QED
      BY <1>1, <1>2, <1>3, <3>1 DEF Counted, One
  <2> QED
    BY <1>6, <2>1, <2>2, <2>3 DEF TrackerStep
<1> QED
  BY <1>5, <1>6

LEMMA SchedulerCounts ==
  ASSUME KCFInv, SchedulerStep, NEW c \in Channels
  PROVE  Counted(c)'
<1>1. TypeOK /\ Counted(c)
  BY DEF KCFInv
<1>2. UNCHANGED <<decoder, tracker, kcfIdle, kcfOut>>
  BY DEF SchedulerStep, AwaitTask, LoadFrame, PutFrame, InsertImage, PushResult, PostResult,
     decVars, trackVars, kcfVars
<1>3. /\ idle[c] \in Nat /\ Len(out[c]) \in Nat /\ out[c] \in Seq(Pictures)
  <2>1. out[c] \in Seq(Pictures) /\ idle[c] \in 0..NumBuffers
    BY <1>1 DEF TypeOK
  <2> QED
    BY <2>1, LenProperties
<1>4. ASSUME UNCHANGED <<idle[c], out[c]>>, SchedulerHas(c)' <=> SchedulerHas(c)
      PROVE  Counted(c)'
  BY <1>1, <1>2, <1>4, CountedStays DEF TrackerHas
<1>5. CASE AwaitTask \/ InsertImage \/ PushResult \/ PostResult
  <2>1. UNCHANGED <<idle, out>> /\ scheduler # "put" /\ scheduler' # "put"
    BY <1>5 DEF AwaitTask, InsertImage, PushResult, PostResult, NextPipe, pipeVars
  <2> QED
    BY <1>4, <2>1 DEF SchedulerHas
<1>6. CASE LoadFrame
  <2>1. /\ scheduler = "load" /\ scheduler' = "put" /\ channel' = channel /\ idle' = idle
        /\ out[channel] # <<>> /\ out' = [out EXCEPT ![channel] = Tail(out[channel])]
    BY <1>6 DEF LoadFrame
  <2>2. CASE c = channel
    <3>a. SchedulerHas(c)' /\ ~ SchedulerHas(c)
      BY <2>1, <2>2 DEF SchedulerHas
    <3>1. out'[c] = Tail(out[c]) /\ out[c] # <<>>
      BY <1>1, <2>1, <2>2 DEF TypeOK
    <3>2. Len(out'[c]) = Len(out[c]) - 1
      BY <1>3, <3>1, HeadTailProperties
    <3> QED
      BY <1>1, <1>2, <1>3, <2>1, <3>a, <3>2 DEF Counted, One, SchedulerHas
  <2>3. CASE c # channel
    BY <1>1, <1>4, <2>1, <2>3 DEF TypeOK, SchedulerHas
  <2> QED
    BY <2>2, <2>3
<1>7. CASE PutFrame
  <2>1. /\ scheduler = "put" /\ scheduler' = "insert" /\ channel' = channel /\ out' = out
        /\ idle' = [idle EXCEPT ![channel] = @ + 1]
    BY <1>7 DEF PutFrame
  <2>2. CASE c = channel
    <3>a. SchedulerHas(c) /\ ~ SchedulerHas(c)'
      BY <2>1, <2>2 DEF SchedulerHas
    <3>1. idle'[c] = idle[c] + 1
      BY <1>1, <2>1, <2>2 DEF TypeOK
    <3> QED
      <4>1. One(decoder[c] = "store") \in {0, 1}
        BY OneType
      <4>2. idle[c] + Len(out[c]) + One(decoder[c] = "store") + 1 = NumBuffers
        BY <1>1, <2>1, <2>2 DEF Counted, One
      <4>3. idle'[c] + Len(out[c]) + One(decoder[c] = "store") + 0 = NumBuffers
        BY <1>3, <3>1, <4>1, <4>2
      <4> QED
        BY <1>1, <1>2, <2>1, <4>3 DEF Counted, One
  <2>3. CASE c # channel
    BY <1>1, <1>4, <2>1, <2>3 DEF TypeOK, SchedulerHas
  <2> QED
    BY <2>2, <2>3
<1> QED
  BY <1>5, <1>6, <1>7 DEF SchedulerStep

-----------------------------------------------------------------------------
(* Frames.                                                                 *)

LEMMA Elsewhere ==
  ASSUME NEW c \in Channels, Carrying(c), Tracked(c),
         UNCHANGED <<decoder[c], nFrame[c], nIndexVPP_In[c], Locked[c], surface[c],
                     kcfOut[c], tracker[c], srcframe[c]>>
  PROVE  Carrying(c)' /\ Tracked(c)'
<1>1. Carrying(c)'
  BY DEF Carrying
<1>2. ToTrack(c)' = ToTrack(c) /\ LastNo(c)' = LastNo(c)
  BY DEF ToTrack, LastNo
<1>3. Tracked(c)'
  BY <1>2 DEF Tracked
<1> QED
  BY <1>1, <1>3

(* Steps after which the tracker has to see the same frames.               *)
LEMMA SameTracks ==
  ASSUME NEW c \in Channels, Tracked(c), UNCHANGED <<Locked[c], surface[c]>>,
         ToTrack(c)' = ToTrack(c), LastNo(c)' = LastNo(c)
  PROVE  Tracked(c)'
BY DEF Tracked

(* What the decoder does to the frames to be seen: it adds one, with the   *)
(* lock on its surface, and later only moves it.                           *)
LEMMA DecoderParts ==
  ASSUME KCFInv, NEW c \in Channels, DecoderStep(c)
  PROVE  /\ ToTrack(c) = Join(Join(InHand(c), kcfOut[c]), Stored(c))
         /\ ToTrack(c)' = Join(Join(InHand(c), kcfOut'[c]), Stored(c)')
         /\ InHand(c) \in Seq(Tracks) /\ kcfOut[c] \in Seq(Tracks)
         /\ Join(InHand(c), kcfOut[c]) \in Seq(Tracks)
<1>1. tracker' = tracker /\ srcframe' = srcframe
  BY DEF DecoderStep, Decode, GetTrack, StoreTrack, AnnounceTrack, GetFrame, StoreFrame,
     Announce, trackVars
<1>2. InHand(c)' = InHand(c)
  BY <1>1 DEF InHand
<1>3. ToTrack(c)' = Join(Join(InHand(c)', kcfOut'[c]), Stored(c)')
  BY DEF ToTrack, Join, InHand, Stored, Newest
<1> QED
  BY <1>2, <1>3, ToTrackIs, PartTypes, JoinType

LEMMA GetAppends ==
  ASSUME KCFInv, NEW c \in Channels, GetTrack(c)
  PROVE  /\ ToTrack(c) \in Seq(Tracks) /\ Newest(c) \in Tracks
         /\ ToTrack(c)' = Append(ToTrack(c), Newest(c))
<1>1. /\ ToTrack(c) = Join(Join(InHand(c), kcfOut[c]), Stored(c))
      /\ ToTrack(c)' = Join(Join(InHand(c), kcfOut'[c]), Stored(c)')
      /\ Join(InHand(c), kcfOut[c]) \in Seq(Tracks)
  BY DecoderParts DEF DecoderStep
<1>2. /\ decoder \in [Channels -> {"decode", "kcfget", "kcfstore", "kcfpost", "get", "store", "post"}]
      /\ nFrame[c] \in FrameNos /\ Carrying(c)
  BY DEF KCFInv, TypeOK
<1>3. /\ decoder[c] = "kcfget" /\ decoder'[c] = "kcfstore"
      /\ UNCHANGED <<nFrame, nIndexVPP_In, kcfOut>>
  BY <1>2 DEF GetTrack, DecoderAt
<1>4. PICK e \in Tracks : e = Newest(c)
  BY <1>2, <1>3, KeyType DEF Carrying, Newest, Tracks
<1>5. PICK t \in Seq(Tracks) : t = ToTrack(c) /\ t = Join(InHand(c), kcfOut[c])
  <2>1. Stored(c) = <<>>
    BY <1>3 DEF Stored
  <2> QED
    BY <1>1, <2>1, JoinEmpty
<1>6. Stored(c)' = <<e>>
  BY <1>3, <1>4 DEF Stored, Newest
<1>7. ToTrack(c)' = Join(t, <<e>>)
  BY <1>1, <1>3, <1>5, <1>6
<1> QED
  BY <1>4, <1>5, <1>7, JoinOne

LEMMA StoreKeeps ==
  ASSUME KCFInv, NEW c \in Channels, StoreTrack(c)
  PROVE  ToTrack(c)' = ToTrack(c)
<1>1. /\ ToTrack(c) = Join(Join(InHand(c), kcfOut[c]), Stored(c))
      /\ ToTrack(c)' = Join(Join(InHand(c), kcfOut'[c]), Stored(c)')
      /\ InHand(c) \in Seq(Tracks) /\ kcfOut[c] \in Seq(Tracks)
  BY DecoderParts DEF DecoderStep
<1>2. /\ decoder[c] = "kcfstore" /\ decoder'[c] = "kcfpost"
      /\ kcfOut'[c] = Append(kcfOut[c], Newest(c))
  BY DEF KCFInv, TypeOK, StoreTrack, DecoderAt, Newest
<1>3. PICK e \in Tracks : e = Newest(c)
  BY <1>2, PartTypes
<1>4. PICK h \in Seq(Tracks), k \in Seq(Tracks) : h = InHand(c) /\ k = kcfOut[c]
  BY <1>1
<1>5. Stored(c) = <<e>> /\ Stored(c)' = <<>>
  BY <1>2, <1>3 DEF Stored
<1>6. Append(k, e) = Join(k, <<e>>) /\ Append(k, e) \in Seq(Tracks)
  BY JoinOne, AppendProperties
<1>7. ToTrack(c)' = Join(Join(h, Append(k, e)), <<>>)
  BY <1>1, <1>2, <1>3, <1>4, <1>5
<1>8. ToTrack(c) = Join(Join(h, k), <<e>>)
  BY <1>1, <1>4, <1>5
<1>9. PICK a \in Seq(Tracks) : a = Append(k, e)
  BY <1>6
<1>10. Join(h, a) \in Seq(Tracks)
  BY JoinType
<1>11. Join(Join(h, a), <<>>) = Join(h, a)
  BY <1>10, JoinEmpty
<1>12. PICK one : one = <<e>>
  OBVIOUS
<1>13. one \in Seq(Tracks)
  BY <1>12, SingletonList
<1>14. Join(Join(h, k), one) = Join(h, Join(k, one))
  BY <1>13, JoinAssociative
<1>15. Join(Join(h, k), <<e>>) = Join(h, Join(k, <<e>>))
  BY <1>12, <1>14
<1> QED
  BY <1>6, <1>7, <1>8, <1>9, <1>11, <1>15

LEMMA DecoderTracks ==
  ASSUME KCFInv, NEW c \in Channels, DecoderStep(c)
  PROVE  Carrying(c)' /\ Tracked(c)'
<1>1. Carrying(c) /\ Tracked(c)
  BY DEF KCFInv
<1>2. /\ decoder \in [Channels -> {"decode", "kcfget", "kcfstore", "kcfpost", "get", "store", "post"}]
      /\ nFrame \in [Channels -> FrameNos]
      /\ nIndexVPP_In \in [Channels -> Surfaces \cup {0}]
      /\ Locked \in [Channels -> [Surfaces -> {0, 1}]]
      /\ surface \in [Channels -> [Surfaces -> Pictures \cup {NoPicture}]]
      /\ kcfOut \in [Channels -> Seq(Tracks)]
  BY DEF KCFInv, TypeOK
<1>3. tracker' = tracker /\ srcframe' = srcframe
  BY DEF DecoderStep, Decode, GetTrack, StoreTrack, AnnounceTrack, GetFrame, StoreFrame,
     Announce, trackVars
<1>5. /\ ToTrack(c) = Join(Join(InHand(c), kcfOut[c]), Stored(c))
      /\ ToTrack(c)' = Join(Join(InHand(c), kcfOut'[c]), Stored(c)')
  BY DecoderParts
<1>6. nFrame[c] \in 0..(FrameCycle - 1) /\ FrameCycle \in Nat \ {0}
  BY <1>2, KCFAssumption DEF FrameNos
<1>7. CASE Decode(c)
  <2>1. FreeSurfaces(c) \subseteq Surfaces /\ FreeSurfaces(c) \subseteq Nat /\ FreeSurfaces(c) # {}
    BY <1>7 DEF Decode, FreeSurfaces, Surfaces
  <2>2. PICK s \in Surfaces : s = Min(FreeSurfaces(c)) /\ Locked[c][s] = 0
    BY <2>1, MinOf DEF FreeSurfaces
  <2>3. /\ decoder[c] = "decode" /\ decoder'[c] = "kcfget" /\ nIndexVPP_In'[c] = s
        /\ surface'[c] = [surface[c] EXCEPT ![s] = [channel |-> c, frameno |-> nFrame[c]]]
        /\ UNCHANGED <<nFrame, Locked, kcfOut>>
    BY <1>2, <1>7, <2>2 DEF Decode, DecoderAt, kcfVars
  <2>4. ToTrack(c)' = ToTrack(c) /\ LastNo(c)' = LastNo(c)
    BY <1>5, <2>3 DEF Stored, LastNo
  <2>5. \A r \in Surfaces \ {s} : surface'[c][r] = surface[c][r]
    BY <1>2, <2>3
  <2>6. Intact(c, ToTrack(c), Locked[c], surface'[c], LastNo(c))
    BY <1>1, <2>2, <2>5, DecodeIntact DEF Tracked
  <2>7. Tracked(c)'
    BY <2>3, <2>4, <2>6 DEF Tracked
  <2>8. Carrying(c)'
    BY <1>1, <1>2, <1>3, <2>2, <2>3 DEF Carrying
  <2> QED
    BY <2>7, <2>8
<1>8. CASE GetTrack(c)
  <2>1. PICK s \in Surfaces, n \in FrameNos : s = nIndexVPP_In[c] /\ n = nFrame[c]
    BY <1>1, <1>2, <1>8 DEF Carrying, GetTrack, DecoderAt
  <2>2. /\ decoder[c] = "kcfget" /\ decoder'[c] = "kcfstore" /\ Locked[c][s] = 0
        /\ surface[c][s] = [channel |-> c, frameno |-> n]
        /\ Locked'[c] = [Locked[c] EXCEPT ![s] = 1]
        /\ UNCHANGED <<nFrame, nIndexVPP_In, surface, kcfOut>>
    <3>1. decoder[c] = "kcfget" /\ Locked[c][s] = 0 /\ surface[c][s] = [channel |-> c, frameno |-> n]
      BY <1>1, <1>8, <2>1 DEF Carrying, GetTrack, DecoderAt
    <3>2. Locked' = [Locked EXCEPT ![c][s] = Locked[c][s] + 1]
      BY <1>8, <2>1 DEF GetTrack
    <3>3. Locked'[c] = [Locked[c] EXCEPT ![s] = Locked[c][s] + 1]
      BY <1>2, <3>2
    <3> QED
      BY <1>2, <1>8, <3>1, <3>3 DEF GetTrack, DecoderAt
  <2>3. PICK t \in Seq(Tracks) : t = ToTrack(c)
    BY PartTypes
  <2>4. ToTrack(c)' = Append(t, [bROIRrefresh |-> IsKey(n), pmfxSurface |-> s])
    BY <1>8, <2>1, <2>3, GetAppends DEF Newest
  <2>5. LastNo(c)' = n /\ (LastNo(c) + 1) % FrameCycle = n
    BY <1>6, <2>1, <2>2, ModBack DEF LastNo
  <2>6. Intact(c, t, Locked[c], surface[c], LastNo(c))
    BY <1>1, <2>3 DEF Tracked
  <2>7. Intact(c, ToTrack(c)', Locked'[c], surface'[c], LastNo(c)')
    <3>1. PICK locked \in [Surfaces -> {0, 1}], seen \in [Surfaces -> Pictures \cup {NoPicture}] :
            locked = Locked[c] /\ seen = surface[c]
      BY <1>2
    <3>2. PICK last : last = LastNo(c)
      OBVIOUS
    <3>3. /\ Intact(c, t, locked, seen, last) /\ locked[s] = 0
          /\ seen[s] = [channel |-> c, frameno |-> n] /\ (last + 1) % FrameCycle = n
      BY <2>2, <2>5, <2>6, <3>1, <3>2
    <3>4. Intact(c, Append(t, [bROIRrefresh |-> IsKey(n), pmfxSurface |-> s]),
                 [locked EXCEPT ![s] = 1], seen, n)
      BY <3>3, LockIntact
    <3> QED
      BY <2>2, <2>4, <2>5, <3>1, <3>4
  <2>8. Tracked(c)'
    BY <2>7 DEF Tracked
  <2>9. Carrying(c)'
    BY <1>1, <1>3, <2>2 DEF Carrying
  <2> QED
    BY <2>8, <2>9
<1>9. CASE StoreTrack(c)
  <2>1. /\ decoder[c] = "kcfstore" /\ decoder'[c] = "kcfpost"
        /\ kcfOut'[c] = Append(kcfOut[c], Newest(c))
        /\ UNCHANGED <<nFrame, nIndexVPP_In, Locked, surface>>
    BY <1>2, <1>9 DEF StoreTrack, DecoderAt, Newest
  <2>2. ToTrack(c)' = ToTrack(c)
    BY <1>9, StoreKeeps
  <2>3. LastNo(c)' = LastNo(c)
    BY <2>1 DEF LastNo
  <2>4. Carrying(c)'
    BY <1>1, <1>3, <2>1 DEF Carrying
  <2> QED
    BY <1>1, <2>1, <2>2, <2>3, <2>4, SameTracks
\* The next frame follows.
<1>10. ASSUME decoder[c] \in {"kcfpost", "post"}, decoder'[c] = "decode",
              nFrame'[c] = (nFrame[c] + 1) % FrameCycle,
              UNCHANGED <<Locked, surface, kcfOut>>
       PROVE  Carrying(c)' /\ Tracked(c)'
  <2>1. ToTrack(c)' = ToTrack(c)
    BY <1>5, <1>10 DEF Stored
  <2>2. LastNo(c) = nFrame[c] /\ LastNo(c)' = (((nFrame[c] + 1) % FrameCycle) + FrameCycle - 1) % FrameCycle
    BY <1>10 DEF LastNo
  <2>3. LastNo(c)' = LastNo(c)
    BY <1>6, <2>2, ModBack
  <2>4. Carrying(c)'
    BY <1>1, <1>3, <1>10 DEF Carrying
  <2> QED
    BY <1>1, <1>10, <2>1, <2>3, <2>4, SameTracks
\* The same frame.
<1>11. ASSUME decoder[c] \in {"kcfpost", "get", "store"}, decoder'[c] \in {"get", "store", "post"},
              IsKey(nFrame[c]),
              UNCHANGED <<nFrame, nIndexVPP_In, Locked, surface, kcfOut>>
       PROVE  Carrying(c)' /\ Tracked(c)'
  <2>1. ToTrack(c)' = ToTrack(c)
    BY <1>5, <1>11 DEF Stored
  <2>2. LastNo(c)' = LastNo(c)
    BY <1>11 DEF LastNo
  <2>3. Carrying(c)'
    BY <1>1, <1>3, <1>11 DEF Carrying
  <2> QED
    BY <1>1, <1>11, <2>1, <2>2, <2>3, SameTracks
<1>12. CASE AnnounceTrack(c)
  <2>1. CASE IsKey(nFrame[c])
    BY <1>2, <1>11, <1>12, <2>1 DEF AnnounceTrack, DecoderAt
  <2>2. CASE ~ IsKey(nFrame[c])
    BY <1>2, <1>10, <1>12, <2>2 DEF AnnounceTrack, DecoderAt, NextFrame
  <2> QED
    BY <2>1, <2>2
<1>13. CASE GetFrame(c)
  BY <1>1, <1>2, <1>11, <1>13 DEF GetFrame, DecoderAt, Carrying, kcfVars
<1>14. CASE StoreFrame(c)
  BY <1>1, <1>2, <1>11, <1>14 DEF StoreFrame, DecoderAt, Carrying, kcfVars
<1>15. CASE Announce(c)
  BY <1>2, <1>10, <1>15 DEF Announce, DecoderAt, NextFrame, kcfVars
<1> QED
  BY <1>7, <1>8, <1>9, <1>12, <1>13, <1>14, <1>15 DEF DecoderStep

(* What the tracker does to them: it takes the first into its hands, and   *)
(* drops it with the lock on its surface.                                  *)
LEMMA TrackerParts ==
  ASSUME KCFInv, NEW c \in Channels, TrackerStep(c)
  PROVE  /\ ToTrack(c) = Join(Join(InHand(c), kcfOut[c]), Stored(c))
         /\ ToTrack(c)' = Join(Join(InHand(c)', kcfOut'[c]), Stored(c))
         /\ Stored(c)' = Stored(c)
         /\ kcfOut[c] \in Seq(Tracks) /\ Stored(c) \in Seq(Tracks)
<1>1. UNCHANGED <<decoder, nFrame, nIndexVPP_In>>
  BY DEF TrackerStep, AwaitTrack, LoadTrack, AwaitResult, InitTargets, Update, Unlock, PutTrack,
     decVars
<1>2. Stored(c)' = Stored(c)
  BY <1>1 DEF Stored, Newest
<1>3. ToTrack(c)' = Join(Join(InHand(c)', kcfOut'[c]), Stored(c)')
  BY DEF ToTrack, Join, InHand, Stored, Newest
<1> QED
  BY <1>2, <1>3, ToTrackIs, PartTypes

LEMMA LoadKeeps ==
  ASSUME KCFInv, NEW c \in Channels, LoadTrack(c)
  PROVE  ToTrack(c)' = ToTrack(c)
<1>1. /\ ToTrack(c) = Join(Join(InHand(c), kcfOut[c]), Stored(c))
      /\ ToTrack(c)' = Join(Join(InHand(c)', kcfOut'[c]), Stored(c))
      /\ kcfOut[c] \in Seq(Tracks)
  BY TrackerParts DEF TrackerStep
<1>2. PICK h \in Tracks, q \in Seq(Tracks) :
        /\ h = Head(kcfOut[c]) /\ q = Tail(kcfOut[c])
        /\ Join(<<h>>, q) = kcfOut[c]
  <2>1. PICK k \in Seq(Tracks) : k = kcfOut[c] /\ k # <<>>
    BY <1>1 DEF LoadTrack
  <2>2. Head(k) \in Tracks /\ Tail(k) \in Seq(Tracks) /\ Join(<<Head(k)>>, Tail(k)) = k
    BY <2>1, HeadJoinTail
  <2> QED
    BY <2>1, <2>2
<1>3. /\ tracker[c] = "load"
      /\ tracker'[c] = (IF h.bROIRrefresh THEN "await" ELSE "update")
      /\ srcframe'[c] = h /\ kcfOut'[c] = q
  BY <1>2 DEF KCFInv, TypeOK, LoadTrack, TrackerAt
<1>4. InHand(c) = <<>> /\ InHand(c)' = <<h>>
  BY <1>3 DEF InHand
<1>5. Join(<<>>, kcfOut[c]) = kcfOut[c]
  BY <1>1, JoinEmpty
<1> QED
  BY <1>1, <1>2, <1>3, <1>4, <1>5

LEMMA HandKeeps ==
  ASSUME KCFInv, NEW c \in Channels,
         AwaitTrack(c) \/ AwaitResult(c) \/ InitTargets(c) \/ Update(c) \/ PutTrack(c)
  PROVE  ToTrack(c)' = ToTrack(c)
<1>1. /\ ToTrack(c) = Join(Join(InHand(c), kcfOut[c]), Stored(c))
      /\ ToTrack(c)' = Join(Join(InHand(c)', kcfOut'[c]), Stored(c))
  BY TrackerParts DEF TrackerStep
<1>2. kcfOut' = kcfOut
  BY DEF AwaitTrack, AwaitResult, InitTargets, Update, PutTrack, kcfVars
<1>3. tracker \in [Channels -> {"semwait", "load", "await", "init", "update", "unlock", "put"}]
  BY DEF KCFInv, TypeOK
<1>4. InHand(c)' = InHand(c)
  <2>1. CASE PutTrack(c)
    BY <1>3, <2>1 DEF PutTrack, TrackerAt, InHand
  <2>2. CASE AwaitTrack(c) \/ AwaitResult(c) \/ InitTargets(c) \/ Update(c)
    BY <1>3, <2>2 DEF AwaitTrack, AwaitResult, InitTargets, Update, TrackerAt, InHand
  <2> QED
    BY <2>1, <2>2
<1> QED
  BY <1>1, <1>2, <1>4

LEMMA UnlockTakes ==
  ASSUME KCFInv, NEW c \in Channels, Unlock(c)
  PROVE  /\ ToTrack(c) # <<>> /\ Head(ToTrack(c)) = srcframe[c]
         /\ srcframe[c] \in Tracks
         /\ ToTrack(c)' = Tail(ToTrack(c))
<1>1. /\ ToTrack(c)' = Join(Join(InHand(c)', kcfOut'[c]), Stored(c))
      /\ kcfOut[c] \in Seq(Tracks)
  BY TrackerParts DEF TrackerStep
<1>2. tracker[c] = "unlock" /\ tracker'[c] = "put" /\ kcfOut' = kcfOut
  BY DEF KCFInv, TypeOK, Unlock, TrackerAt, kcfVars
<1>3. InHand(c)' = <<>>
  BY <1>2 DEF InHand
<1>4. Join(<<>>, kcfOut[c]) = kcfOut[c]
  BY <1>1, JoinEmpty
<1>5. /\ ToTrack(c) # <<>> /\ Head(ToTrack(c)) = srcframe[c] /\ srcframe[c] \in Tracks
      /\ Tail(ToTrack(c)) = Join(kcfOut[c], Stored(c))
  BY <1>2, HandFirst
<1> QED
  BY <1>1, <1>2, <1>3, <1>4, <1>5

LEMMA TrackerTracks ==
  ASSUME KCFInv, NEW c \in Channels, TrackerStep(c)
  PROVE  Carrying(c)' /\ Tracked(c)'
<1>1. Carrying(c) /\ Tracked(c)
  BY DEF KCFInv
<1>2. /\ tracker \in [Channels -> {"semwait", "load", "await", "init", "update", "unlock", "put"}]
      /\ srcframe \in [Channels -> Tracks \cup {NoTrack}]
      /\ Locked \in [Channels -> [Surfaces -> {0, 1}]]
      /\ surface \in [Channels -> [Surfaces -> Pictures \cup {NoPicture}]]
      /\ kcfOut \in [Channels -> Seq(Tracks)]
  BY DEF KCFInv, TypeOK
<1>3. UNCHANGED <<decoder, nFrame, nIndexVPP_In, surface>>
  BY DEF TrackerStep, AwaitTrack, LoadTrack, AwaitResult, InitTargets, Update, Unlock, PutTrack,
     decVars
<1>4. LastNo(c)' = LastNo(c)
  BY <1>3 DEF LastNo
\* Nothing but the tracker's place changes.
<1>6. ASSUME UNCHANGED <<srcframe[c], Locked[c], kcfOut[c]>>,
             \/ /\ tracker[c] \in {"await", "init", "update"}
                /\ tracker'[c] \in {"init", "unlock"}
                /\ tracker'[c] = "init" => srcframe[c].bROIRrefresh
             \/ tracker[c] = "semwait" /\ tracker'[c] = "load",
             ToTrack(c)' = ToTrack(c)
      PROVE  Carrying(c)' /\ Tracked(c)'
  <2>1. Carrying(c)'
    BY <1>1, <1>3, <1>6 DEF Carrying
  <2> QED
    BY <1>1, <1>3, <1>4, <1>6, <2>1, SameTracks
<1>7. CASE AwaitTrack(c)
  BY <1>2, <1>6, <1>7, HandKeeps DEF AwaitTrack, TrackerAt, decVars
<1>8. CASE LoadTrack(c)
  <2>1. PICK h : h = Head(kcfOut[c])
    OBVIOUS
  <2>2. /\ tracker[c] = "load"
        /\ tracker'[c] = (IF h.bROIRrefresh THEN "await" ELSE "update")
        /\ srcframe'[c] = h /\ h \in Tracks /\ Locked'[c] = Locked[c]
    <3>1. kcfOut[c] \in Seq(Tracks) /\ kcfOut[c] # <<>>
      BY <1>2, <1>8 DEF LoadTrack
    <3>2. h \in Tracks
      BY <2>1, <3>1, HeadTailProperties
    <3> QED
      BY <1>2, <1>8, <2>1, <3>2 DEF LoadTrack, TrackerAt, decVars
  <2>5. ToTrack(c)' = ToTrack(c)
    BY <1>8, LoadKeeps
  <2>6. Carrying(c)'
    BY <1>1, <1>3, <2>2 DEF Carrying
  <2> QED
    BY <1>1, <1>3, <1>4, <2>2, <2>5, <2>6, SameTracks
<1>9. CASE AwaitResult(c)
  BY <1>1, <1>2, <1>6, <1>9, HandKeeps DEF AwaitResult, TrackerAt, Carrying, decVars, kcfVars
<1>10. CASE InitTargets(c)
  BY <1>2, <1>6, <1>10, HandKeeps DEF InitTargets, TrackerAt, decVars, kcfVars
<1>11. CASE Update(c)
  BY <1>2, <1>6, <1>11, HandKeeps DEF Update, TrackerAt, decVars, kcfVars
<1>12. CASE Unlock(c)
  <2>1. tracker[c] = "unlock" /\ tracker'[c] = "put"
    BY <1>2, <1>12 DEF Unlock, TrackerAt
  <2>2. /\ srcframe[c] \in Tracks
        /\ ToTrack(c) # <<>> /\ Head(ToTrack(c)) = srcframe[c]
        /\ Locked[c][srcframe[c].pmfxSurface] = 1
    BY <2>1, HandFirst
  <2>3. PICK s \in Surfaces : s = srcframe[c].pmfxSurface
    BY <2>2 DEF Tracks
  <2>4. /\ Locked'[c] = [Locked[c] EXCEPT ![s] = 0]
        /\ UNCHANGED <<srcframe, kcfOut>>
    <3>1. Locked' = [Locked EXCEPT ![c][s] = Locked[c][s] - 1] /\ UNCHANGED <<srcframe, kcfOut>>
      BY <1>12, <2>3 DEF Unlock, kcfVars
    <3> QED
      BY <1>2, <2>2, <2>3, <3>1
  <2>5. ToTrack(c)' = Tail(ToTrack(c))
    BY <1>12, UnlockTakes
  <2>6. Intact(c, Tail(ToTrack(c)), [Locked[c] EXCEPT ![s] = 0], surface[c], LastNo(c))
    <3>1. PICK locked \in [Surfaces -> {0, 1}], seen \in [Surfaces -> Pictures \cup {NoPicture}] :
            locked = Locked[c] /\ seen = surface[c]
      BY <1>2
    <3>2. PICK t : t = ToTrack(c)
      OBVIOUS
    <3>3. Intact(c, t, locked, seen, LastNo(c)) /\ t # <<>> /\ Head(t).pmfxSurface = s
      BY <1>1, <2>2, <2>3, <3>1, <3>2 DEF Tracked
    <3>4. Intact(c, Tail(t), [locked EXCEPT ![Head(t).pmfxSurface] = 0], seen, LastNo(c))
      BY <3>3, UnlockIntact
    <3> QED
      BY <3>1, <3>2, <3>3, <3>4
  <2>7. Tracked(c)'
    BY <1>3, <1>4, <2>4, <2>5, <2>6 DEF Tracked
  <2>8. Carrying(c)'
    BY <1>1, <1>2, <1>3, <2>1, <2>3, <2>4 DEF Carrying
  <2> QED
    BY <2>7, <2>8
<1>13. CASE PutTrack(c)
  <2>1. /\ tracker[c] = "put" /\ tracker'[c] = "load"
        /\ Locked'[c] = Locked[c] /\ kcfOut'[c] = kcfOut[c]
    BY <1>2, <1>13 DEF PutTrack, TrackerAt, decVars
  <2>3. ToTrack(c)' = ToTrack(c)
    BY <1>13, HandKeeps
  <2>4. Carrying(c)'
    BY <1>1, <1>3, <2>1 DEF Carrying
  <2> QED
    BY <1>1, <1>3, <1>4, <2>1, <2>3, <2>4, SameTracks
<1> QED
  BY <1>7, <1>8, <1>9, <1>10, <1>11, <1>12, <1>13 DEF TrackerStep

LEMMA KCFInit == Init => KCFInv
<1> SUFFICES ASSUME Init PROVE KCFInv
  OBVIOUS
<1>1. 1 \in Channels /\ 0 \in FrameNos /\ SEM_VALUE_MAX \in Nat
  BY KCFAssumption DEF Channels, FrameNos
<1>2. NumKCFBuffers \in Nat /\ NumBuffers \in Nat
  BY KCFAssumption
<1>3. TypeOK
  BY <1>1, <1>2, EmptySeq DEF Init, TypeOK, PerChannel
<1>4. Detecting
  BY DEF Init, Detecting
<1>5. ASSUME NEW c \in Channels PROVE Carrying(c) /\ Counted(c) /\ Tracked(c)
  <2>1. /\ decoder[c] = "decode" /\ tracker[c] = "semwait" /\ scheduler = "semwait"
        /\ kcfOut[c] = <<>> /\ out[c] = <<>>
        /\ kcfIdle[c] = NumKCFBuffers /\ idle[c] = NumBuffers
    BY DEF Init, PerChannel
  <2>2. Carrying(c)
    BY <2>1 DEF Carrying
  <2>3. Counted(c)
    BY <1>2, <2>1, EmptySeq DEF Counted, One
  <2>4. ToTrack(c) = <<>>
    <3>1. InHand(c) = <<>> /\ Stored(c) = <<>>
      BY <2>1 DEF InHand, Stored
    <3> QED
      BY <2>1, <3>1, ToTrackIs, JoinEmpty, EmptySeq
  <2>5. DOMAIN ToTrack(c) = {}
    <3>1. DOMAIN <<>> = {}
      OBVIOUS
    <3> QED
      BY <2>4, <3>1
  <2>5a. PICK t : t = ToTrack(c)
    OBVIOUS
  <2>6. Tracked(c)
    BY <2>5, <2>5a DEF Tracked, Intact, Distinct, AllLocked, Numbered
  <2> QED
    BY <2>2, <2>3, <2>6
<1> QED
  BY <1>3, <1>4, <1>5 DEF KCFInv

LEMMA KCFNext == KCFInv /\ [Next]_vars => KCFInv'
<1> SUFFICES ASSUME KCFInv, [Next]_vars PROVE KCFInv'
  OBVIOUS
<1>1. TypeOK /\ Detecting /\ \A c \in Channels : Carrying(c) /\ Counted(c) /\ Tracked(c)
  BY DEF KCFInv
<1>2. ASSUME NEW d \in Channels, DecoderStep(d) PROVE KCFInv'
  <2>1. TypeOK'
    BY <1>2, DecoderTypes
  <2>2. Detecting'
    BY <1>1, <1>2 DEF Detecting, schedVars, DecoderStep, Decode, GetTrack, StoreTrack,
       AnnounceTrack, GetFrame, StoreFrame, Announce
  <2>3. ASSUME NEW c \in Channels PROVE Carrying(c)' /\ Counted(c)' /\ Tracked(c)'
    <3>1. CASE c = d
      BY <1>2, <3>1, DecoderTracks, DecoderCounts
    <3>2. CASE c # d
      <4>1. UNCHANGED <<decoder[c], nFrame[c], nIndexVPP_In[c], Locked[c], surface[c],
                        kcfOut[c], tracker[c], srcframe[c]>>
        BY <1>1, <1>2, <3>2 DEF TypeOK, DecoderStep, Decode, GetTrack, StoreTrack,
           AnnounceTrack, GetFrame, StoreFrame, Announce, DecoderAt, NextFrame, kcfVars, trackVars
      <4> QED
        BY <1>1, <1>2, <4>1, Elsewhere, DecoderCounts
    <3> QED
      BY <3>1, <3>2
  <2> QED
    BY <2>1, <2>2, <2>3 DEF KCFInv
<1>3. ASSUME NEW d \in Channels, TrackerStep(d) PROVE KCFInv'
  <2>1. TypeOK'
    BY <1>3, TrackerTypes
  <2>2. Detecting'
    BY <1>1, <1>3 DEF Detecting, schedVars, TrackerStep, AwaitTrack, LoadTrack, AwaitResult,
       InitTargets, Update, Unlock, PutTrack
  <2>3. ASSUME NEW c \in Channels PROVE Carrying(c)' /\ Counted(c)' /\ Tracked(c)'
    <3>1. CASE c = d
      BY <1>3, <3>1, TrackerTracks, TrackerCounts
    <3>2. CASE c # d
      <4>1. UNCHANGED <<decoder[c], nFrame[c], nIndexVPP_In[c], Locked[c], surface[c],
                        kcfOut[c], tracker[c], srcframe[c]>>
        BY <1>1, <1>3, <3>2 DEF TypeOK, TrackerStep, AwaitTrack, LoadTrack, AwaitResult,
           InitTargets, Update, Unlock, PutTrack, TrackerAt, decVars, kcfVars
      <4> QED
        BY <1>1, <1>3, <4>1, Elsewhere, TrackerCounts
    <3> QED
      BY <3>1, <3>2
  <2> QED
    BY <2>1, <2>2, <2>3 DEF KCFInv
<1>4. CASE SchedulerStep
  <2>1. TypeOK' /\ Detecting'
    BY <1>4, SchedulerTypes
  <2>2. UNCHANGED <<decVars, kcfVars, trackVars>>
    BY <1>4 DEF SchedulerStep, AwaitTask, LoadFrame, PutFrame, InsertImage, PushResult, PostResult
  <2>3. ASSUME NEW c \in Channels PROVE Carrying(c)' /\ Counted(c)' /\ Tracked(c)'
    BY <1>1, <1>4, <2>2, Elsewhere, SchedulerCounts DEF decVars, kcfVars, trackVars
  <2> QED
    BY <2>1, <2>3 DEF KCFInv
<1>5. CASE UNCHANGED vars
  <2>1. TypeOK' /\ Detecting'
    BY <1>1, <1>5 DEF TypeOK, Detecting, vars, decVars, kcfVars, pipeVars, schedVars, resVars,
       trackVars
  <2>2. ASSUME NEW c \in Channels PROVE Carrying(c)' /\ Counted(c)' /\ Tracked(c)'
    BY <1>1, <1>5, Elsewhere DEF Counted, vars, decVars, kcfVars, pipeVars, schedVars, trackVars
  <2> QED
    BY <2>1, <2>2 DEF KCFInv
<1> QED
  BY <1>2, <1>3, <1>4, <1>5 DEF Next

-----------------------------------------------------------------------------
(* Results.                                                                *)

(* What concerns the results of one channel.                               *)
AnnouncedAt(c) ==
  gDetectResultAvaiable[c] + One(tracker[c] = "init")
      + One(scheduler = "postresult" /\ c = ResultChannel)
    <= Len(gDetectResultque[c])

LEMMA AnnouncedStays ==
  ASSUME NEW c \in Channels, AnnouncedAt(c),
         UNCHANGED <<gDetectResultAvaiable[c], gDetectResultque[c]>>,
         tracker'[c] = "init" <=> tracker[c] = "init",
         scheduler' = "postresult" <=> scheduler = "postresult"
  PROVE  AnnouncedAt(c)'
BY DEF AnnouncedAt, One

LEMMA ResultTypes ==
  ASSUME TypeOK, NEW c \in Channels
  PROVE  /\ gDetectResultAvaiable[c] \in Nat /\ gDetectResultque[c] \in Seq(Pictures)
         /\ Len(gDetectResultque[c]) \in Nat
<1>1. gDetectResultAvaiable[c] \in 0..SEM_VALUE_MAX /\ gDetectResultque[c] \in Seq(Pictures)
  BY DEF TypeOK
<1> QED
  BY <1>1, LenProperties

LEMMA AnnouncedInit == Init => Announced
<1> SUFFICES ASSUME Init, NEW c \in Channels
             PROVE  gDetectResultAvaiable[c] + One(tracker[c] = "init")
                        + One(scheduler = "postresult" /\ c = ResultChannel)
                      <= Len(gDetectResultque[c])
  BY DEF Announced
<1>1. /\ gDetectResultAvaiable[c] = 0 /\ tracker[c] = "semwait" /\ scheduler = "semwait"
      /\ gDetectResultque[c] = <<>>
  BY DEF Init, PerChannel
<1>2. Len(<<>>) = 0
  OBVIOUS
<1> QED
  BY <1>1, <1>2 DEF One

LEMMA TrackerAnnounced ==
  ASSUME KCFInv, NEW d \in Channels, TrackerStep(d), NEW c \in Channels, AnnouncedAt(c)
  PROVE  AnnouncedAt(c)'
<1>1. TypeOK
  BY DEF KCFInv
<1>2. scheduler' = scheduler
  BY DEF TrackerStep, AwaitTrack, LoadTrack, AwaitResult, InitTargets, Update, Unlock, PutTrack,
     schedVars
<1>3. One(scheduler = "postresult" /\ c = ResultChannel) \in {0, 1}
  BY OneType
<1>4. CASE c # d
  <2>1. /\ DOMAIN gDetectResultAvaiable = Channels /\ DOMAIN gDetectResultque = Channels
        /\ tracker \in [Channels -> {"semwait", "load", "await", "init", "update", "unlock", "put"}]
    BY <1>1 DEF TypeOK
  <2>2. tracker'[c] = tracker[c]
    BY <1>4, <2>1 DEF TrackerStep, AwaitTrack, LoadTrack, AwaitResult, InitTargets,
       Update, Unlock, PutTrack, TrackerAt
  <2>3. gDetectResultAvaiable'[c] = gDetectResultAvaiable[c]
    BY <1>4, <2>1 DEF TrackerStep, AwaitTrack, LoadTrack, AwaitResult, InitTargets,
       Update, Unlock, PutTrack, resVars
  <2>4. gDetectResultque'[c] = gDetectResultque[c]
    BY <1>4, <2>1 DEF TrackerStep, AwaitTrack, LoadTrack, AwaitResult, InitTargets,
       Update, Unlock, PutTrack, resVars
  <2> QED
    BY <1>2, <2>2, <2>3, <2>4, AnnouncedStays
<1>5. CASE c = d
  <2>1. CASE AwaitTrack(c) \/ LoadTrack(c) \/ Update(c) \/ Unlock(c) \/ PutTrack(c)
    <3>1. UNCHANGED resVars
      BY <2>1 DEF AwaitTrack, LoadTrack, Update, Unlock, PutTrack
    <3>2. tracker \in [Channels -> {"semwait", "load", "await", "init", "update", "unlock", "put"}]
      BY <1>1 DEF TypeOK
    <3>3. tracker'[c] # "init" /\ tracker[c] # "init"
      BY <2>1, <3>2 DEF AwaitTrack, LoadTrack, Update, Unlock, PutTrack, TrackerAt
    <3> QED
      BY <1>2, <3>1, <3>3, AnnouncedStays DEF resVars
  <2>2. CASE AwaitResult(c)
    <3>1. /\ gDetectResultAvaiable'[c] = gDetectResultAvaiable[c] - 1
          /\ gDetectResultque' = gDetectResultque
          /\ tracker[c] = "await" /\ tracker'[c] = "init"
      BY <1>1, <2>2 DEF TypeOK, AwaitResult, TrackerAt
    <3> QED
      BY <1>1, <1>2, <1>3, <3>1, ResultTypes DEF AnnouncedAt, One
  <2>3. CASE InitTargets(c)
    <3>1. gDetectResultAvaiable' = gDetectResultAvaiable /\ tracker[c] = "init" /\ tracker'[c] = "unlock"
      BY <1>1, <2>3 DEF TypeOK, InitTargets, TrackerAt
    <3>2. 1 + gDetectResultAvaiable[c] + One(scheduler = "postresult" /\ c = ResultChannel)
            <= Len(gDetectResultque[c])
      BY <1>1, <1>3, <3>1, ResultTypes DEF AnnouncedAt, One
    <3>3. gDetectResultque[c] # <<>>
      <4>1. Len(<<>>) = 0
        OBVIOUS
      <4> QED
        BY <1>1, <1>3, <3>2, <4>1, ResultTypes
    <3>4. gDetectResultque'[c] = Tail(gDetectResultque[c])
      BY <1>1, <2>3, <3>3 DEF TypeOK, InitTargets
    <3>5. Len(gDetectResultque'[c]) = Len(gDetectResultque[c]) - 1
      BY <1>1, <3>3, <3>4, ResultTypes, HeadTailProperties
    <3>6. /\ One(scheduler' = "postresult" /\ c = ResultChannel)
               = One(scheduler = "postresult" /\ c = ResultChannel)
          /\ One(tracker'[c] = "init") = 0
      BY <1>2, <3>1 DEF One
    <3>7. gDetectResultAvaiable'[c] + 0 + One(scheduler = "postresult" /\ c = ResultChannel)
            <= Len(gDetectResultque'[c])
      <4>1. /\ gDetectResultAvaiable[c] \in Nat /\ Len(gDetectResultque[c]) \in Nat
            /\ gDetectResultAvaiable'[c] = gDetectResultAvaiable[c]
        BY <1>1, <3>1, ResultTypes
      <4> QED
        BY <1>3, <3>2, <3>5, <4>1
    <3> QED
      BY <3>6, <3>7 DEF AnnouncedAt
  <2> QED
    BY <1>5, <2>1, <2>2, <2>3 DEF TrackerStep
<1> QED
  BY <1>4, <1>5

LEMMA SchedulerAnnounced ==
  ASSUME KCFInv, SchedulerStep, NEW c \in Channels, AnnouncedAt(c)
  PROVE  AnnouncedAt(c)'
<1>1. TypeOK /\ Detecting
  BY DEF KCFInv
<1>2. tracker' = tracker
  BY DEF SchedulerStep, AwaitTask, LoadFrame, PutFrame, InsertImage, PushResult, PostResult,
     trackVars
<1>3. One(tracker[c] = "init") \in {0, 1}
  BY OneType
<1>4. CASE AwaitTask \/ LoadFrame \/ PutFrame \/ InsertImage
  <2>1. /\ UNCHANGED resVars /\ scheduler # "postresult" /\ scheduler' # "postresult"
    BY <1>4 DEF AwaitTask, LoadFrame, PutFrame, InsertImage, NextPipe
  <2> QED
    BY <1>2, <2>1, AnnouncedStays DEF resVars
<1>5. CASE PushResult
  <2>1. scheduler = "result" /\ scheduler' = "postresult" /\ UNCHANGED gDetectResultAvaiable
    BY <1>5 DEF PushResult
  <2>2. CASE c # ResultChannel
    <3>1. gDetectResultque'[c] = gDetectResultque[c]
      BY <1>1, <1>5, <2>2 DEF PushResult, TypeOK
    <3> QED
      BY <1>2, <2>1, <2>2, <3>1 DEF AnnouncedAt, One
  <2>3. CASE c = ResultChannel
    <3>1. objects \in Seq(Pictures) /\ objects # <<>>
      BY <1>1, <2>1 DEF TypeOK, Detecting
    <3>2. PICK e \in Pictures : e = Head(objects)
      BY <3>1, HeadTailProperties
    <3>3. gDetectResultque'[c] = Append(gDetectResultque[c], e)
      BY <1>1, <1>5, <2>3, <3>2 DEF PushResult, TypeOK
    <3>4. Len(gDetectResultque'[c]) = Len(gDetectResultque[c]) + 1
      BY <1>1, <3>3, ResultTypes, AppendProperties
    <3> QED
      BY <1>1, <1>2, <1>3, <2>1, <2>3, <3>4, ResultTypes DEF AnnouncedAt, One
  <2> QED
    BY <2>2, <2>3
<1>6. CASE PostResult
  <2>1. scheduler = "postresult" /\ scheduler' # "postresult" /\ UNCHANGED gDetectResultque
    BY <1>6 DEF PostResult, NextPipe
  <2>2. CASE c # ResultChannel
    <3>1. gDetectResultAvaiable'[c] = gDetectResultAvaiable[c]
      BY <1>1, <1>6, <2>2 DEF PostResult, TypeOK
    <3> QED
      BY <1>2, <2>1, <2>2, <3>1 DEF AnnouncedAt, One
  <2>3. CASE c = ResultChannel
    <3>1. gDetectResultAvaiable'[c] = Posted(gDetectResultAvaiable[c])
      BY <1>1, <1>6, <2>3 DEF PostResult, TypeOK
    <3>2. gDetectResultAvaiable'[c] <= gDetectResultAvaiable[c] + 1 /\ gDetectResultAvaiable'[c] \in Nat
      BY <1>1, <3>1, ResultTypes DEF Posted
    <3> QED
      BY <1>1, <1>2, <1>3, <2>1, <2>3, <3>2, ResultTypes DEF AnnouncedAt, One
  <2> QED
    BY <2>2, <2>3
<1> QED
  BY <1>4, <1>5, <1>6 DEF SchedulerStep

LEMMA AnnouncedNext == KCFInv /\ Announced /\ [Next]_vars => Announced'
<1> SUFFICES ASSUME KCFInv, Announced, [Next]_vars, NEW c \in Channels PROVE AnnouncedAt(c)'
  BY DEF Announced, AnnouncedAt
<1>1. AnnouncedAt(c)
  BY DEF Announced, AnnouncedAt
<1>2. ASSUME NEW d \in Channels, DecoderStep(d) PROVE AnnouncedAt(c)'
  <2>1. UNCHANGED <<gDetectResultAvaiable, gDetectResultque, tracker, scheduler>>
    BY <1>2 DEF DecoderStep, Decode, GetTrack, StoreTrack, AnnounceTrack, GetFrame, StoreFrame,
       Announce, resVars, trackVars, schedVars
  <2> QED
    BY <1>1, <2>1, AnnouncedStays
<1>3. CASE UNCHANGED vars
  BY <1>1, <1>3, AnnouncedStays DEF vars, resVars, trackVars, schedVars
<1> QED
  BY <1>1, <1>2, <1>3, TrackerAnnounced, SchedulerAnnounced DEF Next

-----------------------------------------------------------------------------
LEMMA KCFInvariant == Spec => []KCFInv
<1> QED
  BY KCFInit, KCFNext, PTL DEF Spec

(* The threads' variables keep their types: no lock count of a surface     *)
(* leaves {0, 1}, and no pipe ever has more idle buffers than it has.      *)
THEOREM KCFTypes == Spec => []TypeOK
<1>1. KCFInv => TypeOK
  BY DEF KCFInv
<1> QED
  BY <1>1, KCFInvariant, PTL

(* The decoder, which reuses every surface that is not locked, never       *)
(* writes to one the tracker has still to look at: the tracker sees each   *)
(* frame once, in order, and takes exactly the key frames for key frames.  *)
THEOREM FramesStayIntact == Spec => []FramesIntact
<1>1. KCFInv => FramesIntact
  <2> SUFFICES ASSUME KCFInv, NEW c \in Channels
               PROVE  Numbered(c, ToTrack(c), surface[c], LastNo(c))
    BY DEF FramesIntact, Numbered
  <2> QED
    BY DEF KCFInv, Tracked, Intact
<1> QED
  BY <1>1, KCFInvariant, PTL

(* sem_wait(&gDetectResultAvaiable) returns only when the queue of results *)
(* has one: the scheduler stores a result before it announces it, for any  *)
(* size of a batch, and also when the semaphore stops counting.            *)
THEOREM ResultIsThere == Spec => []ResultThere
<1>1. KCFInv /\ Announced => ResultThere
  <2> SUFFICES ASSUME KCFInv, Announced, NEW c \in Channels
               PROVE  gDetectResultAvaiable[c] + (IF tracker[c] = "init" THEN 1 ELSE 0)
                        <= Len(gDetectResultque[c])
    BY DEF ResultThere
  <2>1. TypeOK
    BY DEF KCFInv
  <2>2. One(tracker[c] = "init") \in {0, 1}
        /\ One(scheduler = "postresult" /\ c = ResultChannel) \in {0, 1}
    BY OneType
  <2>3. gDetectResultAvaiable[c] + One(tracker[c] = "init") <= Len(gDetectResultque[c])
    BY <2>1, <2>2, ResultTypes DEF Announced
  <2> QED
    BY <2>3 DEF One
<1> QED
  BY <1>1, AnnouncedInit, AnnouncedNext, KCFInvariant, PTL DEF Spec

-----------------------------------------------------------------------------
(* The pictures of the key frames among tracks.                            *)

\* What a list of pictures has to be for at to say where their tracks are.
Selects(at, pictures, tracks, seen) ==
  /\ at \in [DOMAIN pictures -> DOMAIN tracks]
  /\ \A j, k \in DOMAIN pictures : j < k => at[j] < at[k]
  /\ \A i \in DOMAIN tracks :
       tracks[i].bROIRrefresh <=> \E k \in DOMAIN pictures : at[k] = i
  /\ \A k \in DOMAIN pictures : pictures[k] = seen[tracks[at[k]].pmfxSurface]

LEMMA SelectsIs ==
  ASSUME NEW p, NEW t, NEW seen
  PROVE  PicturesOfKeys(p, t, seen) <=> \E at : Selects(at, p, t, seen)
BY DEF PicturesOfKeys, Selects

(* Only what is in the surfaces of the tracks matters.                     *)
LEMMA KeysElsewhere ==
  ASSUME NEW p, NEW t, NEW seen, NEW other, PicturesOfKeys(p, t, seen),
         \A i \in DOMAIN t : other[t[i].pmfxSurface] = seen[t[i].pmfxSurface]
  PROVE  PicturesOfKeys(p, t, other)
BY DEF PicturesOfKeys

(* One more track: of a key frame, with its picture, or of another frame.  *)
LEMMA KeyAppended ==
  ASSUME NEW p \in Seq(Pictures), NEW t \in Seq(Tracks), NEW seen,
         NEW e \in Tracks, e.bROIRrefresh, NEW x \in Pictures, x = seen[e.pmfxSurface],
         PicturesOfKeys(p, t, seen)
  PROVE  PicturesOfKeys(Append(p, x), Append(t, e), seen)
<1>1. PICK at : Selects(at, p, t, seen)
  BY SelectsIs
<1>2. PICK n \in Nat, m \in Nat : n = Len(p) /\ m = Len(t)
  BY LenProperties
<1>3. DOMAIN p = 1..n /\ DOMAIN t = 1..m
  BY <1>2, LenProperties
<1>4. PICK q : q = Append(p, x)
  OBVIOUS
<1>5. PICK u : u = Append(t, e)
  OBVIOUS
<1>6. DOMAIN q = 1..(n + 1) /\ (\A k \in 1..n : q[k] = p[k]) /\ q[n + 1] = x
  BY <1>2, <1>4, AppendProperties, LenProperties
<1>7. DOMAIN u = 1..(m + 1) /\ (\A i \in 1..m : u[i] = t[i]) /\ u[m + 1] = e
  BY <1>2, <1>5, AppendProperties, LenProperties
<1>8. /\ at \in [1..n -> 1..m]
      /\ \A j, k \in 1..n : j < k => at[j] < at[k]
      /\ \A i \in 1..m : t[i].bROIRrefresh <=> \E k \in 1..n : at[k] = i
      /\ \A k \in 1..n : p[k] = seen[t[at[k]].pmfxSurface]
  BY <1>1, <1>3 DEF Selects
<1>9. PICK to : to = [k \in 1..(n + 1) |-> IF k = n + 1 THEN m + 1 ELSE at[k]]
  OBVIOUS
<1>10. /\ to[n + 1] = m + 1 /\ \A k \in 1..n : to[k] = at[k] /\ at[k] \in 1..m
       /\ to \in [1..(n + 1) -> 1..(m + 1)]
  BY <1>8, <1>9
<1>11. ASSUME NEW j \in 1..(n + 1), NEW k \in 1..(n + 1), j < k
       PROVE  to[j] < to[k]
  <2>1. j \in 1..n /\ to[j] = at[j] /\ at[j] \in 1..m
    BY <1>10, <1>11
  <2>2. CASE k = n + 1
    BY <1>10, <2>1, <2>2
  <2>3. CASE k \in 1..n
    <3>1. at[j] < at[k] /\ to[k] = at[k]
      BY <1>8, <1>10, <1>11, <2>1, <2>3
    <3> QED
      BY <2>1, <3>1
  <2> QED
    BY <2>2, <2>3
<1>12. ASSUME NEW i \in 1..(m + 1)
       PROVE  u[i].bROIRrefresh <=> \E k \in 1..(n + 1) : to[k] = i
  <2>1. CASE i = m + 1
    BY <1>7, <1>10, <2>1
  <2>2. CASE i \in 1..m
    <3>1. u[i] = t[i] /\ (t[i].bROIRrefresh <=> \E k \in 1..n : at[k] = i)
      BY <1>7, <1>8, <2>2
    <3>2. to[n + 1] # i /\ \A k \in 1..n : to[k] = at[k] /\ k \in 1..(n + 1)
      BY <1>10, <2>2
    <3>3. ASSUME NEW k \in 1..(n + 1), to[k] = i PROVE k \in 1..n
      <4>1. k # n + 1
        BY <3>2, <3>3
      <4> QED
        BY <4>1
    <3>4. (\E k \in 1..(n + 1) : to[k] = i) <=> \E k \in 1..n : at[k] = i
      BY <3>2, <3>3
    <3> QED
      BY <3>1, <3>4
  <2> QED
    BY <2>1, <2>2
<1>13. ASSUME NEW k \in 1..(n + 1)
       PROVE  q[k] = seen[u[to[k]].pmfxSurface]
  <2>1. CASE k = n + 1
    BY <1>6, <1>7, <1>10, <2>1
  <2>2. CASE k \in 1..n
    <3>1. q[k] = p[k] /\ to[k] = at[k] /\ at[k] \in 1..m
      BY <1>6, <1>10, <2>2
    <3>2. u[at[k]] = t[at[k]]
      BY <1>7, <3>1
    <3>3. p[k] = seen[t[at[k]].pmfxSurface]
      BY <1>8, <2>2
    <3> QED
      BY <3>1, <3>2, <3>3
  <2> QED
    BY <2>1, <2>2
<1>14. Selects(to, q, u, seen)
  BY <1>6, <1>7, <1>10, <1>11, <1>12, <1>13 DEF Selects
<1> QED
  BY <1>4, <1>5, <1>14, SelectsIs

LEMMA OtherAppended ==
  ASSUME NEW p \in Seq(Pictures), NEW t \in Seq(Tracks), NEW seen,
         NEW e \in Tracks, ~ e.bROIRrefresh, PicturesOfKeys(p, t, seen)
  PROVE  PicturesOfKeys(p, Append(t, e), seen)
<1>1. PICK at : Selects(at, p, t, seen)
  BY SelectsIs
<1>2. PICK n \in Nat, m \in Nat : n = Len(p) /\ m = Len(t)
  BY LenProperties
<1>3. DOMAIN p = 1..n /\ DOMAIN t = 1..m
  BY <1>2, LenProperties
<1>4. PICK u : u = Append(t, e)
  OBVIOUS
<1>5. DOMAIN u = 1..(m + 1) /\ (\A i \in 1..m : u[i] = t[i]) /\ u[m + 1] = e
  BY <1>2, <1>4, AppendProperties, LenProperties
<1>6. /\ at \in [1..n -> 1..m]
      /\ \A j, k \in 1..n : j < k => at[j] < at[k]
      /\ \A i \in 1..m : t[i].bROIRrefresh <=> \E k \in 1..n : at[k] = i
      /\ \A k \in 1..n : p[k] = seen[t[at[k]].pmfxSurface]
  BY <1>1, <1>3 DEF Selects
<1>7. at \in [1..n -> 1..(m + 1)]
  BY <1>6
<1>8. ASSUME NEW i \in 1..(m + 1)
      PROVE  u[i].bROIRrefresh <=> \E k \in 1..n : at[k] = i
  <2>1. CASE i = m + 1
    BY <1>5, <1>6, <2>1
  <2>2. CASE i \in 1..m
    BY <1>5, <1>6, <2>2
  <2> QED
    BY <2>1, <2>2
<1>9. \A k \in 1..n : p[k] = seen[u[at[k]].pmfxSurface]
  BY <1>5, <1>6
<1>10. Selects(at, p, u, seen)
  BY <1>3, <1>5, <1>6, <1>7, <1>8, <1>9 DEF Selects
<1> QED
  BY <1>4, <1>10, SelectsIs

(* The first track is that of a key frame: so is the first picture.        *)
LEMMA KeyTaken ==
  ASSUME NEW p \in Seq(Pictures), NEW t \in Seq(Tracks), NEW seen,
         t # <<>>, Head(t).bROIRrefresh, PicturesOfKeys(p, t, seen)
  PROVE  /\ p # <<>> /\ Head(p) = seen[Head(t).pmfxSurface]
         /\ PicturesOfKeys(Tail(p), Tail(t), seen)
<1>1. PICK at : Selects(at, p, t, seen)
  BY SelectsIs
<1>2. PICK n \in Nat, m \in Nat : n = Len(p) /\ m = Len(t)
  BY LenProperties
<1>3. DOMAIN p = 1..n /\ DOMAIN t = 1..m /\ m > 0
  BY <1>2, LenProperties, EmptySeq
<1>4. /\ at \in [1..n -> 1..m]
      /\ \A j, k \in 1..n : j < k => at[j] < at[k]
      /\ \A i \in 1..m : t[i].bROIRrefresh <=> \E k \in 1..n : at[k] = i
      /\ \A k \in 1..n : p[k] = seen[t[at[k]].pmfxSurface]
  BY <1>1, <1>3 DEF Selects
<1>5. Head(t) = t[1] /\ 1 \in 1..m
  BY <1>3, HeadTailProperties
<1>6. PICK f \in 1..n : at[f] = 1
  BY <1>4, <1>5
<1>7. 1 \in 1..n /\ at[1] = 1
  <2>1. f = 1
    <3> SUFFICES ASSUME f # 1 PROVE FALSE
      OBVIOUS
    <3>1. 1 \in 1..n /\ 1 < f
      BY <1>6
    <3>2. at[1] < at[f] /\ at[1] \in 1..m
      BY <1>4, <3>1
    <3> QED
      BY <1>6, <3>2
  <2> QED
    BY <1>6, <2>1
<1>8. \A k \in 2..n : k \in 1..n /\ at[k] \in 2..m
  <2> SUFFICES ASSUME NEW k \in 2..n PROVE k \in 1..n /\ at[k] \in 2..m
    OBVIOUS
  <2>1. k \in 1..n /\ 1 < k
    OBVIOUS
  <2>2. at[1] < at[k] /\ at[k] \in 1..m
    BY <1>4, <1>7, <2>1
  <2> QED
    BY <1>7, <2>1, <2>2
<1>9. p # <<>>
  BY <1>2, <1>7, EmptySeq
<1>10. Head(p) = p[1]
  BY <1>9, HeadTailProperties
<1>11. PICK q : q = Tail(p)
  OBVIOUS
<1>12. PICK u : u = Tail(t)
  OBVIOUS
<1>13. DOMAIN q = 1..(n - 1) /\ \A k \in 1..(n - 1) : q[k] = p[k + 1]
  <2>1. q \in Seq(Pictures) /\ Len(q) = n - 1 /\ \A k \in 1..(n - 1) : q[k] = p[k + 1]
    BY <1>2, <1>9, <1>11, HeadTailProperties
  <2> QED
    BY <2>1, LenProperties
<1>14. DOMAIN u = 1..(m - 1) /\ \A i \in 1..(m - 1) : u[i] = t[i + 1]
  <2>1. u \in Seq(Tracks) /\ Len(u) = m - 1 /\ \A i \in 1..(m - 1) : u[i] = t[i + 1]
    BY <1>2, <1>12, HeadTailProperties
  <2> QED
    BY <2>1, LenProperties
<1>15. PICK to : to = [k \in 1..(n - 1) |-> at[k + 1] - 1]
  OBVIOUS
<1>16. \A k \in 1..(n - 1) : k + 1 \in 2..n
  OBVIOUS
<1>17. \A k \in 1..(n - 1) : to[k] = at[k + 1] - 1 /\ to[k] \in 1..(m - 1) /\ to[k] + 1 = at[k + 1]
  <2> SUFFICES ASSUME NEW k \in 1..(n - 1)
               PROVE  to[k] = at[k + 1] - 1 /\ to[k] \in 1..(m - 1) /\ to[k] + 1 = at[k + 1]
    OBVIOUS
  <2>1. to[k] = at[k + 1] - 1
    BY <1>15
  <2>a. \A y \in 2..m : y - 1 \in 1..(m - 1) /\ (y - 1) + 1 = y
    OBVIOUS
  <2>2. PICK y \in 2..m : y = at[k + 1]
    BY <1>8, <1>16
  <2>3. y - 1 \in 1..(m - 1) /\ (y - 1) + 1 = y
    BY <2>a
  <2> QED
    BY <2>1, <2>2, <2>3
<1>18. to \in [1..(n - 1) -> 1..(m - 1)]
  BY <1>15, <1>17
<1>19. ASSUME NEW j \in 1..(n - 1), NEW k \in 1..(n - 1), j < k
       PROVE  to[j] < to[k]
  <2>1. j + 1 \in 1..n /\ k + 1 \in 1..n /\ j + 1 < k + 1
    BY <1>19
  <2>2. at[j + 1] < at[k + 1] /\ at[j + 1] \in 1..m /\ at[k + 1] \in 1..m
    BY <1>4, <2>1
  <2> QED
    BY <1>17, <2>2
<1>20. ASSUME NEW i \in 1..(m - 1)
       PROVE  u[i].bROIRrefresh <=> \E k \in 1..(n - 1) : to[k] = i
  <2>1. i + 1 \in 1..m /\ u[i] = t[i + 1]
    BY <1>14
  <2>2. t[i + 1].bROIRrefresh <=> \E k \in 1..n : at[k] = i + 1
    BY <1>4, <2>1
  <2>3. ASSUME NEW k \in 1..n, at[k] = i + 1 PROVE \E l \in 1..(n - 1) : to[l] = i
    <3>1. k # 1
      BY <1>7, <2>3
    <3>2. PICK l \in 1..(n - 1) : l + 1 = k
      BY <3>1
    <3>3. to[l] = at[k] - 1
      BY <1>17, <3>2
    <3>4. to[l] = i
      BY <2>3, <3>3
    <3> QED
      BY <3>4
  <2>4. ASSUME NEW k \in 1..(n - 1), to[k] = i PROVE \E l \in 1..n : at[l] = i + 1
    <3>1. k + 1 \in 1..n /\ at[k + 1] = i + 1
      BY <1>17, <2>4
    <3> QED
      BY <3>1
  <2> QED
    BY <2>1, <2>2, <2>3, <2>4
<1>21. ASSUME NEW k \in 1..(n - 1)
       PROVE  q[k] = seen[u[to[k]].pmfxSurface]
  <2>1. k + 1 \in 1..n /\ q[k] = p[k + 1]
    BY <1>13
  <2>2. p[k + 1] = seen[t[at[k + 1]].pmfxSurface]
    BY <1>4, <2>1
  <2>3. u[to[k]] = t[at[k + 1]]
    BY <1>14, <1>17
  <2> QED
    BY <2>1, <2>2, <2>3
<1>22. Selects(to, q, u, seen)
  BY <1>13, <1>14, <1>18, <1>19, <1>20, <1>21 DEF Selects
<1>23. PicturesOfKeys(Tail(p), Tail(t), seen)
  BY <1>11, <1>12, <1>22, SelectsIs
<1> QED
  BY <1>4, <1>5, <1>7, <1>9, <1>10, <1>23

(* The first track is not that of a key frame.                             *)
LEMMA OtherTaken ==
  ASSUME NEW p \in Seq(Pictures), NEW t \in Seq(Tracks), NEW seen,
         t # <<>>, ~ Head(t).bROIRrefresh, PicturesOfKeys(p, t, seen)
  PROVE  PicturesOfKeys(p, Tail(t), seen)
<1>1. PICK at : Selects(at, p, t, seen)
  BY SelectsIs
<1>2. PICK n \in Nat, m \in Nat : n = Len(p) /\ m = Len(t)
  BY LenProperties
<1>3. DOMAIN p = 1..n /\ DOMAIN t = 1..m /\ m > 0
  BY <1>2, LenProperties, EmptySeq
<1>4. /\ at \in [1..n -> 1..m]
      /\ \A j, k \in 1..n : j < k => at[j] < at[k]
      /\ \A i \in 1..m : t[i].bROIRrefresh <=> \E k \in 1..n : at[k] = i
      /\ \A k \in 1..n : p[k] = seen[t[at[k]].pmfxSurface]
  BY <1>1, <1>3 DEF Selects
<1>5. Head(t) = t[1] /\ 1 \in 1..m
  BY <1>3, HeadTailProperties
<1>6. \A k \in 1..n : at[k] \in 2..m
  <2> SUFFICES ASSUME NEW k \in 1..n PROVE at[k] \in 2..m
    OBVIOUS
  <2>1. at[k] \in 1..m
    BY <1>4
  <2>2. at[k] # 1
    BY <1>4, <1>5
  <2> QED
    BY <2>1, <2>2
<1>7. PICK u : u = Tail(t)
  OBVIOUS
<1>8. DOMAIN u = 1..(m - 1) /\ \A i \in 1..(m - 1) : u[i] = t[i + 1]
  <2>1. u \in Seq(Tracks) /\ Len(u) = m - 1 /\ \A i \in 1..(m - 1) : u[i] = t[i + 1]
    BY <1>2, <1>7, HeadTailProperties
  <2> QED
    BY <2>1, LenProperties
<1>9. PICK to : to = [k \in 1..n |-> at[k] - 1]
  OBVIOUS
<1>10. \A k \in 1..n : to[k] = at[k] - 1 /\ to[k] \in 1..(m - 1) /\ to[k] + 1 = at[k]
  <2> SUFFICES ASSUME NEW k \in 1..n
               PROVE  to[k] = at[k] - 1 /\ to[k] \in 1..(m - 1) /\ to[k] + 1 = at[k]
    OBVIOUS
  <2>1. PICK y \in 2..m : y = at[k]
    BY <1>6
  <2>2. y - 1 \in 1..(m - 1) /\ (y - 1) + 1 = y
    BY <1>2, <2>1
  <2> QED
    BY <1>9, <2>1, <2>2
<1>11. to \in [1..n -> 1..(m - 1)]
  BY <1>9, <1>10
<1>12. ASSUME NEW j \in 1..n, NEW k \in 1..n, j < k
       PROVE  to[j] < to[k]
  BY <1>4, <1>6, <1>10, <1>12
<1>13. ASSUME NEW i \in 1..(m - 1)
       PROVE  u[i].bROIRrefresh <=> \E k \in 1..n : to[k] = i
  <2>1. i + 1 \in 1..m /\ u[i] = t[i + 1]
    BY <1>8
  <2>2. t[i + 1].bROIRrefresh <=> \E k \in 1..n : at[k] = i + 1
    BY <1>4, <2>1
  <2>3. \A k \in 1..n : at[k] = i + 1 <=> to[k] = i
    <3> SUFFICES ASSUME NEW k \in 1..n PROVE at[k] = i + 1 <=> to[k] = i
      OBVIOUS
    <3>a. \A y \in 1..(m - 1) : y + 1 = i + 1 <=> y = i
      OBVIOUS
    <3>1. PICK y \in 1..(m - 1) : y = to[k] /\ y + 1 = at[k]
      BY <1>10
    <3>2. y + 1 = i + 1 <=> y = i
      BY <3>a
    <3> QED
      BY <3>1, <3>2
  <2> QED
    BY <2>1, <2>2, <2>3
<1>14. ASSUME NEW k \in 1..n
       PROVE  p[k] = seen[u[to[k]].pmfxSurface]
  <2>1. p[k] = seen[t[at[k]].pmfxSurface]
    BY <1>4
  <2>2. u[to[k]] = t[at[k]]
    BY <1>8, <1>10
  <2> QED
    BY <2>1, <2>2
<1>15. Selects(to, p, u, seen)
  BY <1>3, <1>8, <1>11, <1>12, <1>13, <1>14 DEF Selects
<1> QED
  BY <1>7, <1>15, SelectsIs

-----------------------------------------------------------------------------
(* The frames whose boxes the tracker has not looked at yet.               *)

LEMMA TailAppended ==
  ASSUME NEW S, NEW t \in Seq(S), NEW e \in S, t # <<>>
  PROVE  Tail(Append(t, e)) = Append(Tail(t), e)
<1>1. PICK h \in S, r \in Seq(S) : h = Head(t) /\ r = Tail(t) /\ Join(<<h>>, r) = t
  BY HeadJoinTail
<1>2. PICK one \in Seq(S) : one = <<e>>
  BY SingletonList
<1>3. PICK first \in Seq(S) : first = <<h>>
  BY SingletonList
<1>4. Join(Join(first, r), one) = Join(first, Join(r, one)) /\ Join(r, one) \in Seq(S)
  BY JoinAssociative, JoinType
<1>5. Tail(Join(first, Join(r, one))) = Join(r, one)
  BY <1>3, <1>4, JoinFirst
<1>6. Append(t, e) = Join(t, one) /\ Append(r, e) = Join(r, one)
  BY <1>2, JoinOne
<1> QED
  BY <1>1, <1>3, <1>4, <1>5, <1>6

LEMMA DecoderKeeps ==
  ASSUME KCFInv, NEW c \in Channels,
         Decode(c) \/ AnnounceTrack(c) \/ GetFrame(c) \/ StoreFrame(c) \/ Announce(c)
  PROVE  ToTrack(c)' = ToTrack(c)
<1>1. /\ ToTrack(c) = Join(Join(InHand(c), kcfOut[c]), Stored(c))
      /\ ToTrack(c)' = Join(Join(InHand(c), kcfOut'[c]), Stored(c)')
  BY DecoderParts DEF DecoderStep
<1>2. decoder \in [Channels -> {"decode", "kcfget", "kcfstore", "kcfpost", "get", "store", "post"}]
  BY DEF KCFInv, TypeOK
<1>3. decoder[c] # "kcfstore" /\ decoder'[c] # "kcfstore" /\ kcfOut' = kcfOut
  BY <1>2 DEF Decode, AnnounceTrack, GetFrame, StoreFrame, Announce, DecoderAt, kcfVars
<1> QED
  BY <1>1, <1>3 DEF Stored

LEMMA WaitingKept ==
  ASSUME NEW c \in Channels, ToTrack(c)' = ToTrack(c),
         tracker'[c] = "unlock" <=> tracker[c] = "unlock"
  PROVE  Waiting(c)' = Waiting(c)
BY DEF Waiting

LEMMA DecoderWaits ==
  ASSUME KCFInv, NEW c \in Channels, DecoderStep(c)
  PROVE  /\ Waiting(c) \in Seq(Tracks)
         /\ ~ GetTrack(c) => Waiting(c)' = Waiting(c)
         /\ GetTrack(c) => /\ Newest(c) \in Tracks
                           /\ Waiting(c)' = Append(Waiting(c), Newest(c))
<1>1. tracker' = tracker
  BY DEF DecoderStep, Decode, GetTrack, StoreTrack, AnnounceTrack, GetFrame, StoreFrame,
     Announce, trackVars
<1>2. PICK t \in Seq(Tracks) : t = ToTrack(c)
  BY PartTypes
<1>3. tracker[c] = "unlock" => t # <<>>
  BY <1>2, HandFirst
<1>4. Waiting(c) \in Seq(Tracks)
  BY <1>2, <1>3, HeadTailProperties DEF Waiting
<1>5. ASSUME ~ GetTrack(c) PROVE Waiting(c)' = Waiting(c)
  <2>1. ToTrack(c)' = ToTrack(c)
    BY <1>5, DecoderKeeps, StoreKeeps DEF DecoderStep
  <2> QED
    BY <1>1, <2>1, WaitingKept
<1>6. ASSUME GetTrack(c)
      PROVE  Newest(c) \in Tracks /\ Waiting(c)' = Append(Waiting(c), Newest(c))
  <2>1. PICK e \in Tracks : e = Newest(c)
    BY <1>6, GetAppends
  <2>2. ToTrack(c)' = Append(t, e)
    BY <1>2, <1>6, <2>1, GetAppends
  <2>3. CASE tracker[c] = "unlock"
    <3>1. Tail(Append(t, e)) = Append(Tail(t), e)
      BY <1>3, <2>3, TailAppended
    <3> QED
      BY <1>1, <1>2, <2>1, <2>2, <2>3, <3>1 DEF Waiting
  <2>4. CASE tracker[c] # "unlock"
    BY <1>1, <1>2, <2>1, <2>2, <2>4 DEF Waiting
  <2> QED
    BY <2>1, <2>3, <2>4
<1> QED
  BY <1>4, <1>5, <1>6

LEMMA TrackerWaits ==
  ASSUME KCFInv, NEW c \in Channels, TrackerStep(c)
  PROVE  /\ Waiting(c) \in Seq(Tracks)
         /\ ~ (InitTargets(c) \/ Update(c)) => Waiting(c)' = Waiting(c)
         /\ InitTargets(c) \/ Update(c) =>
              /\ Waiting(c) # <<>> /\ Head(Waiting(c)) = srcframe[c]
              /\ Waiting(c)' = Tail(Waiting(c))
<1>1. PICK t \in Seq(Tracks) : t = ToTrack(c)
  BY PartTypes
<1>2. tracker[c] = "unlock" => t # <<>>
  BY <1>1, HandFirst
<1>3. Waiting(c) \in Seq(Tracks)
  BY <1>1, <1>2, HeadTailProperties DEF Waiting
<1>4. tracker \in [Channels -> {"semwait", "load", "await", "init", "update", "unlock", "put"}]
  BY DEF KCFInv, TypeOK
<1>5. CASE AwaitTrack(c) \/ AwaitResult(c) \/ PutTrack(c) \/ LoadTrack(c)
  <2>1. ToTrack(c)' = ToTrack(c)
    BY <1>5, HandKeeps, LoadKeeps
  <2>2. tracker[c] # "unlock" /\ tracker'[c] # "unlock"
    BY <1>4, <1>5 DEF AwaitTrack, AwaitResult, PutTrack, LoadTrack, TrackerAt
  <2>3. ~ (InitTargets(c) \/ Update(c))
    BY <1>4, <1>5 DEF AwaitTrack, AwaitResult, PutTrack, LoadTrack, TrackerAt, InitTargets, Update
  <2> QED
    BY <1>3, <2>1, <2>2, <2>3, WaitingKept
<1>6. CASE Unlock(c)
  <2>1. tracker[c] = "unlock" /\ tracker'[c] = "put"
    BY <1>4, <1>6 DEF Unlock, TrackerAt
  <2>2. ToTrack(c)' = Tail(ToTrack(c))
    BY <1>6, UnlockTakes
  <2>3. Waiting(c)' = Waiting(c)
    BY <2>1, <2>2 DEF Waiting
  <2>4. ~ (InitTargets(c) \/ Update(c))
    BY <2>1 DEF TrackerAt, InitTargets, Update
  <2> QED
    BY <1>3, <2>3, <2>4
<1>7. CASE InitTargets(c) \/ Update(c)
  <2>1. tracker[c] \in {"init", "update"} /\ tracker'[c] = "unlock"
    BY <1>4, <1>7 DEF InitTargets, Update, TrackerAt
  <2>2. ToTrack(c)' = ToTrack(c)
    BY <1>7, HandKeeps
  <2>3. ToTrack(c) # <<>> /\ Head(ToTrack(c)) = srcframe[c]
    BY <2>1, HandFirst
  <2>4. Waiting(c) = ToTrack(c) /\ Waiting(c)' = Tail(ToTrack(c))
    BY <2>1, <2>2 DEF Waiting
  <2> QED
    BY <1>3, <1>7, <2>3, <2>4
<1> QED
  BY <1>5, <1>6, <1>7 DEF TrackerStep

-----------------------------------------------------------------------------
(* Pictures on their way.                                                  *)

\* Their parts, and where they lead: to the queue of results.
Ready == IF scheduler = "postresult" THEN Tail(objects) ELSE objects
AtScheduler == IF scheduler \in {"put", "insert"} THEN <<frame>> ELSE <<>>
AtDecoder(c) ==
  IF IsKey(nFrame[c]) /\ decoder[c] \in {"kcfstore", "kcfpost", "get", "store"}
    THEN <<surface[c][nIndexVPP_In[c]]>> ELSE <<>>
Ahead(c) == Join(Join(Join(Join(Ready, imginfoque_), AtScheduler), out[c]), AtDecoder(c))

LEMMA ComingIs ==
  ASSUME NEW c \in Channels
  PROVE  Coming(c) =
           Join(Join(Join(Join(Join(gDetectResultque[c], Ready), imginfoque_), AtScheduler),
                     out[c]), AtDecoder(c))
BY DEF Coming, Join, Ready, AtScheduler, AtDecoder

LEMMA ComingTypes ==
  ASSUME KCFInv, NEW c \in Channels
  PROVE  /\ gDetectResultque[c] \in Seq(Pictures) /\ Ready \in Seq(Pictures)
         /\ imginfoque_ \in Seq(Pictures) /\ AtScheduler \in Seq(Pictures)
         /\ out[c] \in Seq(Pictures) /\ AtDecoder(c) \in Seq(Pictures)
<1>1. TypeOK /\ Detecting /\ Carrying(c)
  BY DEF KCFInv
<1>2. /\ gDetectResultque[c] \in Seq(Pictures) /\ imginfoque_ \in Seq(Pictures)
      /\ out[c] \in Seq(Pictures) /\ objects \in Seq(Pictures) /\ nFrame[c] \in FrameNos
  BY <1>1 DEF TypeOK
<1>3. Ready \in Seq(Pictures)
  BY <1>1, <1>2, HeadTailProperties DEF Ready, Detecting
<1>4. AtScheduler \in Seq(Pictures)
  BY <1>1, EmptySeq, SingletonList DEF AtScheduler, Detecting
<1>5. decoder[c] # "decode" => surface[c][nIndexVPP_In[c]] \in Pictures
  BY <1>1, <1>2 DEF Carrying, Pictures
<1>6. AtDecoder(c) \in Seq(Pictures)
  BY <1>5, EmptySeq, SingletonList DEF AtDecoder
<1> QED
  BY <1>2, <1>3, <1>4, <1>6

LEMMA JoinSix ==
  ASSUME NEW S, NEW q \in Seq(S), NEW r \in Seq(S), NEW i \in Seq(S), NEW f \in Seq(S),
         NEW w \in Seq(S), NEW d \in Seq(S)
  PROVE  /\ Join(Join(Join(Join(Join(q, r), i), f), w), d)
              = Join(q, Join(Join(Join(Join(r, i), f), w), d))
         /\ Join(Join(Join(Join(r, i), f), w), d) \in Seq(S)
<1>1. PICK a \in Seq(S) : a = Join(r, i)
  BY JoinType
<1>2. PICK b \in Seq(S) : b = Join(a, f)
  BY JoinType
<1>3. PICK e \in Seq(S) : e = Join(b, w)
  BY JoinType
<1>4. /\ Join(Join(q, r), i) = Join(q, a) /\ Join(Join(q, a), f) = Join(q, b)
      /\ Join(Join(q, b), w) = Join(q, e) /\ Join(Join(q, e), d) = Join(q, Join(e, d))
  BY <1>1, <1>2, <1>3, JoinAssociative
<1>5. Join(e, d) \in Seq(S)
  BY JoinType
<1> QED
  BY <1>1, <1>2, <1>3, <1>4, <1>5

LEMMA ComingAhead ==
  ASSUME KCFInv, NEW c \in Channels
  PROVE  /\ Coming(c) = Join(gDetectResultque[c], Ahead(c))
         /\ gDetectResultque[c] \in Seq(Pictures) /\ Ahead(c) \in Seq(Pictures)
         /\ Coming(c) \in Seq(Pictures)
<1>1. /\ Coming(c) = Join(gDetectResultque[c], Ahead(c)) /\ Ahead(c) \in Seq(Pictures)
  <2>1. PICK q \in Seq(Pictures), r \in Seq(Pictures), i \in Seq(Pictures),
             f \in Seq(Pictures), w \in Seq(Pictures), d \in Seq(Pictures) :
          /\ q = gDetectResultque[c] /\ r = Ready /\ i = imginfoque_ /\ f = AtScheduler
          /\ w = out[c] /\ d = AtDecoder(c)
    BY ComingTypes
  <2>2. /\ Join(Join(Join(Join(Join(q, r), i), f), w), d)
             = Join(q, Join(Join(Join(Join(r, i), f), w), d))
        /\ Join(Join(Join(Join(r, i), f), w), d) \in Seq(Pictures)
    BY JoinSix
  <2>3. Coming(c) = Join(Join(Join(Join(Join(q, r), i), f), w), d)
    BY <2>1, ComingIs
  <2>4. Ahead(c) = Join(Join(Join(Join(r, i), f), w), d)
    BY <2>1 DEF Ahead
  <2> QED
    BY <2>1, <2>2, <2>3, <2>4
<1>2. gDetectResultque[c] \in Seq(Pictures)
  BY ComingTypes
<1> QED
  BY <1>1, <1>2, JoinType

(* Pictures only change hands.                                             *)
LEMMA SchedulerBrings ==
  ASSUME KCFInv, FLAGS_c = 1, SchedulerStep
  PROVE  Coming(1)' = Coming(1)
<1>1. TypeOK /\ Detecting /\ 1 \in Channels /\ channel = 1
  BY DEF KCFInv, TypeOK, Channels
<1>2. PICK q \in Seq(Pictures), r \in Seq(Pictures), i \in Seq(Pictures), f \in Seq(Pictures),
           w \in Seq(Pictures), d \in Seq(Pictures) :
        /\ q = gDetectResultque[1] /\ r = Ready /\ i = imginfoque_ /\ f = AtScheduler
        /\ w = out[1] /\ d = AtDecoder(1)
  BY <1>1, ComingTypes
<1>3. UNCHANGED <<decoder, nFrame, nIndexVPP_In, surface>>
  BY DEF SchedulerStep, AwaitTask, LoadFrame, PutFrame, InsertImage, PushResult, PostResult,
     decVars
<1>4. AtDecoder(1)' = d
  BY <1>2, <1>3 DEF AtDecoder
<1>5. Coming(1) = Join(Join(Join(Join(Join(q, r), i), f), w), d)
  BY <1>1, <1>2, ComingIs
<1>6. Coming(1)' = Join(Join(Join(Join(Join(gDetectResultque'[1], Ready'), imginfoque_'),
                                  AtScheduler'), out'[1]), d)
  <2>1. \A c \in Channels : Coming(c)' =
          Join(Join(Join(Join(Join(gDetectResultque'[c], Ready'), imginfoque_'),
                                  AtScheduler'), out'[c]), AtDecoder(c)')
    BY DEF Coming, Join, Ready, AtScheduler, AtDecoder
  <2> QED
    BY <1>1, <1>4, <2>1
<1>7. CASE AwaitTask
  <2>1. /\ scheduler = "semwait" /\ scheduler' = "load"
        /\ UNCHANGED <<gDetectResultque, objects, imginfoque_, out>>
    BY <1>7 DEF AwaitTask, resVars
  <2>2. Ready' = Ready /\ AtScheduler' = AtScheduler
    BY <2>1 DEF Ready, AtScheduler
  <2> QED
    BY <1>2, <1>5, <1>6, <2>1, <2>2
<1>8. CASE LoadFrame
  <2>1. PICK x \in Pictures, v \in Seq(Pictures) : x = Head(w) /\ v = Tail(w) /\ Join(<<x>>, v) = w
    BY <1>1, <1>2, <1>8, HeadJoinTail DEF LoadFrame
  <2>2. PICK one \in Seq(Pictures) : one = <<x>>
    BY SingletonList
  <2>3. /\ scheduler = "load" /\ scheduler' = "put" /\ frame' = x
        /\ UNCHANGED <<gDetectResultque, objects, imginfoque_>>
    BY <1>1, <1>2, <1>8, <2>1 DEF LoadFrame, resVars
  <2>4. out'[1] = v
    BY <1>1, <1>2, <1>8, <2>1 DEF LoadFrame, TypeOK
  <2>5. Ready' = Ready /\ f = <<>> /\ AtScheduler' = one
    BY <1>2, <2>2, <2>3 DEF Ready, AtScheduler
  <2>6. PICK a \in Seq(Pictures) : a = Join(Join(q, r), i)
    <3>1. PICK b \in Seq(Pictures) : b = Join(q, r)
      BY JoinType
    <3> QED
      BY <3>1, JoinType
  <2>7. Join(a, f) = a /\ Join(Join(a, one), v) = Join(a, Join(one, v))
    BY <2>5, JoinEmpty, JoinAssociative
  <2> QED
    BY <1>2, <1>5, <1>6, <2>1, <2>2, <2>3, <2>4, <2>5, <2>6, <2>7
<1>9. CASE PutFrame
  <2>1. /\ scheduler = "put" /\ scheduler' = "insert"
        /\ UNCHANGED <<gDetectResultque, objects, imginfoque_, out, frame>>
    BY <1>9 DEF PutFrame, resVars
  <2>2. Ready' = Ready /\ AtScheduler' = AtScheduler
    BY <2>1 DEF Ready, AtScheduler
  <2> QED
    BY <1>2, <1>5, <1>6, <2>1, <2>2
<1>10. CASE InsertImage
  <2>1. PICK x \in Pictures : x = frame
    BY <1>1, <1>10 DEF InsertImage, Detecting
  <2>2. PICK one \in Seq(Pictures) : one = <<x>>
    BY SingletonList
  <2>3. scheduler = "insert" /\ UNCHANGED <<gDetectResultque, out>>
    BY <1>10 DEF InsertImage, resVars, pipeVars
  <2>4. objects = <<>> /\ r = <<>> /\ f = one
    BY <1>1, <1>2, <2>1, <2>2, <2>3 DEF Detecting, Ready, AtScheduler
  <2>5. Append(i, x) = Join(i, one)
    BY <2>2, JoinOne
  <2>6. PICK j \in Seq(Pictures) : j = Join(i, one)
    BY JoinType
  <2>7. Join(q, r) = q /\ Join(Join(q, i), one) = Join(q, j)
    BY <2>4, <2>6, JoinEmpty, JoinAssociative
  <2>8. PICK a \in Seq(Pictures) : a = Join(q, j)
    BY JoinType
  <2>9. Join(a, <<>>) = a /\ Join(q, <<>>) = q
    BY JoinEmpty
  <2>10. Coming(1) = Join(Join(a, w), d)
    BY <1>5, <2>4, <2>7, <2>8
  <2>11. CASE Len(imginfoque_) + 1 < FLAGS_batch
    <3>1. /\ imginfoque_' = Append(i, x) /\ objects' = <<>> /\ scheduler' \in {"load", "semwait"}
      BY <1>2, <1>10, <2>1, <2>4, <2>11 DEF InsertImage, NextPipe
    <3>2. Ready' = <<>> /\ AtScheduler' = <<>>
      BY <3>1 DEF Ready, AtScheduler
    <3> QED
      BY <1>2, <1>6, <2>3, <2>5, <2>6, <2>8, <2>9, <2>10, <3>1, <3>2
  <2>12. CASE ~ (Len(imginfoque_) + 1 < FLAGS_batch)
    <3>1. /\ imginfoque_' = <<>> /\ objects' = Append(i, x) /\ scheduler' = "result"
      BY <1>2, <1>10, <2>1, <2>12 DEF InsertImage
    <3>2. Ready' = j /\ AtScheduler' = <<>>
      BY <2>5, <2>6, <3>1 DEF Ready, AtScheduler
    <3> QED
      BY <1>2, <1>6, <2>3, <2>8, <2>9, <2>10, <3>1, <3>2
  <2> QED
    BY <2>11, <2>12
<1>11. CASE PushResult
  <2>1. /\ scheduler = "result" /\ scheduler' = "postresult"
        /\ UNCHANGED <<objects, imginfoque_, out>>
    BY <1>11 DEF PushResult, pipeVars
  <2>2. r = objects /\ r # <<>>
    BY <1>1, <1>2, <2>1 DEF Ready, Detecting
  <2>3. PICK x \in Pictures, v \in Seq(Pictures) : x = Head(r) /\ v = Tail(r) /\ Join(<<x>>, v) = r
    BY <2>2, HeadJoinTail
  <2>4. PICK one \in Seq(Pictures) : one = <<x>>
    BY SingletonList
  <2>5. gDetectResultque'[1] = Append(q, x)
    BY <1>1, <1>2, <1>11, <2>2, <2>3 DEF PushResult, ResultChannel, TypeOK
  <2>6. Append(q, x) = Join(q, one)
    BY <2>4, JoinOne
  <2>7. Ready' = v /\ AtScheduler' = AtScheduler
    BY <2>1, <2>2, <2>3 DEF Ready, AtScheduler
  <2>8. Join(Join(q, one), v) = Join(q, Join(one, v))
    BY JoinAssociative
  <2> QED
    BY <1>2, <1>5, <1>6, <2>1, <2>3, <2>4, <2>5, <2>6, <2>7, <2>8
<1>12. CASE PostResult
  <2>1. /\ scheduler = "postresult" /\ scheduler' \in {"load", "semwait", "result"}
        /\ objects' = Tail(objects) /\ UNCHANGED <<gDetectResultque, imginfoque_, out>>
    BY <1>12 DEF PostResult, NextPipe, pipeVars
  <2>2. Ready' = Ready /\ AtScheduler' = AtScheduler
    BY <2>1 DEF Ready, AtScheduler
  <2> QED
    BY <1>2, <1>5, <1>6, <2>1, <2>2
<1> QED
  BY <1>7, <1>8, <1>9, <1>10, <1>11, <1>12 DEF SchedulerStep

(* The decoder adds the picture of a key frame, in the surface it locks.   *)
LEMMA DecoderBrings ==
  ASSUME KCFInv, NEW c \in Channels, DecoderStep(c)
  PROVE  IF GetTrack(c) /\ IsKey(nFrame[c])
           THEN /\ surface[c][nIndexVPP_In[c]] \in Pictures
                /\ Coming(c)' = Append(Coming(c), surface[c][nIndexVPP_In[c]])
           ELSE Coming(c)' = Coming(c)
<1>1. TypeOK /\ Carrying(c)
  BY DEF KCFInv
<1>2. /\ decoder \in [Channels -> {"decode", "kcfget", "kcfstore", "kcfpost", "get", "store", "post"}]
      /\ nFrame[c] \in FrameNos
  BY <1>1 DEF TypeOK
<1>3. PICK q \in Seq(Pictures), r \in Seq(Pictures), i \in Seq(Pictures), f \in Seq(Pictures),
           w \in Seq(Pictures), d \in Seq(Pictures) :
        /\ q = gDetectResultque[c] /\ r = Ready /\ i = imginfoque_ /\ f = AtScheduler
        /\ w = out[c] /\ d = AtDecoder(c)
  BY ComingTypes
<1>4. UNCHANGED <<scheduler, objects, imginfoque_, frame, gDetectResultque>>
  BY DEF DecoderStep, Decode, GetTrack, StoreTrack, AnnounceTrack, GetFrame, StoreFrame,
     Announce, schedVars, resVars
<1>5. Ready' = r /\ AtScheduler' = f
  BY <1>3, <1>4 DEF Ready, AtScheduler
<1>6. PICK b \in Seq(Pictures) : b = Join(Join(Join(q, r), i), f)
  <2>1. PICK e \in Seq(Pictures) : e = Join(q, r)
    BY JoinType
  <2>2. PICK g \in Seq(Pictures) : g = Join(e, i)
    BY JoinType
  <2> QED
    BY <2>1, <2>2, JoinType
<1>7. Coming(c) = Join(Join(b, w), d)
  BY <1>3, <1>6, ComingIs
<1>8. Coming(c)' = Join(Join(b, out'[c]), AtDecoder(c)')
  <2>1. Coming(c)' =
          Join(Join(Join(Join(Join(gDetectResultque'[c], Ready'), imginfoque_'),
                                  AtScheduler'), out'[c]), AtDecoder(c)')
    BY DEF Coming, Join, Ready, AtScheduler, AtDecoder
  <2> QED
    BY <1>3, <1>4, <1>5, <1>6, <2>1
<1>9. decoder[c] # "decode" => surface[c][nIndexVPP_In[c]] \in Pictures
  BY <1>1, <1>2 DEF Carrying, Pictures
<1>10. CASE Decode(c) \/ AnnounceTrack(c) \/ GetFrame(c) \/ StoreTrack(c) \/ Announce(c)
  <2>1. out' = out
    BY <1>10 DEF Decode, AnnounceTrack, GetFrame, StoreTrack, Announce, pipeVars
  <2>2. AtDecoder(c)' = AtDecoder(c)
    <3>1. CASE Decode(c) \/ Announce(c)
      BY <1>2, <3>1 DEF Decode, Announce, DecoderAt, AtDecoder
    <3>2. CASE StoreTrack(c)
      BY <1>2, <3>2 DEF StoreTrack, DecoderAt, AtDecoder
    <3>3. CASE GetFrame(c)
      BY <1>2, <3>3 DEF GetFrame, DecoderAt, AtDecoder
    <3>4. CASE AnnounceTrack(c)
      BY <1>2, <3>4 DEF AnnounceTrack, DecoderAt, AtDecoder
    <3> QED
      BY <1>10, <3>1, <3>2, <3>3, <3>4
  <2>3. ~ GetTrack(c)
    BY <1>2, <1>10 DEF Decode, AnnounceTrack, GetFrame, StoreTrack, Announce, GetTrack, DecoderAt
  <2> QED
    BY <1>3, <1>7, <1>8, <2>1, <2>2, <2>3
<1>11. CASE GetTrack(c)
  <2>1. /\ decoder[c] = "kcfget" /\ decoder'[c] = "kcfstore"
        /\ UNCHANGED <<nFrame, nIndexVPP_In, surface, out>>
    BY <1>2, <1>11 DEF GetTrack, DecoderAt, pipeVars
  <2>2. d = <<>>
    BY <1>3, <2>1 DEF AtDecoder
  <2>3. CASE ~ IsKey(nFrame[c])
    <3>1. AtDecoder(c)' = <<>>
      BY <2>1, <2>3 DEF AtDecoder
    <3> QED
      BY <1>3, <1>7, <1>8, <2>1, <2>2, <2>3, <3>1
  <2>4. CASE IsKey(nFrame[c])
    <3>1. PICK x \in Pictures : x = surface[c][nIndexVPP_In[c]]
      BY <1>9, <2>1
    <3>2. AtDecoder(c)' = <<x>>
      BY <2>1, <2>4, <3>1 DEF AtDecoder
    <3>3. PICK a \in Seq(Pictures) : a = Join(b, w)
      BY JoinType
    <3>4. Join(a, <<>>) = a /\ Join(a, <<x>>) = Append(a, x)
      BY JoinEmpty, JoinOne
    <3> QED
      BY <1>3, <1>7, <1>8, <1>11, <2>1, <2>2, <2>4, <3>1, <3>2, <3>3, <3>4
  <2> QED
    BY <2>3, <2>4
<1>12. CASE StoreFrame(c)
  <2>1. PICK x \in Pictures : x = surface[c][nIndexVPP_In[c]]
    BY <1>2, <1>9, <1>12 DEF StoreFrame, DecoderAt
  <2>2. PICK one \in Seq(Pictures) : one = <<x>>
    BY SingletonList
  <2>3. /\ decoder[c] = "store" /\ decoder'[c] = "post" /\ IsKey(nFrame[c])
        /\ out'[c] = Append(w, x)
    BY <1>1, <1>2, <1>3, <1>12, <2>1 DEF StoreFrame, DecoderAt, TypeOK, Carrying
  <2>4. d = one /\ AtDecoder(c)' = <<>>
    BY <1>3, <2>1, <2>2, <2>3 DEF AtDecoder
  <2>5. PICK v \in Seq(Pictures) : v = Join(w, one)
    BY JoinType
  <2>6. Append(w, x) = v
    BY <2>2, <2>5, JoinOne
  <2>7. Join(Join(b, w), one) = Join(b, v)
    BY <2>5, JoinAssociative
  <2>8. PICK a \in Seq(Pictures) : a = Join(b, v)
    BY JoinType
  <2>9. Join(a, <<>>) = a
    BY JoinEmpty
  <2>10. Coming(c)' = Coming(c)
    BY <1>7, <1>8, <2>3, <2>4, <2>6, <2>7, <2>8, <2>9
  <2>11. ~ GetTrack(c)
    BY <2>3 DEF GetTrack, DecoderAt
  <2> QED
    BY <2>10, <2>11
<1> QED
  BY <1>10, <1>11, <1>12 DEF DecoderStep

(* The tracker takes the oldest.                                           *)
LEMMA TrackerBrings ==
  ASSUME KCFInv, Announced, NEW c \in Channels, TrackerStep(c)
  PROVE  IF InitTargets(c)
           THEN /\ gDetectResultque[c] # <<>>
                /\ Coming(c) # <<>> /\ Coming(c)' = Tail(Coming(c))
                /\ Head(Coming(c)) = Head(gDetectResultque[c])
           ELSE Coming(c)' = Coming(c)
<1>1. UNCHANGED <<scheduler, objects, imginfoque_, frame, out, decoder, nFrame, nIndexVPP_In,
                  surface>>
  BY DEF TrackerStep, AwaitTrack, LoadTrack, AwaitResult, InitTargets, Update, Unlock, PutTrack,
     schedVars, pipeVars, decVars
<1>2. Ahead(c)' = Ahead(c)
  BY <1>1 DEF Ahead, Ready, AtScheduler, AtDecoder
<1>3. PICK q \in Seq(Pictures), a \in Seq(Pictures) : q = gDetectResultque[c] /\ a = Ahead(c)
  BY ComingAhead
<1>4. Coming(c) = Join(q, a)
  BY <1>3, ComingAhead
<1>5. Coming(c)' = Join(gDetectResultque'[c], a)
  <2>1. TypeOK
    BY DEF KCFInv
  <2>2. gDetectResultque'[c] \in Seq(Pictures)
    <3>1. TypeOK'
      BY TrackerTypes
    <3> QED
      BY <3>1 DEF TypeOK
  <2>3. PICK z \in Seq(Pictures) : z = gDetectResultque'[c]
    BY <2>2
  <2>4. Coming(c)' =
          Join(Join(Join(Join(Join(gDetectResultque'[c], Ready'), imginfoque_'),
                                  AtScheduler'), out'[c]), AtDecoder(c)')
    BY DEF Coming, Join, Ready, AtScheduler, AtDecoder
  <2>5. PICK r \in Seq(Pictures), i \in Seq(Pictures), f \in Seq(Pictures),
             w \in Seq(Pictures), d \in Seq(Pictures) :
          /\ r = Ready /\ i = imginfoque_ /\ f = AtScheduler /\ w = out[c] /\ d = AtDecoder(c)
    BY ComingTypes
  <2>6. Ready' = r /\ AtScheduler' = f /\ AtDecoder(c)' = d /\ imginfoque_' = i /\ out'[c] = w
    BY <1>1, <2>5 DEF Ready, AtScheduler, AtDecoder
  <2>7. Coming(c)' = Join(Join(Join(Join(Join(z, r), i), f), w), d)
    BY <2>3, <2>4, <2>6
  <2>8. a = Join(Join(Join(Join(r, i), f), w), d)
    BY <1>3, <2>5 DEF Ahead
  <2>9. Join(Join(Join(Join(Join(z, r), i), f), w), d)
          = Join(z, Join(Join(Join(Join(r, i), f), w), d))
    BY JoinSix, SMTT(40)
  <2> QED
    BY <2>3, <2>7, <2>8, <2>9
<1>6. CASE ~ InitTargets(c)
  <2>1. gDetectResultque' = gDetectResultque
    BY <1>6 DEF TrackerStep, AwaitTrack, LoadTrack, AwaitResult, Update, Unlock, PutTrack, resVars
  <2> QED
    BY <1>3, <1>4, <1>5, <1>6, <2>1
<1>7. CASE InitTargets(c)
  <2>1. q # <<>>
    <3>1. tracker[c] = "init" /\ TypeOK
      BY <1>7 DEF InitTargets, TrackerAt, KCFInv
    <3>2. gDetectResultAvaiable[c] + 1 + One(scheduler = "postresult" /\ c = ResultChannel)
            <= Len(q)
      BY <1>3, <3>1 DEF Announced, One
    <3>3. One(scheduler = "postresult" /\ c = ResultChannel) \in {0, 1}
      BY OneType
    <3>4. gDetectResultAvaiable[c] \in Nat /\ Len(q) \in Nat /\ Len(<<>>) = 0
      BY <1>3, <3>1, ResultTypes
    <3> QED
      BY <3>2, <3>3, <3>4
  <2>2. PICK h \in Pictures, t \in Seq(Pictures) : h = Head(q) /\ t = Tail(q) /\ Join(<<h>>, t) = q
    BY <2>1, HeadJoinTail
  <2>3. gDetectResultque'[c] = t
    BY <1>3, <1>7, <2>1, <2>2 DEF InitTargets, KCFInv, TypeOK
  <2>4. PICK one \in Seq(Pictures) : one = <<h>>
    BY SingletonList
  <2>5. Join(Join(one, t), a) = Join(one, Join(t, a)) /\ Join(t, a) \in Seq(Pictures)
    BY JoinAssociative, JoinType
  <2>6. PICK s \in Seq(Pictures) : s = Join(t, a)
    BY <2>5
  <2>7. Join(<<h>>, s) # <<>> /\ Head(Join(<<h>>, s)) = h /\ Tail(Join(<<h>>, s)) = s
    BY JoinFirst
  <2> QED
    BY <1>3, <1>4, <1>5, <1>7, <2>1, <2>2, <2>3, <2>4, <2>5, <2>6, <2>7
<1> QED
  BY <1>6, <1>7

-----------------------------------------------------------------------------
(* One channel: each key frame meets its boxes.                            *)

LEMMA WaitingLocked ==
  ASSUME KCFInv, NEW c \in Channels
  PROVE  \A i \in DOMAIN Waiting(c) :
           /\ Waiting(c)[i].pmfxSurface \in Surfaces
           /\ Locked[c][Waiting(c)[i].pmfxSurface] = 1
<1>1. PICK t \in Seq(Tracks) : t = ToTrack(c)
  BY PartTypes
<1>2. \A i \in DOMAIN t : t[i].pmfxSurface \in Surfaces /\ Locked[c][t[i].pmfxSurface] = 1
  BY <1>1, TrackAt DEF KCFInv, Tracked, Intact, AllLocked
<1>3. CASE tracker[c] # "unlock"
  BY <1>1, <1>2, <1>3 DEF Waiting
<1>4. CASE tracker[c] = "unlock"
  <2>1. t # <<>>
    BY <1>1, <1>4, HandFirst
  <2>2. PICK u : u = Tail(t)
    OBVIOUS
  <2>3. u \in Seq(Tracks) /\ Len(u) = Len(t) - 1 /\ \A i \in 1..Len(u) : u[i] = t[i + 1]
    BY <2>1, <2>2, HeadTailProperties
  <2>4. \A i \in DOMAIN u : i + 1 \in DOMAIN t /\ u[i] = t[i + 1]
    BY <2>3, LenProperties
  <2>5. Waiting(c) = u
    BY <1>1, <1>4, <2>2 DEF Waiting
  <2> QED
    BY <1>2, <2>4, <2>5
<1> QED
  BY <1>3, <1>4

LEMMA KeysInit ==
  ASSUME FLAGS_c = 1, Init
  PROVE  KeyFramesAnswered
<1>1. 1 \in Channels /\ KCFInv
  BY KCFInit DEF Channels
<1>2. /\ decoder[1] = "decode" /\ tracker[1] = "semwait" /\ scheduler = "semwait"
      /\ kcfOut[1] = <<>> /\ out[1] = <<>> /\ gDetectResultque[1] = <<>>
      /\ objects = <<>> /\ imginfoque_ = <<>>
  BY <1>1 DEF Init, PerChannel
<1>3. Join(<<>>, <<>>) = <<>>
  BY EmptySeq, JoinEmpty
<1>4. Waiting(1) = <<>>
  <2>1. InHand(1) = <<>> /\ Stored(1) = <<>>
    BY <1>2 DEF InHand, Stored
  <2>2. ToTrack(1) = <<>>
    BY <1>1, <1>2, <1>3, <2>1, ToTrackIs
  <2> QED
    BY <1>2, <2>2 DEF Waiting
<1>5. Coming(1) = <<>>
  <2>1. Ready = <<>> /\ AtScheduler = <<>> /\ AtDecoder(1) = <<>>
    BY <1>2 DEF Ready, AtScheduler, AtDecoder
  <2> QED
    BY <1>1, <1>2, <1>3, <2>1, ComingIs
<1>6. DOMAIN <<>> = {}
  OBVIOUS
<1>7. PICK p, t : p = Coming(1) /\ t = Waiting(1) /\ DOMAIN p = {} /\ DOMAIN t = {}
  BY <1>4, <1>5, <1>6
<1>8. Selects([k \in {} |-> 0], p, t, surface[1])
  BY <1>7 DEF Selects
<1> QED
  BY <1>7, <1>8, SelectsIs DEF KeyFramesAnswered

LEMMA KeysNext ==
  ASSUME FLAGS_c = 1, KCFInv, Announced, KeyFramesAnswered, [Next]_vars
  PROVE  KeyFramesAnswered'
<1>1. TypeOK /\ Carrying(1) /\ 1 \in Channels /\ \A c \in Channels : c = 1
  BY DEF KCFInv, Channels
<1>2. PICK p \in Seq(Pictures) : p = Coming(1)
  BY <1>1, ComingAhead
<1>3. PICK seen \in [Surfaces -> Pictures \cup {NoPicture}] : seen = surface[1]
  BY <1>1 DEF TypeOK
<1>4. ASSUME Coming(1)' = p, Waiting(1)' = Waiting(1), surface'[1] = seen
      PROVE  KeyFramesAnswered'
  BY <1>2, <1>3, <1>4 DEF KeyFramesAnswered
<1>5. CASE DecoderStep(1)
  <2>1. PICK t \in Seq(Tracks) : t = Waiting(1)
    BY <1>1, <1>5, DecoderWaits
  <2>2. PicturesOfKeys(p, t, seen)
    BY <1>2, <1>3, <2>1 DEF KeyFramesAnswered
  <2>3. CASE ~ GetTrack(1) /\ ~ Decode(1)
    <3>1. surface' = surface
      BY <1>5, <2>3 DEF DecoderStep, StoreTrack, AnnounceTrack, GetFrame, StoreFrame, Announce
    <3> QED
      BY <1>1, <1>2, <1>3, <1>4, <1>5, <2>3, <3>1, DecoderWaits, DecoderBrings
  <2>4. CASE Decode(1)
    <3>1. FreeSurfaces(1) \subseteq Surfaces /\ FreeSurfaces(1) \subseteq Nat /\ FreeSurfaces(1) # {}
      BY <2>4 DEF Decode, FreeSurfaces, Surfaces
    <3>2. PICK s \in Surfaces : s = Min(FreeSurfaces(1)) /\ Locked[1][s] = 0
      BY <3>1, MinOf DEF FreeSurfaces
    <3>3. PICK other : other = surface'[1]
      OBVIOUS
    <3>4. \A r \in Surfaces \ {s} : other[r] = seen[r]
      BY <1>1, <1>3, <2>4, <3>2, <3>3 DEF Decode, TypeOK
    <3>5. \A i \in DOMAIN t : other[t[i].pmfxSurface] = seen[t[i].pmfxSurface]
      <4> SUFFICES ASSUME NEW i \in DOMAIN t
                   PROVE  other[t[i].pmfxSurface] = seen[t[i].pmfxSurface]
        OBVIOUS
      <4>1. t[i].pmfxSurface \in Surfaces /\ Locked[1][t[i].pmfxSurface] = 1
        BY <1>1, <2>1, WaitingLocked
      <4> QED
        BY <3>2, <3>4, <4>1
    <3>6. PicturesOfKeys(p, t, other)
      BY <2>2, <3>5, KeysElsewhere
    <3>7. ~ GetTrack(1)
      BY <2>4 DEF Decode, GetTrack, DecoderAt
    <3>8. Coming(1)' = p /\ Waiting(1)' = t
      BY <1>1, <1>2, <1>5, <2>1, <3>7, DecoderWaits, DecoderBrings
    <3> QED
      BY <3>3, <3>6, <3>8 DEF KeyFramesAnswered
  <2>5. CASE GetTrack(1)
    <3>1. PICK e \in Tracks : e = Newest(1)
      BY <1>1, <1>5, <2>5, DecoderWaits
    <3>2. Waiting(1)' = Append(t, e)
      BY <1>1, <1>5, <2>1, <2>5, <3>1, DecoderWaits
    <3>3. surface' = surface
      BY <2>5 DEF GetTrack
    <3>4. e.bROIRrefresh = IsKey(nFrame[1]) /\ e.pmfxSurface = nIndexVPP_In[1]
      BY <3>1 DEF Newest
    <3>5. CASE IsKey(nFrame[1])
      <4>1. PICK x \in Pictures : x = seen[e.pmfxSurface]
        BY <1>1, <1>3, <1>5, <2>5, <3>4, <3>5, DecoderBrings
      <4>2. Coming(1)' = Append(p, x)
        BY <1>1, <1>2, <1>3, <1>5, <2>5, <3>4, <3>5, <4>1, DecoderBrings
      <4>3. e.bROIRrefresh
        BY <3>4, <3>5
      <4>4. PicturesOfKeys(Append(p, x), Append(t, e), seen)
        BY <2>2, <4>1, <4>3, KeyAppended
      <4> QED
        BY <1>3, <3>2, <3>3, <4>2, <4>4 DEF KeyFramesAnswered
    <3>6. CASE ~ IsKey(nFrame[1])
      <4>1. Coming(1)' = p
        BY <1>1, <1>2, <1>5, <3>6, DecoderBrings
      <4>2. ~ e.bROIRrefresh
        BY <3>4, <3>6
      <4>3. PicturesOfKeys(p, Append(t, e), seen)
        BY <2>2, <4>2, OtherAppended
      <4> QED
        BY <1>3, <3>2, <3>3, <4>1, <4>3 DEF KeyFramesAnswered
    <3> QED
      BY <3>5, <3>6
  <2> QED
    BY <2>3, <2>4, <2>5
<1>6. CASE TrackerStep(1)
  <2>1. PICK t \in Seq(Tracks) : t = Waiting(1)
    BY <1>1, <1>6, TrackerWaits
  <2>2. PicturesOfKeys(p, t, seen)
    BY <1>2, <1>3, <2>1 DEF KeyFramesAnswered
  <2>3. surface' = surface
    BY <1>6 DEF TrackerStep, AwaitTrack, LoadTrack, AwaitResult, InitTargets, Update, Unlock,
       PutTrack, decVars
  <2>4. CASE InitTargets(1)
    <3>1. t # <<>> /\ Head(t) = srcframe[1] /\ Waiting(1)' = Tail(t)
      BY <1>1, <1>6, <2>1, <2>4, TrackerWaits
    <3>2. Coming(1)' = Tail(p)
      BY <1>1, <1>2, <1>6, <2>4, TrackerBrings
    <3>3. Head(t).bROIRrefresh
      BY <1>1, <2>4, <3>1 DEF InitTargets, TrackerAt, Carrying
    <3>4. PicturesOfKeys(Tail(p), Tail(t), seen)
      BY <2>2, <3>1, <3>3, KeyTaken
    <3> QED
      BY <1>3, <2>3, <3>1, <3>2, <3>4 DEF KeyFramesAnswered
  <2>5. CASE Update(1)
    <3>1. t # <<>> /\ Head(t) = srcframe[1] /\ Waiting(1)' = Tail(t)
      BY <1>1, <1>6, <2>1, <2>5, TrackerWaits
    <3>2. tracker[1] = "update" /\ ~ InitTargets(1)
      BY <2>5 DEF Update, InitTargets, TrackerAt
    <3>3. Coming(1)' = p
      BY <1>1, <1>2, <1>6, <3>2, TrackerBrings
    <3>4. ~ Head(t).bROIRrefresh
      BY <1>1, <3>1, <3>2 DEF Carrying
    <3>5. PicturesOfKeys(p, Tail(t), seen)
      BY <2>2, <3>1, <3>4, OtherTaken
    <3> QED
      BY <1>3, <2>3, <3>1, <3>3, <3>5 DEF KeyFramesAnswered
  <2>6. CASE ~ InitTargets(1) /\ ~ Update(1)
    BY <1>1, <1>2, <1>3, <1>4, <1>6, <2>3, <2>6, TrackerWaits, TrackerBrings
  <2> QED
    BY <2>4, <2>5, <2>6
<1>7. CASE SchedulerStep
  <2>1. UNCHANGED <<decVars, kcfVars, trackVars>>
    BY <1>7 DEF SchedulerStep, AwaitTask, LoadFrame, PutFrame, InsertImage, PushResult, PostResult
  <2>2. Waiting(1)' = Waiting(1) /\ surface' = surface
    BY <2>1 DEF Waiting, ToTrack, decVars, kcfVars, trackVars
  <2> QED
    BY <1>2, <1>3, <1>4, <1>7, <2>2, SchedulerBrings
<1>8. CASE UNCHANGED vars
  <2>1. Waiting(1)' = Waiting(1) /\ surface' = surface
    BY <1>8 DEF Waiting, ToTrack, vars, decVars, kcfVars, trackVars
  <2>2. Coming(1)' = Coming(1)
    BY <1>8 DEF Coming, vars, decVars, pipeVars, schedVars, resVars
  <2> QED
    BY <1>2, <1>3, <1>4, <2>1, <2>2
<1> QED
  BY <1>1, <1>5, <1>6, <1>7, <1>8 DEF Next

(* The tracker pairs results with frames by nothing but their order: it    *)
(* takes the oldest result for the key frame in its hands.  With one       *)
(* channel the two paths from the decoder, through tracker pipe and lock   *)
(* and through scheduler, batch and queue, carry the same key frames in    *)
(* the same order, whatever the batch and the distance of key frames.      *)
(* (With more, the results of all channels go to the first: KCF_channels.) *)
THEOREM KeyFramesMeetResults ==
  ASSUME FLAGS_c = 1
  PROVE  Spec => []KeyFramesAnswered
<1>1. Init => KeyFramesAnswered
  BY KeysInit
<1>2. KCFInv /\ Announced /\ KeyFramesAnswered /\ [Next]_vars => KeyFramesAnswered'
  BY KeysNext
<1> QED
  BY <1>1, <1>2, AnnouncedInit, AnnouncedNext, KCFInvariant, PTL DEF Spec

(* So KCFTracker::init is given the picture its boxes were found in.       *)
THEOREM TargetsFitPictures ==
  ASSUME FLAGS_c = 1
  PROVE  Spec => []TargetsMatch
<1>1. Init => TargetsMatch
  BY DEF Init, PerChannel, TargetsMatch
<1>2. KCFInv /\ Announced /\ KeyFramesAnswered /\ TargetsMatch /\ [Next]_vars => TargetsMatch'
  <2> SUFFICES ASSUME KCFInv, Announced, KeyFramesAnswered, TargetsMatch, [Next]_vars
               PROVE  targets'[1].boxes = targets'[1].template
    BY DEF TargetsMatch, Channels
  <2>1. TypeOK /\ Carrying(1) /\ 1 \in Channels /\ \A c \in Channels : c = 1
    BY DEF KCFInv, Channels
  <2>2. targets[1].boxes = targets[1].template
    BY <2>1 DEF TargetsMatch
  <2>3. CASE ~ InitTargets(1)
    <3>1. targets' = targets
      BY <2>1, <2>3 DEF Next, DecoderStep, Decode, GetTrack, StoreTrack, AnnounceTrack, GetFrame,
         StoreFrame, Announce, SchedulerStep, AwaitTask, LoadFrame, PutFrame, InsertImage,
         PushResult, PostResult, TrackerStep, AwaitTrack, LoadTrack, AwaitResult, Update, Unlock,
         PutTrack, trackVars, vars
    <3> QED
      BY <2>2, <3>1
  <2>4. CASE InitTargets(1)
    <3>1. TrackerStep(1)
      BY <2>4 DEF TrackerStep
    <3>2. PICK t \in Seq(Tracks) : t = Waiting(1) /\ t # <<>> /\ Head(t) = srcframe[1]
      BY <2>1, <2>4, <3>1, TrackerWaits
    <3>3. PICK p \in Seq(Pictures) : p = Coming(1)
      BY <2>1, ComingAhead
    <3>4. gDetectResultque[1] # <<>> /\ Head(p) = Head(gDetectResultque[1])
      BY <2>1, <2>4, <3>1, <3>3, TrackerBrings
    <3>5. Head(t).bROIRrefresh
      BY <2>1, <2>4, <3>2 DEF InitTargets, TrackerAt, Carrying
    <3>6. PICK seen : seen = surface[1]
      OBVIOUS
    <3>7. PicturesOfKeys(p, t, seen)
      BY <3>2, <3>3, <3>6 DEF KeyFramesAnswered
    <3>8. Head(p) = seen[Head(t).pmfxSurface]
      BY <3>2, <3>5, <3>7, KeyTaken
    <3>9. Head(gDetectResultque[1]) = Seen(1)
      BY <3>2, <3>4, <3>6, <3>8 DEF Seen
    <3>10. DOMAIN targets = Channels
      BY <2>1 DEF TypeOK
    <3>11. \/ targets' = targets
           \/ targets' = [targets EXCEPT ![1] =
                [boxes |-> Head(gDetectResultque[1]), template |-> Seen(1)]]
      BY <2>4, <3>4 DEF InitTargets
    <3> QED
      BY <2>1, <2>2, <3>9, <3>10, <3>11
  <2> QED
    BY <2>3, <2>4
<1> QED
  BY <1>1, <1>2, KeyFramesMeetResults, AnnouncedInit, AnnouncedNext, KCFInvariant, PTL DEF Spec
=============================================================================

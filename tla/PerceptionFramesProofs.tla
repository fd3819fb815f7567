----------------------- MODULE PerceptionFramesProofs -----------------------
(***************************************************************************)
(* Proofs about PerceptionFrames: for every number of lanes, every pool of *)
(* more than four frames a lane, and any number of captures.               *)
(***************************************************************************)
EXTENDS PerceptionFrames, FiniteSetTheorems, SequenceTheorems, TLAPS

-----------------------------------------------------------------------------
(* The places a frame can be in, and what is in each.  The free list has   *)
(* room without end, so that every step exchanges the contents of two      *)
(* places.                                                                 *)

Everywhere ==
  ({"free"} \X (Nat \ {0}))
  \cup ({"worker", "slot", "render", "viewer"} \X Lanes)
  \cup {<<"engine", 0>>}

FreeAt(free, i) == IF i \in 1..Len(free) THEN free[i] ELSE NoFrame

Holding(free, worker, slot, engine, render_, viewer) ==
  [p \in Everywhere |->
     IF p[1] = "free" THEN FreeAt(free, p[2])
     ELSE IF p[1] = "worker" THEN worker[p[2]]
     ELSE IF p[1] = "slot" THEN slot[p[2]]
     ELSE IF p[1] = "engine" THEN engine
     ELSE IF p[1] = "render" THEN render_[p[2]]
     ELSE viewer[p[2]]]

Once(h) ==
  \A f \in Frames : \E p \in Everywhere : \A q \in Everywhere : h[q] = f <=> q = p

(* Exchanging what two places hold keeps each frame in one place.          *)
LEMMA SwapKeepsOnce ==
  ASSUME NEW h, NEW g, NEW a \in Everywhere, NEW b \in Everywhere,
         g[a] = h[b], g[b] = h[a],
         \A q \in Everywhere : q # a /\ q # b => g[q] = h[q],
         Once(h)
  PROVE  Once(g)
<1> SUFFICES ASSUME NEW f \in Frames
             PROVE  \E p \in Everywhere : \A q \in Everywhere : g[q] = f <=> q = p
  BY DEF Once
<1>1. PICK p \in Everywhere : \A q \in Everywhere : h[q] = f <=> q = p
  BY DEF Once
<1>2. CASE p = a
  <2> WITNESS b \in Everywhere
  <2> QED BY <1>1, <1>2
<1>3. CASE p = b
  <2> WITNESS a \in Everywhere
  <2> QED BY <1>1, <1>3
<1>4. CASE p # a /\ p # b
  <2> WITNESS p \in Everywhere
  <2> QED BY <1>1, <1>4
<1>5. QED
  BY <1>2, <1>3, <1>4

(* The places, one kind after the other.                                   *)
LEMMA EveryPlace ==
  ASSUME NEW p \in Everywhere
  PROVE  \/ \E i \in Nat \ {0} : p = <<"free", i>>
         \/ \E l \in Lanes : p \in {<<"worker", l>>, <<"slot", l>>, <<"render", l>>,
                                    <<"viewer", l>>}
         \/ p = <<"engine", 0>>
BY DEF Everywhere

(* Between h and g, places a and b exchange what they hold.                *)
Exchange(h, g, a, b) ==
  /\ a \in Everywhere /\ b \in Everywhere
  /\ g[a] = h[b] /\ g[b] = h[a]
  /\ \A i \in Nat \ {0} :
       <<"free", i>> \in {a, b} \/ g[<<"free", i>>] = h[<<"free", i>>]
  /\ \A l \in Lanes :
       /\ <<"worker", l>> \in {a, b} \/ g[<<"worker", l>>] = h[<<"worker", l>>]
       /\ <<"slot", l>> \in {a, b}   \/ g[<<"slot", l>>] = h[<<"slot", l>>]
       /\ <<"render", l>> \in {a, b} \/ g[<<"render", l>>] = h[<<"render", l>>]
       /\ <<"viewer", l>> \in {a, b} \/ g[<<"viewer", l>>] = h[<<"viewer", l>>]
  /\ <<"engine", 0>> \in {a, b} \/ g[<<"engine", 0>>] = h[<<"engine", 0>>]

(* An exchange keeps each frame in one place.                              *)
LEMMA Exchanged ==
  ASSUME NEW h, NEW g, NEW a, NEW b, Exchange(h, g, a, b), Once(h)
  PROVE  Once(g)
<1>1. ASSUME NEW q \in Everywhere, q # a, q # b
      PROVE  g[q] = h[q]
  <2>1. CASE \E i \in Nat \ {0} : q = <<"free", i>>
    BY <1>1, <2>1 DEF Exchange
  <2>2. CASE \E l \in Lanes :
                 q \in {<<"worker", l>>, <<"slot", l>>, <<"render", l>>, <<"viewer", l>>}
    <3>1. PICK l \in Lanes :
                 q \in {<<"worker", l>>, <<"slot", l>>, <<"render", l>>, <<"viewer", l>>}
      BY <2>2
    <3>2. QED
      BY <1>1, <3>1 DEF Exchange
  <2>3. CASE q = <<"engine", 0>>
    BY <1>1, <2>3 DEF Exchange
  <2>4. QED
    BY <2>1, <2>2, <2>3, EveryPlace
<1>2. QED
  BY <1>1, SwapKeepsOnce DEF Exchange

(* Taking the last frame off the free list.                                *)
LEMMA FreeTake ==
  ASSUME NEW free \in Seq(Frames), free # <<>>
  PROVE  LET n == Len(free)
             rest == SubSeq(free, 1, n - 1)
         IN  /\ n \in Nat \ {0} /\ rest \in Seq(Frames)
             /\ free[n] \in Frames
             /\ FreeAt(free, n) = free[n] /\ FreeAt(rest, n) = NoFrame
             /\ \A i \in Nat \ {0} : i # n => FreeAt(rest, i) = FreeAt(free, i)
<1> DEFINE n == Len(free)
           rest == SubSeq(free, 1, n - 1)
<1>1. n \in Nat \ {0} /\ \A i \in 1..n : free[i] \in Frames
  BY LenProperties, ElementOfSeq, EmptySeq
<1>2. Len(rest) = n - 1 /\ \A i \in 1..(n - 1) : rest[i] = free[i]
  <2>1. n - 1 \in Int /\ \A i \in 1..(n - 1) : free[i] \in Frames
    BY <1>1
  <2> HIDE DEF n
  <2>2. /\ Len(rest) = IF 1 <= n - 1 THEN n - 1 - 1 + 1 ELSE 0
        /\ \A i \in 1..(n - 1) - 1 + 1 : rest[i] = free[1 + i - 1]
    BY <2>1, SubSeqProperties
  <2>3. QED
    BY <2>2, <1>1
<1>4. rest \in Seq(Frames)
  <2>1. n - 1 \in Int /\ \A i \in 1..(n - 1) : free[i] \in Frames
    BY <1>1
  <2>2. QED
    BY <2>1, SubSeqProperties
<1> HIDE DEF rest
<1>3. QED
  BY <1>1, <1>2, <1>4 DEF FreeAt, rest

(* Putting a frame at the end of the free list.                            *)
LEMMA FreeAppend ==
  ASSUME NEW free \in Seq(Frames), NEW f \in Frames
  PROVE  LET n == Len(free) + 1
             more == Append(free, f)
         IN  /\ n \in Nat \ {0} /\ more \in Seq(Frames)
             /\ FreeAt(free, n) = NoFrame /\ FreeAt(more, n) = f
             /\ \A i \in Nat \ {0} : i # n => FreeAt(more, i) = FreeAt(free, i)
<1> DEFINE more == Append(free, f)
<1>1. Len(free) \in Nat
  BY LenProperties
<1>2. /\ more \in Seq(Frames) /\ Len(more) = Len(free) + 1
      /\ \A i \in 1..Len(free) : more[i] = free[i]
      /\ more[Len(free) + 1] = f
  BY AppendProperties
<1> HIDE DEF more
<1>3. QED
  BY <1>1, <1>2 DEF FreeAt, more

(* A worker takes the last frame of the free list.                         *)
LEMMA WorkerTakes ==
  ASSUME NEW free \in Seq(Frames), NEW worker \in [Lanes -> MaybeFrame],
         NEW slot \in [Lanes -> MaybeFrame], NEW engine,
         NEW render_ \in [Lanes -> MaybeFrame], NEW viewer \in [Lanes -> MaybeFrame],
         NEW l \in Lanes, worker[l] = NoFrame, free # <<>>,
         Once(Holding(free, worker, slot, engine, render_, viewer))
  PROVE  Once(Holding(SubSeq(free, 1, Len(free) - 1),
                      [worker EXCEPT ![l] = free[Len(free)]], slot,
                      engine, render_, viewer))
<1> DEFINE fr == SubSeq(free, 1, Len(free) - 1)
           wo == [worker EXCEPT ![l] = free[Len(free)]]
           h == Holding(free, worker, slot, engine, render_, viewer)
           g == Holding(fr, wo, slot, engine, render_, viewer)
           a == <<"free", Len(free)>>
           b == <<"worker", l>>
<1>1. wo[l] = free[Len(free)] /\ \A k \in Lanes : k # l => wo[k] = worker[k]
  OBVIOUS
<1>2. /\ Len(free) \in Nat \ {0} /\ FreeAt(fr, Len(free)) = NoFrame
      /\ FreeAt(free, Len(free)) = free[Len(free)]
      /\ \A i \in Nat \ {0} : i # Len(free) => FreeAt(fr, i) = FreeAt(free, i)
  BY FreeTake
<1> HIDE DEF fr, wo
<1>3. a \in Everywhere /\ b \in Everywhere
  BY <1>2 DEF Everywhere
<1>4. g[a] = h[b] /\ g[b] = h[a]
  BY <1>1, <1>2 DEF Holding, Everywhere
<1>5. ASSUME NEW i \in Nat \ {0}
      PROVE  <<"free", i>> \in {a, b} \/ g[<<"free", i>>] = h[<<"free", i>>]
  BY <1>2 DEF Holding, Everywhere
<1>6. ASSUME NEW k \in Lanes
      PROVE  /\ <<"worker", k>> \in {a, b} \/ g[<<"worker", k>>] = h[<<"worker", k>>]
             /\ <<"slot", k>> \in {a, b}   \/ g[<<"slot", k>>] = h[<<"slot", k>>]
             /\ <<"render", k>> \in {a, b} \/ g[<<"render", k>>] = h[<<"render", k>>]
             /\ <<"viewer", k>> \in {a, b} \/ g[<<"viewer", k>>] = h[<<"viewer", k>>]
  BY <1>1 DEF Holding, Everywhere
<1>7. <<"engine", 0>> \in {a, b} \/ g[<<"engine", 0>>] = h[<<"engine", 0>>]
  BY DEF Holding, Everywhere
<1>8. Once(h)
  OBVIOUS
<1> HIDE DEF a, b, g, h
<1>9. Exchange(h, g, a, b)
  BY <1>3, <1>4, <1>5, <1>6, <1>7 DEF Exchange
<1>10. Once(g)
  BY <1>8, <1>9, Exchanged
<1>11. QED
  BY <1>10 DEF g, fr, wo

(* A worker gives its frame back.                                          *)
LEMMA WorkerGives ==
  ASSUME NEW free \in Seq(Frames), NEW worker \in [Lanes -> MaybeFrame],
         NEW slot \in [Lanes -> MaybeFrame], NEW engine,
         NEW render_ \in [Lanes -> MaybeFrame], NEW viewer \in [Lanes -> MaybeFrame],
         NEW l \in Lanes, worker[l] \in Frames,
         Once(Holding(free, worker, slot, engine, render_, viewer))
  PROVE  Once(Holding(Append(free, worker[l]), [worker EXCEPT ![l] = NoFrame], slot,
                      engine, render_, viewer))
<1> DEFINE fr == Append(free, worker[l])
           wo == [worker EXCEPT ![l] = NoFrame]
           h == Holding(free, worker, slot, engine, render_, viewer)
           g == Holding(fr, wo, slot, engine, render_, viewer)
           a == <<"free", Len(free) + 1>>
           b == <<"worker", l>>
<1>1. wo[l] = NoFrame /\ \A k \in Lanes : k # l => wo[k] = worker[k]
  OBVIOUS
<1>2. /\ Len(free) + 1 \in Nat \ {0} /\ FreeAt(fr, Len(free) + 1) = worker[l]
      /\ FreeAt(free, Len(free) + 1) = NoFrame
      /\ \A i \in Nat \ {0} : i # Len(free) + 1 => FreeAt(fr, i) = FreeAt(free, i)
  BY FreeAppend
<1> HIDE DEF fr, wo
<1>3. a \in Everywhere /\ b \in Everywhere
  BY <1>2 DEF Everywhere
<1>4. g[a] = h[b] /\ g[b] = h[a]
  BY <1>1, <1>2 DEF Holding, Everywhere
<1>5. ASSUME NEW i \in Nat \ {0}
      PROVE  <<"free", i>> \in {a, b} \/ g[<<"free", i>>] = h[<<"free", i>>]
  BY <1>2 DEF Holding, Everywhere
<1>6. ASSUME NEW k \in Lanes
      PROVE  /\ <<"worker", k>> \in {a, b} \/ g[<<"worker", k>>] = h[<<"worker", k>>]
             /\ <<"slot", k>> \in {a, b}   \/ g[<<"slot", k>>] = h[<<"slot", k>>]
             /\ <<"render", k>> \in {a, b} \/ g[<<"render", k>>] = h[<<"render", k>>]
             /\ <<"viewer", k>> \in {a, b} \/ g[<<"viewer", k>>] = h[<<"viewer", k>>]
  BY <1>1 DEF Holding, Everywhere
<1>7. <<"engine", 0>> \in {a, b} \/ g[<<"engine", 0>>] = h[<<"engine", 0>>]
  BY DEF Holding, Everywhere
<1>8. Once(h)
  OBVIOUS
<1> HIDE DEF a, b, g, h
<1>9. Exchange(h, g, a, b)
  BY <1>3, <1>4, <1>5, <1>6, <1>7 DEF Exchange
<1>10. Once(g)
  BY <1>8, <1>9, Exchanged
<1>11. QED
  BY <1>10 DEF g, fr, wo

(* A worker exchanges its frame with the slot.                             *)
LEMMA WorkerExchanges ==
  ASSUME NEW free \in Seq(Frames), NEW worker \in [Lanes -> MaybeFrame],
         NEW slot \in [Lanes -> MaybeFrame], NEW engine,
         NEW render_ \in [Lanes -> MaybeFrame], NEW viewer \in [Lanes -> MaybeFrame],
         NEW l \in Lanes,
         Once(Holding(free, worker, slot, engine, render_, viewer))
  PROVE  Once(Holding(free, [worker EXCEPT ![l] = slot[l]],
                      [slot EXCEPT ![l] = worker[l]],
                      engine, render_, viewer))
<1> DEFINE wo == [worker EXCEPT ![l] = slot[l]]
           sl == [slot EXCEPT ![l] = worker[l]]
           h == Holding(free, worker, slot, engine, render_, viewer)
           g == Holding(free, wo, sl, engine, render_, viewer)
           a == <<"slot", l>>
           b == <<"worker", l>>
<1>1. wo[l] = slot[l] /\ \A k \in Lanes : k # l => wo[k] = worker[k]
  OBVIOUS
<1>2. sl[l] = worker[l] /\ \A k \in Lanes : k # l => sl[k] = slot[k]
  OBVIOUS
<1> HIDE DEF wo, sl
<1>3. a \in Everywhere /\ b \in Everywhere
  BY DEF Everywhere
<1>4. g[a] = h[b] /\ g[b] = h[a]
  BY <1>1, <1>2 DEF Holding, Everywhere
<1>5. ASSUME NEW i \in Nat \ {0}
      PROVE  <<"free", i>> \in {a, b} \/ g[<<"free", i>>] = h[<<"free", i>>]
  BY DEF Holding, Everywhere
<1>6. ASSUME NEW k \in Lanes
      PROVE  /\ <<"worker", k>> \in {a, b} \/ g[<<"worker", k>>] = h[<<"worker", k>>]
             /\ <<"slot", k>> \in {a, b}   \/ g[<<"slot", k>>] = h[<<"slot", k>>]
             /\ <<"render", k>> \in {a, b} \/ g[<<"render", k>>] = h[<<"render", k>>]
             /\ <<"viewer", k>> \in {a, b} \/ g[<<"viewer", k>>] = h[<<"viewer", k>>]
  BY <1>1, <1>2 DEF Holding, Everywhere
<1>7. <<"engine", 0>> \in {a, b} \/ g[<<"engine", 0>>] = h[<<"engine", 0>>]
  BY DEF Holding, Everywhere
<1>8. Once(h)
  OBVIOUS
<1> HIDE DEF a, b, g, h
<1>9. Exchange(h, g, a, b)
  BY <1>3, <1>4, <1>5, <1>6, <1>7 DEF Exchange
<1>10. Once(g)
  BY <1>8, <1>9, Exchanged
<1>11. QED
  BY <1>10 DEF g, wo, sl

(* The engine takes the frame of a slot.                                   *)
LEMMA EngineTakes ==
  ASSUME NEW free \in Seq(Frames), NEW worker \in [Lanes -> MaybeFrame],
         NEW slot \in [Lanes -> MaybeFrame], NEW engine,
         NEW render_ \in [Lanes -> MaybeFrame], NEW viewer \in [Lanes -> MaybeFrame],
         NEW l \in Lanes, engine = NoFrame,
         Once(Holding(free, worker, slot, engine, render_, viewer))
  PROVE  Once(Holding(free, worker, [slot EXCEPT ![l] = NoFrame],
                      slot[l], render_, viewer))
<1> DEFINE sl == [slot EXCEPT ![l] = NoFrame]
           en == slot[l]
           h == Holding(free, worker, slot, engine, render_, viewer)
           g == Holding(free, worker, sl, en, render_, viewer)
           a == <<"engine", 0>>
           b == <<"slot", l>>
<1>1. sl[l] = NoFrame /\ \A k \in Lanes : k # l => sl[k] = slot[k]
  OBVIOUS
<1>2. en = slot[l]
  OBVIOUS
<1> HIDE DEF sl, en
<1>3. a \in Everywhere /\ b \in Everywhere
  BY DEF Everywhere
<1>4. g[a] = h[b] /\ g[b] = h[a]
  BY <1>1, <1>2 DEF Holding, Everywhere
<1>5. ASSUME NEW i \in Nat \ {0}
      PROVE  <<"free", i>> \in {a, b} \/ g[<<"free", i>>] = h[<<"free", i>>]
  BY DEF Holding, Everywhere
<1>6. ASSUME NEW k \in Lanes
      PROVE  /\ <<"worker", k>> \in {a, b} \/ g[<<"worker", k>>] = h[<<"worker", k>>]
             /\ <<"slot", k>> \in {a, b}   \/ g[<<"slot", k>>] = h[<<"slot", k>>]
             /\ <<"render", k>> \in {a, b} \/ g[<<"render", k>>] = h[<<"render", k>>]
             /\ <<"viewer", k>> \in {a, b} \/ g[<<"viewer", k>>] = h[<<"viewer", k>>]
  BY <1>1, <1>2 DEF Holding, Everywhere
<1>7. <<"engine", 0>> \in {a, b} \/ g[<<"engine", 0>>] = h[<<"engine", 0>>]
  BY DEF Holding, Everywhere
<1>8. Once(h)
  OBVIOUS
<1> HIDE DEF a, b, g, h
<1>9. Exchange(h, g, a, b)
  BY <1>3, <1>4, <1>5, <1>6, <1>7 DEF Exchange
<1>10. Once(g)
  BY <1>8, <1>9, Exchanged
<1>11. QED
  BY <1>10 DEF g, sl, en

(* The engine exchanges its frame for the one to render.                   *)
LEMMA EngineExchanges ==
  ASSUME NEW free \in Seq(Frames), NEW worker \in [Lanes -> MaybeFrame],
         NEW slot \in [Lanes -> MaybeFrame], NEW engine,
         NEW render_ \in [Lanes -> MaybeFrame], NEW viewer \in [Lanes -> MaybeFrame],
         NEW l \in Lanes,
         Once(Holding(free, worker, slot, engine, render_, viewer))
  PROVE  Once(Holding(free, worker, slot,
                      render_[l], [render_ EXCEPT ![l] = engine], viewer))
<1> DEFINE en == render_[l]
           re == [render_ EXCEPT ![l] = engine]
           h == Holding(free, worker, slot, engine, render_, viewer)
           g == Holding(free, worker, slot, en, re, viewer)
           a == <<"render", l>>
           b == <<"engine", 0>>
<1>1. en = render_[l]
  OBVIOUS
<1>2. re[l] = engine /\ \A k \in Lanes : k # l => re[k] = render_[k]
  OBVIOUS
<1> HIDE DEF en, re
<1>3. a \in Everywhere /\ b \in Everywhere
  BY DEF Everywhere
<1>4. g[a] = h[b] /\ g[b] = h[a]
  BY <1>1, <1>2 DEF Holding, Everywhere
<1>5. ASSUME NEW i \in Nat \ {0}
      PROVE  <<"free", i>> \in {a, b} \/ g[<<"free", i>>] = h[<<"free", i>>]
  BY DEF Holding, Everywhere
<1>6. ASSUME NEW k \in Lanes
      PROVE  /\ <<"worker", k>> \in {a, b} \/ g[<<"worker", k>>] = h[<<"worker", k>>]
             /\ <<"slot", k>> \in {a, b}   \/ g[<<"slot", k>>] = h[<<"slot", k>>]
             /\ <<"render", k>> \in {a, b} \/ g[<<"render", k>>] = h[<<"render", k>>]
             /\ <<"viewer", k>> \in {a, b} \/ g[<<"viewer", k>>] = h[<<"viewer", k>>]
  BY <1>1, <1>2 DEF Holding, Everywhere
<1>7. <<"engine", 0>> \in {a, b} \/ g[<<"engine", 0>>] = h[<<"engine", 0>>]
  BY DEF Holding, Everywhere
<1>8. Once(h)
  OBVIOUS
<1> HIDE DEF a, b, g, h
<1>9. Exchange(h, g, a, b)
  BY <1>3, <1>4, <1>5, <1>6, <1>7 DEF Exchange
<1>10. Once(g)
  BY <1>8, <1>9, Exchanged
<1>11. QED
  BY <1>10 DEF g, en, re

(* The engine gives its frame back.                                        *)
LEMMA EngineGives ==
  ASSUME NEW free \in Seq(Frames), NEW worker \in [Lanes -> MaybeFrame],
         NEW slot \in [Lanes -> MaybeFrame], NEW engine,
         NEW render_ \in [Lanes -> MaybeFrame], NEW viewer \in [Lanes -> MaybeFrame],
         engine \in Frames,
         Once(Holding(free, worker, slot, engine, render_, viewer))
  PROVE  Once(Holding(Append(free, engine), worker, slot,
                      NoFrame, render_, viewer))
<1> DEFINE fr == Append(free, engine)
           en == NoFrame
           h == Holding(free, worker, slot, engine, render_, viewer)
           g == Holding(fr, worker, slot, en, render_, viewer)
           a == <<"free", Len(free) + 1>>
           b == <<"engine", 0>>
<1>1. en = NoFrame
  OBVIOUS
<1>2. /\ Len(free) + 1 \in Nat \ {0} /\ FreeAt(fr, Len(free) + 1) = engine
      /\ FreeAt(free, Len(free) + 1) = NoFrame
      /\ \A i \in Nat \ {0} : i # Len(free) + 1 => FreeAt(fr, i) = FreeAt(free, i)
  BY FreeAppend
<1> HIDE DEF fr, en
<1>3. a \in Everywhere /\ b \in Everywhere
  BY <1>2 DEF Everywhere
<1>4. g[a] = h[b] /\ g[b] = h[a]
  BY <1>1, <1>2 DEF Holding, Everywhere
<1>5. ASSUME NEW i \in Nat \ {0}
      PROVE  <<"free", i>> \in {a, b} \/ g[<<"free", i>>] = h[<<"free", i>>]
  BY <1>2 DEF Holding, Everywhere
<1>6. ASSUME NEW k \in Lanes
      PROVE  /\ <<"worker", k>> \in {a, b} \/ g[<<"worker", k>>] = h[<<"worker", k>>]
             /\ <<"slot", k>> \in {a, b}   \/ g[<<"slot", k>>] = h[<<"slot", k>>]
             /\ <<"render", k>> \in {a, b} \/ g[<<"render", k>>] = h[<<"render", k>>]
             /\ <<"viewer", k>> \in {a, b} \/ g[<<"viewer", k>>] = h[<<"viewer", k>>]
  BY <1>1 DEF Holding, Everywhere
<1>7. <<"engine", 0>> \in {a, b} \/ g[<<"engine", 0>>] = h[<<"engine", 0>>]
  BY DEF Holding, Everywhere
<1>8. Once(h)
  OBVIOUS
<1> HIDE DEF a, b, g, h
<1>9. Exchange(h, g, a, b)
  BY <1>3, <1>4, <1>5, <1>6, <1>7 DEF Exchange
<1>10. Once(g)
  BY <1>8, <1>9, Exchanged
<1>11. QED
  BY <1>10 DEF g, fr, en

(* The viewer takes a frame to render.                                     *)
LEMMA ViewerTakes ==
  ASSUME NEW free \in Seq(Frames), NEW worker \in [Lanes -> MaybeFrame],
         NEW slot \in [Lanes -> MaybeFrame], NEW engine,
         NEW render_ \in [Lanes -> MaybeFrame], NEW viewer \in [Lanes -> MaybeFrame],
         NEW l \in Lanes, viewer[l] = NoFrame,
         Once(Holding(free, worker, slot, engine, render_, viewer))
  PROVE  Once(Holding(free, worker, slot,
                      engine, [render_ EXCEPT ![l] = NoFrame],
                      [viewer EXCEPT ![l] = render_[l]]))
<1> DEFINE re == [render_ EXCEPT ![l] = NoFrame]
           vi == [viewer EXCEPT ![l] = render_[l]]
           h == Holding(free, worker, slot, engine, render_, viewer)
           g == Holding(free, worker, slot, engine, re, vi)
           a == <<"render", l>>
           b == <<"viewer", l>>
<1>1. re[l] = NoFrame /\ \A k \in Lanes : k # l => re[k] = render_[k]
  OBVIOUS
<1>2. vi[l] = render_[l] /\ \A k \in Lanes : k # l => vi[k] = viewer[k]
  OBVIOUS
<1> HIDE DEF re, vi
<1>3. a \in Everywhere /\ b \in Everywhere
  BY DEF Everywhere
<1>4. g[a] = h[b] /\ g[b] = h[a]
  BY <1>1, <1>2 DEF Holding, Everywhere
<1>5. ASSUME NEW i \in Nat \ {0}
      PROVE  <<"free", i>> \in {a, b} \/ g[<<"free", i>>] = h[<<"free", i>>]
  BY DEF Holding, Everywhere
<1>6. ASSUME NEW k \in Lanes
      PROVE  /\ <<"worker", k>> \in {a, b} \/ g[<<"worker", k>>] = h[<<"worker", k>>]
             /\ <<"slot", k>> \in {a, b}   \/ g[<<"slot", k>>] = h[<<"slot", k>>]
             /\ <<"render", k>> \in {a, b} \/ g[<<"render", k>>] = h[<<"render", k>>]
             /\ <<"viewer", k>> \in {a, b} \/ g[<<"viewer", k>>] = h[<<"viewer", k>>]
  BY <1>1, <1>2 DEF Holding, Everywhere
<1>7. <<"engine", 0>> \in {a, b} \/ g[<<"engine", 0>>] = h[<<"engine", 0>>]
  BY DEF Holding, Everywhere
<1>8. Once(h)
  OBVIOUS
<1> HIDE DEF a, b, g, h
<1>9. Exchange(h, g, a, b)
  BY <1>3, <1>4, <1>5, <1>6, <1>7 DEF Exchange
<1>10. Once(g)
  BY <1>8, <1>9, Exchanged
<1>11. QED
  BY <1>10 DEF g, re, vi

(* The viewer gives its frame back.                                        *)
LEMMA ViewerGives ==
  ASSUME NEW free \in Seq(Frames), NEW worker \in [Lanes -> MaybeFrame],
         NEW slot \in [Lanes -> MaybeFrame], NEW engine,
         NEW render_ \in [Lanes -> MaybeFrame], NEW viewer \in [Lanes -> MaybeFrame],
         NEW l \in Lanes, viewer[l] \in Frames,
         Once(Holding(free, worker, slot, engine, render_, viewer))
  PROVE  Once(Holding(Append(free, viewer[l]), worker, slot,
                      engine, render_, [viewer EXCEPT ![l] = NoFrame]))
<1> DEFINE fr == Append(free, viewer[l])
           vi == [viewer EXCEPT ![l] = NoFrame]
           h == Holding(free, worker, slot, engine, render_, viewer)
           g == Holding(fr, worker, slot, engine, render_, vi)
           a == <<"free", Len(free) + 1>>
           b == <<"viewer", l>>
<1>1. vi[l] = NoFrame /\ \A k \in Lanes : k # l => vi[k] = viewer[k]
  OBVIOUS
<1>2. /\ Len(free) + 1 \in Nat \ {0} /\ FreeAt(fr, Len(free) + 1) = viewer[l]
      /\ FreeAt(free, Len(free) + 1) = NoFrame
      /\ \A i \in Nat \ {0} : i # Len(free) + 1 => FreeAt(fr, i) = FreeAt(free, i)
  BY FreeAppend
<1> HIDE DEF fr, vi
<1>3. a \in Everywhere /\ b \in Everywhere
  BY <1>2 DEF Everywhere
<1>4. g[a] = h[b] /\ g[b] = h[a]
  BY <1>1, <1>2 DEF Holding, Everywhere
<1>5. ASSUME NEW i \in Nat \ {0}
      PROVE  <<"free", i>> \in {a, b} \/ g[<<"free", i>>] = h[<<"free", i>>]
  BY <1>2 DEF Holding, Everywhere
<1>6. ASSUME NEW k \in Lanes
      PROVE  /\ <<"worker", k>> \in {a, b} \/ g[<<"worker", k>>] = h[<<"worker", k>>]
             /\ <<"slot", k>> \in {a, b}   \/ g[<<"slot", k>>] = h[<<"slot", k>>]
             /\ <<"render", k>> \in {a, b} \/ g[<<"render", k>>] = h[<<"render", k>>]
             /\ <<"viewer", k>> \in {a, b} \/ g[<<"viewer", k>>] = h[<<"viewer", k>>]
  BY <1>1 DEF Holding, Everywhere
<1>7. <<"engine", 0>> \in {a, b} \/ g[<<"engine", 0>>] = h[<<"engine", 0>>]
  BY DEF Holding, Everywhere
<1>8. Once(h)
  OBVIOUS
<1> HIDE DEF a, b, g, h
<1>9. Exchange(h, g, a, b)
  BY <1>3, <1>4, <1>5, <1>6, <1>7 DEF Exchange
<1>10. Once(g)
  BY <1>8, <1>9, Exchanged
<1>11. QED
  BY <1>10 DEF g, fr, vi

(* No frame is in two places. *)
LEMMA Apart ==
  ASSUME NEW free, NEW worker, NEW slot, NEW engine, NEW render_, NEW viewer,
         Once(Holding(free, worker, slot, engine, render_, viewer)),
         NEW k \in Lanes, NEW l \in Lanes
  PROVE  /\ worker[k] \in Frames =>
              /\ worker[k] # slot[l] /\ worker[k] # engine /\ worker[k] # render_[l]
              /\ worker[k] # viewer[l] /\ (worker[k] = worker[l] => k = l)
         /\ slot[k] \in Frames =>
              /\ slot[k] # engine /\ slot[k] # render_[l] /\ slot[k] # viewer[l]
              /\ (slot[k] = slot[l] => k = l)
         /\ engine \in Frames => engine # render_[l] /\ engine # viewer[l]
         /\ render_[k] \in Frames =>
              render_[k] # viewer[l] /\ (render_[k] = render_[l] => k = l)
         /\ viewer[k] \in Frames => (viewer[k] = viewer[l] => k = l)
<1> DEFINE h == Holding(free, worker, slot, engine, render_, viewer)
<1>1. ASSUME NEW p \in Everywhere, NEW q \in Everywhere, h[p] = h[q], h[p] \in Frames
      PROVE  p = q
  <2>1. PICK r \in Everywhere : \A o \in Everywhere : h[o] = h[p] <=> o = r
    BY <1>1 DEF Once
  <2>2. QED
    BY <1>1, <2>1
<1>2. \A i \in {k, l} :
        /\ <<"worker", i>> \in Everywhere /\ h[<<"worker", i>>] = worker[i]
        /\ <<"slot", i>> \in Everywhere   /\ h[<<"slot", i>>] = slot[i]
        /\ <<"render", i>> \in Everywhere /\ h[<<"render", i>>] = render_[i]
        /\ <<"viewer", i>> \in Everywhere /\ h[<<"viewer", i>>] = viewer[i]
  BY DEF Holding, Everywhere
<1>3. <<"engine", 0>> \in Everywhere /\ h[<<"engine", 0>>] = engine
  BY DEF Holding, Everywhere
<1> HIDE DEF h
<1>4. worker[k] \in Frames =>
        /\ worker[k] # slot[l] /\ worker[k] # engine /\ worker[k] # render_[l]
        /\ worker[k] # viewer[l] /\ (worker[k] = worker[l] => k = l)
  BY <1>1, <1>2, <1>3
<1>5. slot[k] \in Frames =>
        /\ slot[k] # engine /\ slot[k] # render_[l] /\ slot[k] # viewer[l]
        /\ (slot[k] = slot[l] => k = l)
  BY <1>1, <1>2, <1>3
<1>6. engine \in Frames => engine # render_[l] /\ engine # viewer[l]
  BY <1>1, <1>2, <1>3
<1>7. render_[k] \in Frames =>
        render_[k] # viewer[l] /\ (render_[k] = render_[l] => k = l)
  BY <1>1, <1>2, <1>3
<1>8. viewer[k] \in Frames => (viewer[k] = viewer[l] => k = l)
  BY <1>1, <1>2, <1>3
<1>9. QED
  BY <1>4, <1>5, <1>6, <1>7, <1>8

-----------------------------------------------------------------------------
(* Who holds a frame when, and each frame once: the invariant everything   *)
(* else rests on.                                                          *)

WorkerHands == \A l \in Lanes :
  workerFrame[l] # NoFrame <=> workerPc[l] \in {"decode", "exchange", "release"}

EngineHands == engineFrame # NoFrame <=> pipelinePc \in {"accept", "exchange", "release"}

ViewerHands == \A l \in Lanes :
  frames[l] # NoFrame => \/ viewerPc = "render" /\ l >= viewerLane
                         \/ viewerPc = "take" /\ l < viewerLane

Hands == WorkerHands /\ EngineHands /\ ViewerHands

EachOnce == Once(Holding(free_list, workerFrame, buffers_, engineFrame,
                         LatestRenderFrame, frames))

OwnerInv == FramesTypeOK /\ Hands /\ EachOnce

(* The codes that stand for no frame and no lane are none of either.       *)
LEMMA ConstantsTyped ==
  /\ NUM_LANES \in Nat /\ NUM_LANES > 0
  /\ 0 \in Lanes /\ NoFrame \notin Frames
  /\ \A l \in Lanes : l \in Nat /\ (l + 1 < NUM_LANES => l + 1 \in Lanes)
BY FramesAssumption DEF Lanes, Frames, NoFrame

(* At the start every frame is free once and nobody holds any.             *)
LEMMA OwnerInit == Init => OwnerInv
<1> SUFFICES ASSUME Init PROVE OwnerInv
  OBVIOUS
<1> USE DEF Init
<1>1. free_list \in Seq(Frames) /\ Len(free_list) = PoolSize
  <2>1. \A i \in 1..PoolSize : i \in Frames
    BY DEF Frames
  <2>2. QED
    BY <2>1, FramesAssumption DEF Frames
<1>2. FramesTypeOK
  BY <1>1, ConstantsTyped DEF FramesTypeOK, Nowhere, Zero, Blank, MaybeFrame
<1>3. Hands
  BY DEF Hands, WorkerHands, EngineHands, ViewerHands, Nowhere
<1>4. EachOnce
  <2> DEFINE h == Holding(free_list, workerFrame, buffers_, engineFrame,
                          LatestRenderFrame, frames)
  <2> SUFFICES ASSUME NEW f \in Frames
               PROVE  \E p \in Everywhere : \A q \in Everywhere : h[q] = f <=> q = p
    BY DEF EachOnce, Once
  <2>1. f \in Nat \ {0} /\ f \in 1..Len(free_list) /\ free_list[f] = f
    BY <1>1, FramesAssumption DEF Frames
  <2>2. <<"free", f>> \in Everywhere
    BY <2>1 DEF Everywhere
  <2>3. ASSUME NEW q \in Everywhere
        PROVE  h[q] = f <=> q = <<"free", f>>
    <3>1. CASE \E i \in Nat \ {0} : q = <<"free", i>>
      <4>1. PICK i \in Nat \ {0} : q = <<"free", i>>
        BY <3>1
      <4>2. h[q] = FreeAt(free_list, i)
        BY <4>1 DEF Holding, Everywhere
      <4>3. FreeAt(free_list, i) = IF i \in Frames THEN i ELSE NoFrame
        BY <1>1 DEF FreeAt, Frames
      <4>4. QED
        BY <4>1, <4>2, <4>3, <2>1, ConstantsTyped
    <3>2. CASE \E l \in Lanes :
                 q \in {<<"worker", l>>, <<"slot", l>>, <<"render", l>>,
                                       <<"viewer", l>>}
      <4>1. PICK l \in Lanes :
                 q \in {<<"worker", l>>, <<"slot", l>>, <<"render", l>>,
                                      <<"viewer", l>>}
        BY <3>2
      <4>2. h[q] = NoFrame
        BY <4>1 DEF Holding, Everywhere, Nowhere
      <4>3. QED
        BY <4>1, <4>2, ConstantsTyped
    <3>3. CASE q = <<"engine", 0>>
      <4>1. h[q] = NoFrame
        BY <3>3 DEF Holding, Everywhere
      <4>2. QED
        BY <3>3, <4>1, ConstantsTyped
    <3>4. QED
      BY <3>1, <3>2, <3>3, EveryPlace
  <2>4. QED
    BY <2>2, <2>3
<1>5. QED
  BY <1>2, <1>3, <1>4 DEF OwnerInv

(* The lane after the last is the first.                                   *)
LEMMA LanesNext ==
  ASSUME laneId \in Lanes, NextLane
  PROVE  laneId' \in Lanes /\ pipelinePc' \in {"take", "publish"}
BY FramesAssumption DEF Lanes, NextLane

(* A released frame keeps the list and the numbers typed.                  *)
LEMMA ReleaseTyped ==
  ASSUME FramesTypeOK, NEW f \in Frames, release(f)
  PROVE  free_list' \in Seq(Frames) /\ FrameId' \in [Frames -> Nat]
BY FreeAppend DEF FramesTypeOK, release

(* One step for each operation: its types, who holds what afterwards, and  *)
(* the exchange of two places that it is.                                  *)
LEMMA OwnerNext == OwnerInv /\ [Next]_vars => OwnerInv'
<1> SUFFICES ASSUME OwnerInv, [Next]_vars PROVE OwnerInv'
  OBVIOUS
<1> USE ConstantsTyped
<1>1. FramesTypeOK /\ Hands /\ EachOnce
  BY DEF OwnerInv
<1>2. \A f : f \in MaybeFrame <=> f \in Frames \/ f = NoFrame
  BY DEF MaybeFrame
<1>3. ASSUME NEW l \in Lanes, acquire(l)
      PROVE  OwnerInv'
  <2>1. CASE free_list = <<>>
    BY <1>1, <1>3, <2>1 DEF OwnerInv, FramesTypeOK, Hands, WorkerHands, EngineHands,
       ViewerHands, EachOnce, acquire, poolVars, workerVars, pipelineVars, viewerVars
  <2>2. CASE free_list # <<>>
    <3>1. workerFrame[l] = NoFrame /\ free_list \in Seq(Frames)
      BY <1>1, <1>3 DEF acquire, FramesTypeOK, Hands, WorkerHands
    <3>2. /\ free_list' = SubSeq(free_list, 1, Len(free_list) - 1)
          /\ workerFrame' = [workerFrame EXCEPT ![l] = free_list[Len(free_list)]]
          /\ workerPc' = [workerPc EXCEPT ![l] = "decode"]
          /\ UNCHANGED <<FrameId, localFrameCounter, preview, image, buffers_,
                         pipelineVars, LatestRenderFrame, viewerVars>>
      BY <1>3, <2>2 DEF acquire
    <3>3. free_list' \in Seq(Frames) /\ free_list[Len(free_list)] \in Frames
      BY <2>2, <3>1, <3>2, FreeTake
    <3>4. FramesTypeOK'
      BY <1>1, <1>2, <3>2, <3>3 DEF FramesTypeOK, pipelineVars, viewerVars
    <3>5. Hands'
      BY <1>1, <1>2, <3>2, <3>3 DEF FramesTypeOK, Hands, WorkerHands, EngineHands,
         ViewerHands, pipelineVars, viewerVars
    <3>6. EachOnce'
      BY <1>1, <2>2, <3>1, <3>2, WorkerTakes DEF FramesTypeOK, EachOnce, pipelineVars,
         viewerVars
    <3>7. QED
      BY <3>4, <3>5, <3>6 DEF OwnerInv
  <2>3. QED
    BY <2>1, <2>2
<1>4. ASSUME NEW l \in Lanes, CaptureFails(l)
      PROVE  OwnerInv'
  <2>1. workerFrame[l] \in Frames
    BY <1>1, <1>2, <1>4 DEF FramesTypeOK, Hands, WorkerHands, CaptureFails
  <2>2. free_list' \in Seq(Frames) /\ FrameId' \in [Frames -> Nat]
    BY <1>1, <2>1, <1>4, ReleaseTyped DEF CaptureFails
  <2>3. FramesTypeOK'
    BY <1>1, <1>2, <1>4, <2>1, <2>2 DEF FramesTypeOK, CaptureFails, release,
       poolVars, workerVars,
       pipelineVars, viewerVars
  <2>4. Hands'
    BY <1>1, <1>2, <1>4, <2>1, <2>2 DEF FramesTypeOK, Hands, WorkerHands,
       EngineHands, ViewerHands, CaptureFails, release,
       poolVars, workerVars,
       pipelineVars, viewerVars
  <2>5. EachOnce'
    BY <1>1, <1>2, <1>4, <2>1, <2>2, WorkerGives DEF FramesTypeOK, EachOnce,
       CaptureFails, release,
       poolVars, workerVars,
       pipelineVars, viewerVars
  <2>6. QED
    BY <2>3, <2>4, <2>5 DEF OwnerInv
<1>5. ASSUME NEW l \in Lanes, Retrieve(l)
      PROVE  OwnerInv'
  <2>1. workerFrame[l] \in Frames
    BY <1>1, <1>2, <1>5 DEF FramesTypeOK, Hands, WorkerHands, Retrieve
  <2>2. FramesTypeOK'
    BY <1>1, <1>2, <1>5, <2>1 DEF FramesTypeOK, Retrieve,
       poolVars, workerVars,
       pipelineVars, viewerVars
  <2>3. Hands'
    BY <1>1, <1>2, <1>5, <2>1 DEF FramesTypeOK, Hands, WorkerHands, EngineHands,
       ViewerHands, Retrieve,
       poolVars, workerVars,
       pipelineVars, viewerVars
  <2>4. EachOnce'
    BY <1>1, <1>2, <1>5, <2>1 DEF FramesTypeOK, EachOnce, Retrieve,
       poolVars, workerVars,
       pipelineVars, viewerVars
  <2>5. QED
    BY <2>2, <2>3, <2>4 DEF OwnerInv
<1>6. ASSUME NEW l \in Lanes, exchange(l)
      PROVE  OwnerInv'
  <2>1. workerFrame[l] \in Frames
    BY <1>1, <1>2, <1>6 DEF FramesTypeOK, Hands, WorkerHands, exchange
  <2>2. FramesTypeOK'
    <3>1. workerFrame' \in [Lanes -> MaybeFrame] /\ buffers_' \in [Lanes -> MaybeFrame]
      BY <1>1, <1>6 DEF FramesTypeOK, exchange
    <3>2. workerPc' \in [Lanes -> {"acquire", "decode", "exchange", "release", "ended"}]
      BY <1>1, <1>6 DEF FramesTypeOK, exchange
    <3>3. FrameId' \in [Frames -> Nat] /\ localFrameCounter' \in [Lanes -> Nat]
      BY <1>1, <1>6, <2>1 DEF FramesTypeOK, exchange
    <3>4. UNCHANGED <<free_list, preview, image, pipelineVars, LatestRenderFrame, viewerVars>>
      BY <1>6 DEF exchange
    <3>5. QED
      BY <1>1, <3>1, <3>2, <3>3, <3>4 DEF FramesTypeOK, pipelineVars, viewerVars
  <2>3. Hands'
    BY <1>1, <1>2, <1>6, <2>1 DEF FramesTypeOK, Hands, WorkerHands, EngineHands,
       ViewerHands, exchange,
       poolVars, workerVars,
       pipelineVars, viewerVars
  <2>4. EachOnce'
    BY <1>1, <1>2, <1>6, <2>1, WorkerExchanges DEF FramesTypeOK, EachOnce, exchange,
       poolVars, workerVars,
       pipelineVars, viewerVars
  <2>5. QED
    BY <2>2, <2>3, <2>4 DEF OwnerInv
<1>7. ASSUME NEW l \in Lanes, ReleaseOld(l)
      PROVE  OwnerInv'
  <2>1. workerFrame[l] \in Frames
    BY <1>1, <1>2, <1>7 DEF FramesTypeOK, Hands, WorkerHands, ReleaseOld
  <2>2. free_list' \in Seq(Frames) /\ FrameId' \in [Frames -> Nat]
    BY <1>1, <2>1, <1>7, ReleaseTyped DEF ReleaseOld
  <2>3. FramesTypeOK'
    BY <1>1, <1>2, <1>7, <2>1, <2>2 DEF FramesTypeOK, ReleaseOld, release,
       poolVars, workerVars,
       pipelineVars, viewerVars
  <2>4. Hands'
    BY <1>1, <1>2, <1>7, <2>1, <2>2 DEF FramesTypeOK, Hands, WorkerHands,
       EngineHands, ViewerHands, ReleaseOld, release,
       poolVars, workerVars,
       pipelineVars, viewerVars
  <2>5. EachOnce'
    BY <1>1, <1>2, <1>7, <2>1, <2>2, WorkerGives DEF FramesTypeOK, EachOnce,
       ReleaseOld, release,
       poolVars, workerVars,
       pipelineVars, viewerVars
  <2>6. QED
    BY <2>3, <2>4, <2>5 DEF OwnerInv
<1>8. CASE take
  <2>1. laneId \in Lanes /\ engineFrame = NoFrame
    BY <1>1, <1>8 DEF FramesTypeOK, Hands, EngineHands, take
  <2>2. FramesTypeOK'
    BY <1>1, <1>2, <1>8, <2>1 DEF FramesTypeOK, take, NextLane,
       poolVars, workerVars,
       pipelineVars, viewerVars
  <2>3. Hands'
    BY <1>1, <1>2, <1>8, <2>1 DEF FramesTypeOK, Hands, WorkerHands, EngineHands,
       ViewerHands, take, NextLane,
       poolVars, workerVars,
       pipelineVars, viewerVars
  <2>4. EachOnce'
    BY <1>1, <1>2, <1>8, <2>1, EngineTakes DEF FramesTypeOK, EachOnce, take, NextLane,
       poolVars, workerVars,
       pipelineVars, viewerVars
  <2>5. QED
    BY <2>2, <2>3, <2>4 DEF OwnerInv
<1>9. CASE accept
  <2>1. engineFrame \in Frames
    BY <1>1, <1>2, <1>9 DEF FramesTypeOK, Hands, EngineHands, accept
  <2>2. FramesTypeOK'
    BY <1>1, <1>2, <1>9, <2>1 DEF FramesTypeOK, accept, buildLaneMetrics,
       poolVars, workerVars,
       pipelineVars, viewerVars
  <2>3. Hands'
    BY <1>1, <1>2, <1>9, <2>1 DEF FramesTypeOK, Hands, WorkerHands, EngineHands,
       ViewerHands, accept, buildLaneMetrics,
       poolVars, workerVars,
       pipelineVars, viewerVars
  <2>4. EachOnce'
    BY <1>1, <1>2, <1>9, <2>1 DEF FramesTypeOK, EachOnce, accept, buildLaneMetrics,
       poolVars, workerVars,
       pipelineVars, viewerVars
  <2>5. QED
    BY <2>2, <2>3, <2>4 DEF OwnerInv
<1>10. CASE HandOver
  <2>1. engineFrame \in Frames
    BY <1>1, <1>2, <1>10 DEF FramesTypeOK, Hands, EngineHands, HandOver
  <2>2. FramesTypeOK'
    BY <1>1, <1>2, <1>10, <2>1 DEF FramesTypeOK, HandOver, NextLane,
       poolVars, workerVars,
       pipelineVars, viewerVars
  <2>3. Hands'
    BY <1>1, <1>2, <1>10, <2>1 DEF FramesTypeOK, Hands, WorkerHands, EngineHands,
       ViewerHands, HandOver, NextLane,
       poolVars, workerVars,
       pipelineVars, viewerVars
  <2>4. EachOnce'
    BY <1>1, <1>2, <1>10, <2>1, EngineExchanges DEF FramesTypeOK, EachOnce, HandOver,
       NextLane,
       poolVars, workerVars,
       pipelineVars, viewerVars
  <2>5. QED
    BY <2>2, <2>3, <2>4 DEF OwnerInv
<1>11. CASE ReleaseRendered
  <2>1. engineFrame \in Frames
    BY <1>1, <1>2, <1>11 DEF FramesTypeOK, Hands, EngineHands, ReleaseRendered
  <2>2. free_list' \in Seq(Frames) /\ FrameId' \in [Frames -> Nat]
    BY <1>1, <2>1, <1>11, ReleaseTyped DEF ReleaseRendered
  <2>3. FramesTypeOK'
    <3>0. laneId \in Lanes
      BY <1>1 DEF FramesTypeOK
    <3>1. laneId' \in Lanes /\ pipelinePc' \in {"take", "publish"}
      BY <1>11, <3>0, LanesNext DEF ReleaseRendered
    <3>2. engineFrame' = NoFrame
      BY <1>11 DEF ReleaseRendered
    <3>3. UNCHANGED <<workerVars, buffers_, Metrics, published, LatestRenderFrame, viewerVars>>
      BY <1>11 DEF ReleaseRendered
    <3>4. QED
      BY <1>1, <2>2, <3>1, <3>2, <3>3 DEF FramesTypeOK, MaybeFrame, workerVars, viewerVars
  <2>4. Hands'
    BY <1>1, <1>2, <1>11, <2>1, <2>2 DEF FramesTypeOK, Hands, WorkerHands,
       EngineHands, ViewerHands, ReleaseRendered, NextLane, release,
       poolVars, workerVars,
       pipelineVars, viewerVars
  <2>5. EachOnce'
    BY <1>1, <1>2, <1>11, <2>1, <2>2, EngineGives DEF FramesTypeOK, EachOnce,
       ReleaseRendered, NextLane, release,
       poolVars, workerVars,
       pipelineVars, viewerVars
  <2>6. QED
    BY <2>3, <2>4, <2>5 DEF OwnerInv
<1>12. CASE broadcastSnapshot
  <2>1. FramesTypeOK'
    BY <1>1, <1>2, <1>12 DEF FramesTypeOK, broadcastSnapshot,
       poolVars, workerVars,
       pipelineVars, viewerVars
  <2>2. Hands'
    BY <1>1, <1>2, <1>12 DEF FramesTypeOK, Hands, WorkerHands, EngineHands,
       ViewerHands, broadcastSnapshot,
       poolVars, workerVars,
       pipelineVars, viewerVars
  <2>3. EachOnce'
    BY <1>1, <1>2, <1>12 DEF FramesTypeOK, EachOnce, broadcastSnapshot,
       poolVars, workerVars,
       pipelineVars, viewerVars
  <2>4. QED
    BY <2>1, <2>2, <2>3 DEF OwnerInv
<1>13. CASE latestPreviewFrame
  <2>1. FramesTypeOK'
    BY <1>1, <1>2, <1>13 DEF FramesTypeOK, latestPreviewFrame, NextViewerLane, Seen,
       poolVars, workerVars,
       pipelineVars, viewerVars
  <2>2. Hands'
    BY <1>1, <1>2, <1>13 DEF FramesTypeOK, Hands, WorkerHands, EngineHands,
       ViewerHands, latestPreviewFrame, NextViewerLane, Seen,
       poolVars, workerVars,
       pipelineVars, viewerVars
  <2>3. EachOnce'
    BY <1>1, <1>2, <1>13 DEF FramesTypeOK, EachOnce, latestPreviewFrame,
       NextViewerLane, Seen,
       poolVars, workerVars,
       pipelineVars, viewerVars
  <2>4. QED
    BY <2>1, <2>2, <2>3 DEF OwnerInv
<1>14. CASE takeRenderFrame
  <2>1. viewerLane \in Lanes /\ viewerLane \in Nat
    BY <1>1 DEF FramesTypeOK
  <2>2. frames[viewerLane] = NoFrame
    BY <1>1, <1>14, <2>1 DEF Hands, ViewerHands, takeRenderFrame
  <2>3. FramesTypeOK'
    BY <1>1, <1>2, <1>14 DEF FramesTypeOK, takeRenderFrame, NextViewerLane,
       poolVars, workerVars, pipelineVars
  <2>4. WorkerHands' /\ EngineHands'
    BY <1>1, <1>14 DEF Hands, WorkerHands, EngineHands, takeRenderFrame, workerVars,
       pipelineVars
  <2>5. ASSUME NEW l \in Lanes, frames'[l] # NoFrame
        PROVE  \/ viewerPc' = "render" /\ l >= viewerLane'
               \/ viewerPc' = "take" /\ l < viewerLane'
    <3>1. l <= viewerLane
      BY <1>1, <1>14, <2>1, <2>5 DEF Hands, ViewerHands, FramesTypeOK, takeRenderFrame
    <3>2. CASE viewerLane + 1 < NUM_LANES
      BY <1>14, <2>1, <3>1, <3>2 DEF takeRenderFrame, NextViewerLane
    <3>3. CASE ~(viewerLane + 1 < NUM_LANES)
      BY <1>14, <3>3 DEF takeRenderFrame, NextViewerLane
    <3>4. QED
      BY <3>2, <3>3
  <2>6. EachOnce'
    BY <1>1, <1>14, <2>1, <2>2, ViewerTakes DEF FramesTypeOK, EachOnce, takeRenderFrame,
       poolVars, workerVars, pipelineVars
  <2>7. QED
    BY <2>3, <2>4, <2>5, <2>6 DEF OwnerInv, Hands, ViewerHands
<1>15. CASE render
  <2>1. viewerLane \in Lanes /\ viewerLane \in Nat
    BY <1>1 DEF FramesTypeOK
  <2>2. free_list' \in Seq(Frames) /\ FrameId' \in [Frames -> Nat]
    <3>1. CASE frames[viewerLane] = NoFrame
      BY <1>1, <1>15, <3>1 DEF FramesTypeOK, render, poolVars
    <3>2. CASE frames[viewerLane] # NoFrame
      <4>1. frames[viewerLane] \in Frames /\ release(frames[viewerLane])
        BY <1>1, <1>2, <1>15, <2>1, <3>2 DEF FramesTypeOK, render
      <4>2. QED
        BY <1>1, <4>1, ReleaseTyped
    <3>3. QED
      BY <3>1, <3>2
  <2>3. FramesTypeOK'
    <3>1. lastRenderedFrames' \in [Lanes -> Lanes \cup {NoLane, Torn}]
      <4>1. previewFrames[viewerLane] \in Lanes \cup {NoLane, Torn}
        BY <1>1, <2>1 DEF FramesTypeOK
      <4>2. frames[viewerLane] # NoFrame =>
              Seen(frames[viewerLane]) \in Lanes \cup {NoLane, Torn}
        BY <1>1, <2>1 DEF FramesTypeOK, MaybeFrame, Seen
      <4>3. QED
        BY <1>1, <1>15, <4>1, <4>2 DEF FramesTypeOK, render
    <3>2. frames' \in [Lanes -> MaybeFrame] /\ previewFrames' \in [Lanes -> Lanes \cup {NoLane, Torn}]
      BY <1>1, <1>15 DEF FramesTypeOK, render, MaybeFrame
    <3>3. viewerLane' \in Lanes /\ viewerPc' \in {"preview", "render"}
      BY <1>1, <1>15 DEF FramesTypeOK, render, NextViewerLane, Lanes
    <3>4. UNCHANGED <<workerVars, buffers_, pipelineVars, LatestRenderFrame>>
      BY <1>15 DEF render
    <3>5. QED
      BY <1>1, <2>2, <3>1, <3>2, <3>3, <3>4 DEF FramesTypeOK, workerVars, pipelineVars
  <2>4. WorkerHands' /\ EngineHands'
    BY <1>1, <1>15 DEF Hands, WorkerHands, EngineHands, render, workerVars, pipelineVars
  <2>5. ASSUME NEW l \in Lanes, frames'[l] # NoFrame
        PROVE  \/ viewerPc' = "render" /\ l >= viewerLane'
               \/ viewerPc' = "take" /\ l < viewerLane'
    <3>1. l # viewerLane /\ frames[l] # NoFrame
      BY <1>1, <1>15, <2>1, <2>5 DEF FramesTypeOK, render
    <3>2. l \in Nat /\ l >= viewerLane + 1 /\ l < NUM_LANES
      BY <1>1, <1>15, <2>1, <3>1 DEF Hands, ViewerHands, render, Lanes
    <3>3. viewerLane' = viewerLane + 1 /\ viewerPc' = "render"
      BY <1>15, <2>1, <3>2 DEF render, NextViewerLane
    <3>4. QED
      BY <3>2, <3>3
  <2>6. EachOnce'
    <3>1. CASE frames[viewerLane] = NoFrame
      <4>1. frames' = frames
        BY <1>1, <1>15, <3>1 DEF FramesTypeOK, render
      <4>2. QED
        BY <1>1, <1>15, <3>1, <4>1 DEF EachOnce, render, poolVars, workerVars,
           pipelineVars
    <3>2. CASE frames[viewerLane] # NoFrame
      <4>1. frames[viewerLane] \in Frames
        BY <1>1, <1>2, <2>1, <3>2 DEF FramesTypeOK
      <4>2. free_list' = Append(free_list, frames[viewerLane])
        BY <1>15, <3>2 DEF render, release
      <4>3. QED
        BY <1>1, <1>15, <2>1, <4>1, <4>2, ViewerGives DEF FramesTypeOK, EachOnce,
           render,
           workerVars, pipelineVars
    <3>3. QED
      BY <3>1, <3>2
  <2>7. QED
    BY <2>3, <2>4, <2>5, <2>6 DEF OwnerInv, Hands, ViewerHands
<1>16. CASE UNCHANGED vars
  BY <1>1, <1>16 DEF OwnerInv, FramesTypeOK, Hands, WorkerHands, EngineHands,
     ViewerHands,
     EachOnce, vars, poolVars, workerVars,
     pipelineVars, viewerVars
<1>17. QED
  BY <1>3, <1>4, <1>5, <1>6, <1>7, <1>8, <1>9, <1>10, <1>11, <1>12, <1>13, <1>14,
     <1>15, <1>16
     DEF Next, WorkerStep, PipelineStep, ViewerStep

(* Each frame in one of the unbounded places is in one of the real ones.   *)
LEMMA OneOwnerHolds == OwnerInv => OneOwner
<1> SUFFICES ASSUME OwnerInv, NEW f \in Frames
             PROVE  \E p \in Places : \A q \in Places : Held(q) = f <=> q = p
  BY DEF OneOwner
<1> DEFINE h == Holding(free_list, workerFrame, buffers_, engineFrame,
                        LatestRenderFrame, frames)
<1>1. PICK p \in Everywhere : \A q \in Everywhere : h[q] = f <=> q = p
  BY DEF OwnerInv, EachOnce, Once
<1>2. ASSUME NEW q \in Places
      PROVE  q \in Everywhere /\ h[q] = Held(q)
  <2>1. CASE q \in {<<"free", i>> : i \in 1..Len(free_list)}
    <3>1. PICK i \in 1..Len(free_list) : q = <<"free", i>>
      BY <2>1
    <3>2. free_list \in Seq(Frames)
      BY DEF OwnerInv, FramesTypeOK
    <3>3. i \in Nat \ {0}
      BY <3>2, LenProperties
    <3>4. QED
      BY <3>1, <3>3 DEF Everywhere, Holding, FreeAt, Held
  <2>2. CASE q \in {"worker", "slot", "render", "viewer"} \X Lanes
    BY <2>2 DEF Everywhere, Holding, Held
  <2>3. CASE q = <<"engine", 0>>
    BY <2>3 DEF Everywhere, Holding, Held
  <2>4. QED
    BY <2>1, <2>2, <2>3 DEF Places
<1>3. p \in Places
  <2>1. CASE \E i \in Nat \ {0} : p = <<"free", i>>
    <3>1. PICK i \in Nat \ {0} : p = <<"free", i>>
      BY <2>1
    <3>2. FreeAt(free_list, i) = f
      BY <1>1, <3>1 DEF Holding, Everywhere
    <3>3. i \in 1..Len(free_list)
      BY <3>2, ConstantsTyped DEF FreeAt
    <3>4. QED
      BY <3>1, <3>3 DEF Places
  <2>2. CASE \E l \in Lanes : p \in {<<"worker", l>>, <<"slot", l>>, <<"render", l>>,
                                     <<"viewer", l>>}
    BY <2>2 DEF Places
  <2>3. CASE p = <<"engine", 0>>
    BY <2>3 DEF Places
  <2>4. QED
    BY <2>1, <2>2, <2>3, EveryPlace
<1> HIDE DEF h
<1>4. QED
  BY <1>1, <1>2, <1>3

(* A number below 4 * NUM_LANES for each place but the free list and the   *)
(* worker of lane l; that of the engine is the one this worker leaves.     *)
Code(l, p) ==
  IF p[1] = "slot" THEN p[2]
  ELSE IF p[1] = "render" THEN NUM_LANES + p[2]
  ELSE IF p[1] = "viewer" THEN 2 * NUM_LANES + p[2]
  ELSE IF p[1] = "worker" THEN 3 * NUM_LANES + p[2]
  ELSE 3 * NUM_LANES + l

(* The places other than the free list and the hand of worker l, which is  *)
(* empty when it acquires, are numbered without repetition.                *)
LEMMA CodesDiffer ==
  ASSUME NEW l \in Lanes,
         NEW p \in ({"worker", "slot", "render", "viewer"} \X Lanes) \cup {<<"engine", 0>>},
         NEW q \in ({"worker", "slot", "render", "viewer"} \X Lanes) \cup {<<"engine", 0>>},
         p # <<"worker", l>>, q # <<"worker", l>>
  PROVE  /\ Code(l, p) \in 0..(4 * NUM_LANES - 1)
         /\ Code(l, p) = Code(l, q) => p = q
<1>1. /\ NUM_LANES \in Nat /\ l \in 0..(NUM_LANES - 1)
      /\ Lanes = 0..(NUM_LANES - 1)
  BY FramesAssumption DEF Lanes
<1>2. ASSUME NEW o \in ({"worker", "slot", "render", "viewer"} \X Lanes) \cup {<<"engine", 0>>},
             o # <<"worker", l>>
      PROVE  \/ o = <<"slot", o[2]>> /\ o[2] \in Lanes /\ Code(l, o) = o[2]
             \/ o = <<"render", o[2]>> /\ o[2] \in Lanes /\ Code(l, o) = NUM_LANES + o[2]
             \/ o = <<"viewer", o[2]>> /\ o[2] \in Lanes /\ Code(l, o) = 2 * NUM_LANES + o[2]
             \/ /\ o = <<"worker", o[2]>> /\ o[2] \in Lanes \ {l}
                /\ Code(l, o) = 3 * NUM_LANES + o[2]
             \/ o = <<"engine", 0>> /\ Code(l, o) = 3 * NUM_LANES + l
  BY <1>2 DEF Code
<1> DEFINE c == Code(l, p)
           d == Code(l, q)
           i == p[2]
           j == q[2]
<1>3. \/ p = <<"slot", i>> /\ i \in Lanes /\ c = i
      \/ p = <<"render", i>> /\ i \in Lanes /\ c = NUM_LANES + i
      \/ p = <<"viewer", i>> /\ i \in Lanes /\ c = 2 * NUM_LANES + i
      \/ p = <<"worker", i>> /\ i \in Lanes \ {l} /\ c = 3 * NUM_LANES + i
      \/ p = <<"engine", 0>> /\ c = 3 * NUM_LANES + l
  BY <1>2
<1>4. \/ q = <<"slot", j>> /\ j \in Lanes /\ d = j
      \/ q = <<"render", j>> /\ j \in Lanes /\ d = NUM_LANES + j
      \/ q = <<"viewer", j>> /\ j \in Lanes /\ d = 2 * NUM_LANES + j
      \/ q = <<"worker", j>> /\ j \in Lanes \ {l} /\ d = 3 * NUM_LANES + j
      \/ q = <<"engine", 0>> /\ d = 3 * NUM_LANES + l
  BY <1>2
<1> HIDE DEF c, d, i, j
<1>5. c \in 0..(4 * NUM_LANES - 1)
  BY <1>1, <1>3
<1>6. c = d => p = q
  BY <1>1, <1>3, <1>4
<1>7. QED
  BY <1>5, <1>6 DEF c, d

(* With no free frame, more frames than places to hold them: a pigeon      *)
(* hole with two.                                                          *)
LEMMA PoolHolds == OwnerInv => PoolNeverEmpty
<1> SUFFICES ASSUME OwnerInv, NEW l \in Lanes, workerPc[l] = "acquire", free_list = <<>>
             PROVE  FALSE
  BY DEF PoolNeverEmpty
<1> DEFINE h == Holding(free_list, workerFrame, buffers_, engineFrame,
                        LatestRenderFrame, frames)
           Taken == ({"worker", "slot", "render", "viewer"} \X Lanes) \cup {<<"engine", 0>>}
           place(f) == CHOOSE p \in Everywhere : h[p] = f
           T == 0..(4 * NUM_LANES - 1)
           F == [f \in Frames |-> Code(l, place(f))]
<1>1. \A f \in Frames : place(f) \in Everywhere /\ h[place(f)] = f
  BY DEF OwnerInv, EachOnce, Once
<1>2. \A i \in Nat \ {0} : h[<<"free", i>>] = NoFrame
  BY DEF Holding, Everywhere, FreeAt
<1>3. h[<<"worker", l>>] = NoFrame
  BY DEF Holding, Everywhere, OwnerInv, Hands, WorkerHands
<1> HIDE DEF place, h
<1>4. ASSUME NEW f \in Frames
      PROVE  place(f) \in Taken /\ place(f) # <<"worker", l>>
  <2>1. h[place(f)] # NoFrame
    BY <1>1, ConstantsTyped
  <2>2. QED
    BY <1>1, <1>2, <1>3, <2>1 DEF Everywhere
<1> HIDE DEF Taken
<1>5. F \in [Frames -> T]
  BY <1>4, CodesDiffer DEF Taken
<1>6. /\ IsFiniteSet(Frames) /\ Cardinality(Frames) = PoolSize
      /\ IsFiniteSet(T) /\ Cardinality(T) = 4 * NUM_LANES
  <2>1. /\ 1 \in Int /\ PoolSize \in Int /\ PoolSize >= 1 /\ PoolSize - 1 + 1 = PoolSize
        /\ 0 \in Int /\ 4 * NUM_LANES - 1 \in Int /\ 0 <= 4 * NUM_LANES - 1
        /\ 4 * NUM_LANES - 1 - 0 + 1 = 4 * NUM_LANES
    BY FramesAssumption
  <2>2. IsFiniteSet(1..PoolSize) /\ Cardinality(1..PoolSize) = PoolSize
    BY <2>1, FS_Interval
  <2>3. IsFiniteSet(T) /\ Cardinality(T) = 4 * NUM_LANES
    BY <2>1, FS_Interval
  <2>4. QED
    BY <2>2, <2>3 DEF Frames
<1>7. PICK x \in Frames, y \in Frames : x # y /\ F[x] = F[y]
  <2>1. Cardinality(T) < Cardinality(Frames)
    BY <1>6, FramesAssumption
  <2> HIDE DEF F, T
  <2>2. QED
    BY <1>5, <1>6, <2>1, FS_PigeonHole
<1>8. place(x) = place(y)
  BY <1>4, <1>7, CodesDiffer DEF Taken
<1>9. QED
  BY <1>1, <1>7, <1>8

(* The invariant holds throughout.                                         *)
LEMMA OwnerInvariant == Spec => []OwnerInv
<1>1. Init => OwnerInv
  BY OwnerInit
<1>2. OwnerInv /\ [Next]_vars => OwnerInv'
  BY OwnerNext
<1>3. QED
  BY <1>1, <1>2, PTL DEF Spec

(* Every variable has its type, whatever the pool's threads do. *)
THEOREM FramesTyped == Spec => []FramesTypeOK
BY OwnerInvariant, PTL DEF OwnerInv

(* Each frame of the pool is in the hands of one thread, in one slot, or   *)
(* free once, for any number of lanes: none is lost or given back twice.   *)
THEOREM FramesHaveOneOwner == Spec => []OneOwner
BY OwnerInvariant, OneOwnerHolds, PTL

(* A pool of more than four frames a lane never runs dry when a worker     *)
(* asks for one: the twenty of initModule are three more than needed.      *)
THEOREM PoolSuffices == Spec => []PoolNeverEmpty
BY OwnerInvariant, PoolHolds, PTL

-----------------------------------------------------------------------------
(* Numbers: the metrics of a lane are older than its frame in the slot,    *)
(* and than the one being analysed, which is older than that in the slot.  *)

NumberInv ==
  /\ \A l \in Lanes :
       /\ published[l] <= Metrics[l] /\ Metrics[l] <= localFrameCounter[l]
       /\ buffers_[l] # NoFrame => /\ Metrics[l] < FrameId[buffers_[l]]
                                   /\ FrameId[buffers_[l]] <= localFrameCounter[l]
  /\ pipelinePc = "accept" =>
       /\ Metrics[laneId] < FrameId[engineFrame]
       /\ FrameId[engineFrame] <= localFrameCounter[laneId]
       /\ buffers_[laneId] # NoFrame => FrameId[engineFrame] < FrameId[buffers_[laneId]]

(* At the start all numbers are zero.                                      *)
LEMMA NumberInit == Init => NumberInv
BY ConstantsTyped DEF Init, NumberInv, Zero, Nowhere

(* What holds a frame holds it apart from the others. *)
LEMMA HeldApart ==
  ASSUME OwnerInv, NEW k \in Lanes, NEW l \in Lanes
  PROVE  /\ workerFrame[k] # NoFrame =>
              /\ workerFrame[k] # buffers_[l] /\ workerFrame[k] # engineFrame
              /\ workerFrame[k] # LatestRenderFrame[l] /\ workerFrame[k] # frames[l]
              /\ (workerFrame[k] = workerFrame[l] => k = l)
         /\ buffers_[k] # NoFrame =>
              /\ buffers_[k] # engineFrame /\ buffers_[k] # LatestRenderFrame[l]
              /\ buffers_[k] # frames[l] /\ (buffers_[k] = buffers_[l] => k = l)
         /\ engineFrame # NoFrame =>
              engineFrame # LatestRenderFrame[l] /\ engineFrame # frames[l]
         /\ LatestRenderFrame[k] # NoFrame =>
              /\ LatestRenderFrame[k] # frames[l]
              /\ (LatestRenderFrame[k] = LatestRenderFrame[l] => k = l)
         /\ frames[k] # NoFrame => (frames[k] = frames[l] => k = l)
<1>1. /\ workerFrame[k] \in MaybeFrame /\ buffers_[k] \in MaybeFrame
      /\ engineFrame \in MaybeFrame /\ LatestRenderFrame[k] \in MaybeFrame
      /\ frames[k] \in MaybeFrame
  BY DEF OwnerInv, FramesTypeOK
<1>2. QED
  BY <1>1, Apart DEF OwnerInv, EachOnce, MaybeFrame

(* Giving a frame back clears its number, and no other.                    *)
LEMMA ReleaseKeepsNumbers ==
  ASSUME OwnerInv, NumberInv, NEW f \in Frames, release(f),
         f # engineFrame \/ pipelinePc # "accept", \A l \in Lanes : f # buffers_[l],
         pipelinePc' # "accept"
            \/ (pipelinePc = "accept" /\ UNCHANGED <<laneId, engineFrame>>),
         UNCHANGED <<Metrics, published, localFrameCounter, buffers_>>
  PROVE  NumberInv'
<1>1. \A g \in Frames : g # f => FrameId'[g] = FrameId[g]
  BY DEF release, OwnerInv, FramesTypeOK
<1>2. \A l \in Lanes : buffers_[l] # NoFrame => buffers_[l] \in Frames
  BY DEF OwnerInv, FramesTypeOK, MaybeFrame
<1>3. /\ laneId \in Lanes
      /\ pipelinePc = "accept" => engineFrame \in Frames
  BY DEF OwnerInv, FramesTypeOK, MaybeFrame, Hands, EngineHands
<1>4. QED
  BY <1>1, <1>2, <1>3 DEF NumberInv

(* Steps that move no number keep the invariant of the numbers.            *)
LEMMA NumberUnchanged ==
  ASSUME NumberInv,
         UNCHANGED <<FrameId, Metrics, published, localFrameCounter, buffers_, laneId,
                     engineFrame, pipelinePc>>
  PROVE  NumberInv'
BY DEF NumberInv

(* Every step keeps the invariant of the numbers.                          *)
LEMMA NumberNext ==
  ASSUME OwnerInv, NumberInv, [Next]_vars
  PROVE  NumberInv' /\ \A l \in Lanes : published'[l] >= published[l]
<1> USE ConstantsTyped
<1>1. FramesTypeOK /\ Hands
  BY DEF OwnerInv
<1>2. /\ laneId \in Lanes
      /\ \A l \in Lanes : /\ published[l] \in Nat /\ Metrics[l] \in Nat
                          /\ localFrameCounter[l] \in Nat
                          /\ buffers_[l] # NoFrame => buffers_[l] \in Frames
                          /\ workerFrame[l] # NoFrame => workerFrame[l] \in Frames
      /\ \A f \in Frames : FrameId[f] \in Nat
      /\ engineFrame # NoFrame => engineFrame \in Frames
  BY <1>1 DEF FramesTypeOK, MaybeFrame
<1>3. ASSUME NEW l \in Lanes, acquire(l)
      PROVE  NumberInv' /\ published' = published
  BY <1>3 DEF acquire, NumberInv, pipelineVars
<1>4. ASSUME NEW l \in Lanes, CaptureFails(l) \/ ReleaseOld(l)
      PROVE  NumberInv' /\ published' = published
  <2>1. workerFrame[l] \in Frames /\ release(workerFrame[l])
    BY <1>1, <1>2, <1>4 DEF Hands, WorkerHands, CaptureFails, ReleaseOld
  <2>2. workerFrame[l] # engineFrame /\ \A k \in Lanes : workerFrame[l] # buffers_[k]
    BY <2>1, HeldApart
  <2>3. UNCHANGED <<Metrics, published, localFrameCounter, buffers_, laneId, engineFrame,
                    pipelinePc>>
    BY <1>4 DEF CaptureFails, ReleaseOld, pipelineVars
  <2>4. QED
    BY <2>1, <2>2, <2>3, ReleaseKeepsNumbers
<1>5. ASSUME NEW l \in Lanes, Retrieve(l)
      PROVE  NumberInv' /\ published' = published
  BY <1>5 DEF Retrieve, NumberInv, pipelineVars, poolVars
<1>6. ASSUME NEW l \in Lanes, exchange(l)
      PROVE  NumberInv' /\ published' = published
  <2>1. workerFrame[l] \in Frames
    BY <1>1, <1>2, <1>6 DEF Hands, WorkerHands, exchange
  <2>2. workerFrame[l] # engineFrame /\ \A k \in Lanes : workerFrame[l] # buffers_[k]
    BY <2>1, HeldApart
  <2>3. /\ localFrameCounter'[l] = localFrameCounter[l] + 1
        /\ \A k \in Lanes : k # l => localFrameCounter'[k] = localFrameCounter[k]
        /\ FrameId'[workerFrame[l]] = localFrameCounter[l] + 1
        /\ \A f \in Frames : f # workerFrame[l] => FrameId'[f] = FrameId[f]
        /\ buffers_'[l] = workerFrame[l]
        /\ \A k \in Lanes : k # l => buffers_'[k] = buffers_[k]
        /\ UNCHANGED <<Metrics, published, laneId, engineFrame, pipelinePc>>
    BY <1>1, <1>6, <2>1 DEF FramesTypeOK, exchange, pipelineVars
  <2>4. ASSUME NEW k \in Lanes
        PROVE  /\ published[k] <= Metrics[k] /\ Metrics[k] <= localFrameCounter'[k]
               /\ buffers_'[k] # NoFrame => /\ Metrics[k] < FrameId'[buffers_'[k]]
                                            /\ FrameId'[buffers_'[k]] <= localFrameCounter'[k]
    <3>1. CASE k = l
      BY <1>2, <2>3, <3>1 DEF NumberInv
    <3>2. CASE k # l
      BY <1>2, <2>2, <2>3, <3>2 DEF NumberInv
    <3>3. QED
      BY <3>1, <3>2
  <2>5. ASSUME pipelinePc = "accept"
        PROVE  /\ Metrics[laneId] < FrameId'[engineFrame]
               /\ FrameId'[engineFrame] <= localFrameCounter'[laneId]
               /\ buffers_'[laneId] # NoFrame => FrameId'[engineFrame] < FrameId'[buffers_'[laneId]]
    <3>1. engineFrame \in Frames
      BY <1>1, <1>2, <2>5 DEF Hands, EngineHands
    <3>2. FrameId'[engineFrame] = FrameId[engineFrame]
      BY <2>2, <2>3, <3>1
    <3>3. CASE laneId = l
      BY <1>2, <2>3, <2>5, <3>1, <3>2, <3>3 DEF NumberInv
    <3>4. CASE laneId # l
      BY <1>2, <2>2, <2>3, <2>5, <3>1, <3>2, <3>4 DEF NumberInv
    <3>5. QED
      BY <3>3, <3>4
  <2>6. QED
    BY <2>3, <2>4, <2>5 DEF NumberInv
<1>7. ASSUME take
      PROVE  NumberInv'
  BY <1>1, <1>2, <1>7 DEF FramesTypeOK, take, NextLane, NumberInv, poolVars, workerVars
<1>8. ASSUME accept
      PROVE  NumberInv'
  <2>1. engineFrame \in Frames
    BY <1>1, <1>2, <1>8 DEF Hands, EngineHands, accept
  <2>2. /\ Metrics'[laneId] = FrameId[engineFrame]
        /\ \A k \in Lanes : k # laneId => Metrics'[k] = Metrics[k]
    BY <1>1, <1>8 DEF FramesTypeOK, accept, buildLaneMetrics
  <2>3. ASSUME NEW k \in Lanes
        PROVE  /\ published[k] <= Metrics'[k] /\ Metrics'[k] <= localFrameCounter[k]
               /\ buffers_[k] # NoFrame => /\ Metrics'[k] < FrameId[buffers_[k]]
                                           /\ FrameId[buffers_[k]] <= localFrameCounter[k]
    BY <1>2, <1>8, <2>1, <2>2 DEF NumberInv, accept
  <2>4. /\ UNCHANGED <<published, localFrameCounter, buffers_, FrameId>>
        /\ pipelinePc' = "exchange"
    BY <1>8 DEF accept, poolVars, workerVars
  <2>5. QED
    BY <2>3, <2>4 DEF NumberInv
<1>9. ASSUME HandOver
      PROVE  NumberInv'
  BY <1>2, <1>9 DEF HandOver, NextLane, NumberInv, poolVars, workerVars
<1>10. ASSUME ReleaseRendered
      PROVE  NumberInv'
  <2>1. engineFrame \in Frames /\ release(engineFrame)
    BY <1>1, <1>2, <1>10 DEF Hands, EngineHands, ReleaseRendered
  <2>2. \A k \in Lanes : engineFrame # buffers_[k]
    BY <2>1, HeldApart
  <2>3. /\ UNCHANGED <<Metrics, published, localFrameCounter, buffers_>>
        /\ pipelinePc' # "accept" /\ pipelinePc # "accept"
    BY <1>10 DEF ReleaseRendered, NextLane, workerVars
  <2>4. QED
    BY <2>1, <2>2, <2>3, ReleaseKeepsNumbers
<1>11. ASSUME broadcastSnapshot
      PROVE  NumberInv'
  BY <1>2, <1>11 DEF broadcastSnapshot, NumberInv, poolVars, workerVars
<1>12. ASSUME latestPreviewFrame \/ takeRenderFrame
      PROVE  NumberInv'
  <2>1. CASE latestPreviewFrame
    BY <2>1, NumberUnchanged DEF latestPreviewFrame, poolVars, workerVars, pipelineVars
  <2>2. CASE takeRenderFrame
    BY <2>2, NumberUnchanged DEF takeRenderFrame, poolVars, workerVars, pipelineVars
  <2>3. QED
    BY <1>12, <2>1, <2>2
<1>13. ASSUME render
      PROVE  NumberInv'
  <2>1. viewerLane \in Lanes /\ frames[viewerLane] \in MaybeFrame
    BY <1>1 DEF FramesTypeOK
  <2>2. CASE frames[viewerLane] = NoFrame
    BY <1>13, <2>2, NumberUnchanged DEF render, poolVars, workerVars, pipelineVars
  <2>3. CASE frames[viewerLane] # NoFrame
    <3>1. frames[viewerLane] \in Frames /\ release(frames[viewerLane])
      BY <1>13, <2>1, <2>3 DEF render, MaybeFrame
    <3>2. frames[viewerLane] # engineFrame /\ \A k \in Lanes : frames[viewerLane] # buffers_[k]
      BY <2>1, <2>3, HeldApart
    <3>3. UNCHANGED <<Metrics, published, localFrameCounter, buffers_, laneId, engineFrame,
                      pipelinePc>>
      BY <1>13 DEF render, workerVars, pipelineVars
    <3>4. QED
      BY <3>1, <3>2, <3>3, ReleaseKeepsNumbers
  <2>4. QED
    BY <2>2, <2>3
<1>14. ASSUME UNCHANGED vars
      PROVE  NumberInv'
  BY <1>14, NumberUnchanged DEF vars, poolVars, workerVars, pipelineVars
<1>15. published' = published => \A l \in Lanes : published'[l] >= published[l]
  BY <1>2
<1>16. QED
  <2>1. ASSUME NEW l \in Lanes, WorkerStep(l)
        PROVE  NumberInv' /\ published' = published
    BY <1>3, <1>4, <1>5, <1>6, <2>1 DEF WorkerStep
  <2>2. CASE ViewerStep
    BY <1>2, <1>12, <1>13, <2>2 DEF ViewerStep, latestPreviewFrame, takeRenderFrame,
       render, pipelineVars
  <2>3. CASE PipelineStep
    BY <1>2, <1>7, <1>8, <1>9, <1>10, <1>11, <2>3 DEF PipelineStep, take, accept,
       HandOver,
       ReleaseRendered, broadcastSnapshot, NumberInv
  <2>4. QED
    BY <1>14, <1>15, <2>1, <2>2, <2>3 DEF Next, vars, pipelineVars

(* No snapshot says something older of a lane than the one before it.      *)
THEOREM SnapshotsGoForward == Spec => SnapshotsForward
<1>1. Init => NumberInv
  BY NumberInit
<1>2. OwnerInv /\ NumberInv /\ [Next]_vars => NumberInv'
  BY NumberNext
<1>3. OwnerInv /\ NumberInv /\ [Next]_vars
        => [\A l \in Lanes : published'[l] >= published[l]]_vars
  BY NumberNext
<1>4. QED
  BY <1>1, <1>2, <1>3, OwnerInvariant, PTL DEF Spec, SnapshotsForward

-----------------------------------------------------------------------------
(* Images: a frame on its way from the worker of a lane to the viewer      *)
(* holds an image of the lane, and while nothing of the lane has been      *)
(* shown, the preview shares the buffer of the newest frame on that way.   *)

ImageInv ==
  /\ \A l \in Lanes :
       /\ workerPc[l] = "exchange" => image[workerFrame[l]] = l
       /\ buffers_[l] # NoFrame => image[buffers_[l]] = l
       /\ LatestRenderFrame[l] # NoFrame => image[LatestRenderFrame[l]] = l
       /\ frames[l] # NoFrame => image[frames[l]] = l
  /\ pipelinePc \in {"accept", "exchange"} => image[engineFrame] = laneId

Newest(l) ==
  IF workerPc[l] = "exchange" THEN workerFrame[l]
  ELSE IF buffers_[l] # NoFrame THEN buffers_[l]
  ELSE IF pipelinePc \in {"accept", "exchange"} /\ laneId = l THEN engineFrame
  ELSE IF LatestRenderFrame[l] # NoFrame THEN LatestRenderFrame[l]
  ELSE frames[l]

PreviewInv ==
  \A l \in Lanes :
    /\ lastRenderedFrames[l] \in {NoLane, l}
    /\ lastRenderedFrames[l] = NoLane => /\ preview[l] = Newest(l)
                                         /\ previewFrames[l] \in {NoLane, l}

PictureInv == ImageInv /\ PreviewInv

(* At the start nothing is on its way and nothing is shown.                *)
LEMMA PictureInit == Init => PictureInv
BY DEF Init, PictureInv, ImageInv, PreviewInv, Newest, Nowhere, Blank

(* A frame on its way to the viewer is not the one a worker decodes into.  *)
LEMMA PictureSeen ==
  ASSUME OwnerInv, ImageInv, NEW l \in Lanes
  PROVE  /\ frames[l] # NoFrame => Seen(frames[l]) = l
         /\ Newest(l) # NoFrame => Seen(Newest(l)) = l
         /\ pipelinePc = "accept" => Seen(engineFrame) = laneId
<1>1. Hands
  BY DEF OwnerInv
<1>2. ASSUME NEW k \in Lanes, workerPc[k] = "decode"
      PROVE  /\ workerFrame[k] # buffers_[l] /\ workerFrame[k] # engineFrame
             /\ workerFrame[k] # LatestRenderFrame[l] /\ workerFrame[k] # frames[l]
             /\ workerFrame[k] = workerFrame[l] => k = l
  BY <1>1, <1>2, HeldApart DEF Hands, WorkerHands
<1>3. frames[l] # NoFrame => Seen(frames[l]) = l
  BY <1>2 DEF ImageInv, Seen
<1>4. pipelinePc = "accept" => Seen(engineFrame) = laneId
  BY <1>2 DEF ImageInv, Seen
<1>5. ASSUME Newest(l) # NoFrame
      PROVE  Seen(Newest(l)) = l
  <2>1. CASE workerPc[l] = "exchange"
    BY <1>2, <2>1 DEF ImageInv, Seen, Newest
  <2>2. CASE workerPc[l] # "exchange"
    BY <1>2, <1>5, <2>2 DEF ImageInv, Seen, Newest
  <2>3. QED
    BY <2>1, <2>2
<1>6. QED
  BY <1>3, <1>4, <1>5

(* Every step keeps the images where they belong.                          *)
LEMMA ImageNext ==
  ASSUME OwnerInv, ImageInv, [Next]_vars
  PROVE  ImageInv'
<1>1. FramesTypeOK /\ Hands
  BY DEF OwnerInv
<1>2. /\ laneId \in Lanes /\ viewerLane \in Lanes
      /\ workerFrame \in [Lanes -> MaybeFrame] /\ buffers_ \in [Lanes -> MaybeFrame]
      /\ LatestRenderFrame \in [Lanes -> MaybeFrame] /\ frames \in [Lanes -> MaybeFrame]
      /\ workerPc \in [Lanes -> {"acquire", "decode", "exchange", "release", "ended"}]
      /\ image \in [Frames -> Lanes \cup {NoLane}]
  BY <1>1 DEF FramesTypeOK
<1>3. ASSUME NEW l \in Lanes, acquire(l) \/ CaptureFails(l) \/ ReleaseOld(l)
      PROVE  ImageInv'
  <2>1. \A k \in Lanes : workerPc'[k] = "exchange" =>
          workerPc[k] = "exchange" /\ workerFrame'[k] = workerFrame[k]
    BY <1>2, <1>3 DEF acquire, CaptureFails, ReleaseOld
  <2>2. UNCHANGED <<image, buffers_, LatestRenderFrame, frames, pipelinePc, laneId,
                   engineFrame>>
    BY <1>3 DEF acquire, CaptureFails, ReleaseOld, pipelineVars, viewerVars
  <2>3. QED
    BY <2>1, <2>2 DEF ImageInv
<1>4. ASSUME NEW l \in Lanes, Retrieve(l)
      PROVE  ImageInv'
  <2>1. workerFrame[l] \in Frames
    BY <1>1, <1>2, <1>4 DEF Hands, WorkerHands, Retrieve, MaybeFrame
  <2>2. /\ workerFrame[l] # engineFrame
        /\ \A k \in Lanes :
             /\ workerFrame[l] # buffers_[k] /\ workerFrame[l] # LatestRenderFrame[k]
             /\ workerFrame[l] # frames[k] /\ (workerFrame[l] = workerFrame[k] => l = k)
    BY <2>1, HeldApart, ConstantsTyped
  <2>3. /\ image'[workerFrame[l]] = l
        /\ \A f \in Frames : f # workerFrame[l] => image'[f] = image[f]
        /\ \A k \in Lanes : k # l => workerPc'[k] = workerPc[k]
        /\ UNCHANGED <<workerFrame, buffers_, LatestRenderFrame, frames, pipelinePc,
                       laneId, engineFrame>>
    BY <1>2, <1>4, <2>1 DEF Retrieve, pipelineVars, viewerVars
  <2>4. /\ \A k \in Lanes : /\ workerPc[k] = "exchange" => workerFrame[k] \in Frames
                            /\ buffers_[k] # NoFrame => buffers_[k] \in Frames
                            /\ LatestRenderFrame[k] # NoFrame => LatestRenderFrame[k] \in Frames
                            /\ frames[k] # NoFrame => frames[k] \in Frames
        /\ pipelinePc \in {"accept", "exchange"} => engineFrame \in Frames
    BY <1>1, <1>2 DEF Hands, WorkerHands, EngineHands, MaybeFrame, FramesTypeOK
  <2>5. ASSUME NEW k \in Lanes
        PROVE  /\ workerPc'[k] = "exchange" => image'[workerFrame[k]] = k
               /\ buffers_[k] # NoFrame => image'[buffers_[k]] = k
               /\ LatestRenderFrame[k] # NoFrame => image'[LatestRenderFrame[k]] = k
               /\ frames[k] # NoFrame => image'[frames[k]] = k
    BY <2>2, <2>3, <2>4 DEF ImageInv
  <2>6. pipelinePc \in {"accept", "exchange"} => image'[engineFrame] = laneId
    BY <2>2, <2>3, <2>4 DEF ImageInv
  <2>7. QED
    BY <2>3, <2>5, <2>6 DEF ImageInv
<1>5. ASSUME NEW l \in Lanes, exchange(l)
      PROVE  ImageInv'
  BY <1>2, <1>5 DEF ImageInv, exchange, pipelineVars, viewerVars
<1>6. ASSUME take
      PROVE  ImageInv'
  BY <1>2, <1>6 DEF ImageInv, take, NextLane, workerVars, viewerVars
<1>7. ASSUME accept
      PROVE  ImageInv'
  BY <1>2, <1>7 DEF ImageInv, accept, workerVars, viewerVars
<1>8. ASSUME HandOver
      PROVE  ImageInv'
  BY <1>2, <1>8 DEF ImageInv, HandOver, NextLane, workerVars, viewerVars
<1>9. ASSUME ReleaseRendered \/ broadcastSnapshot
      PROVE  ImageInv'
  BY <1>9 DEF ImageInv, ReleaseRendered, broadcastSnapshot, NextLane, workerVars,
     viewerVars
<1>10. ASSUME latestPreviewFrame
       PROVE  ImageInv'
  BY <1>10 DEF ImageInv, latestPreviewFrame, workerVars, pipelineVars
<1>11. ASSUME takeRenderFrame
       PROVE  ImageInv'
  BY <1>2, <1>11 DEF ImageInv, takeRenderFrame, workerVars, pipelineVars
<1>12. ASSUME render
       PROVE  ImageInv'
  BY <1>2, <1>12 DEF ImageInv, render, workerVars, pipelineVars
<1>13. ASSUME UNCHANGED vars
       PROVE  ImageInv'
  BY <1>13 DEF ImageInv, vars, workerVars, pipelineVars, viewerVars
<1>14. QED
  BY <1>3, <1>4, <1>5, <1>6, <1>7, <1>8, <1>9, <1>10, <1>11, <1>12, <1>13
     DEF Next, WorkerStep, PipelineStep, ViewerStep

(* Every step keeps the previews at the newest frame on its way.           *)
LEMMA PreviewNext ==
  ASSUME OwnerInv, PictureInv, [Next]_vars
  PROVE  PreviewInv'
<1>1. FramesTypeOK /\ Hands /\ PreviewInv /\ ImageInv
  BY DEF OwnerInv, PictureInv
<1>2. /\ laneId \in Lanes /\ viewerLane \in Lanes
      /\ workerFrame \in [Lanes -> MaybeFrame] /\ buffers_ \in [Lanes -> MaybeFrame]
      /\ LatestRenderFrame \in [Lanes -> MaybeFrame] /\ frames \in [Lanes -> MaybeFrame]
      /\ workerPc \in [Lanes -> {"acquire", "decode", "exchange", "release", "ended"}]
      /\ preview \in [Lanes -> MaybeFrame]
      /\ previewFrames \in [Lanes -> Lanes \cup {NoLane, Torn}]
      /\ lastRenderedFrames \in [Lanes -> Lanes \cup {NoLane, Torn}]
  BY <1>1 DEF FramesTypeOK
<1>2a. \A l \in Lanes : l # NoLane
  BY ConstantsTyped DEF NoLane
<1>3. ASSUME NEW l \in Lanes, acquire(l) \/ CaptureFails(l) \/ ReleaseOld(l)
      PROVE  PreviewInv'
  <2>1. \A k \in Lanes : Newest(k)' = Newest(k)
    <3>1. CASE acquire(l)
      BY <1>2, <3>1 DEF Newest, acquire, pipelineVars, viewerVars
    <3>2. CASE CaptureFails(l)
      BY <1>2, <3>2 DEF Newest, CaptureFails, pipelineVars, viewerVars
    <3>3. CASE ReleaseOld(l)
      BY <1>2, <3>3 DEF Newest, ReleaseOld, pipelineVars, viewerVars
    <3>4. QED
      BY <1>3, <3>1, <3>2, <3>3
  <2>2. UNCHANGED <<preview, previewFrames, lastRenderedFrames>>
    BY <1>3 DEF acquire, CaptureFails, ReleaseOld, viewerVars
  <2>3. QED
    BY <1>1, <2>1, <2>2 DEF PreviewInv
<1>4. ASSUME NEW l \in Lanes, Retrieve(l)
      PROVE  PreviewInv'
  <2>1. preview'[l] = Newest(l)'
    BY <1>2, <1>4 DEF Newest, Retrieve
  <2>2. \A k \in Lanes : k # l => preview'[k] = preview[k] /\ Newest(k)' = Newest(k)
    BY <1>2, <1>4 DEF Newest, Retrieve, pipelineVars, viewerVars
  <2>3. QED
    BY <1>1, <1>4, <2>1, <2>2 DEF PreviewInv, Retrieve, viewerVars
<1>5. ASSUME NEW l \in Lanes, exchange(l)
      PROVE  PreviewInv'
  <2>1. workerFrame[l] # NoFrame
    BY <1>1, <1>5 DEF Hands, WorkerHands, exchange
  <2>2. \A k \in Lanes : Newest(k)' = Newest(k)
    BY <1>2, <1>5, <2>1 DEF Newest, exchange, pipelineVars, viewerVars
  <2>3. QED
    BY <1>1, <1>5, <2>2 DEF PreviewInv, exchange, viewerVars
<1>6. ASSUME PipelineStep
      PROVE  PreviewInv'
  <2>1. \A k \in Lanes : Newest(k)' = Newest(k)
    <3>1. CASE take
      BY <1>2, <3>1 DEF Newest, take, NextLane, workerVars, viewerVars
    <3>2. CASE accept
      BY <3>2 DEF Newest, accept, workerVars, viewerVars
    <3>3. CASE HandOver
      <4>1. engineFrame # NoFrame
        BY <1>1, <3>3 DEF Hands, EngineHands, HandOver
      <4>2. QED
        BY <1>2, <3>3, <4>1 DEF Newest, HandOver, NextLane, workerVars, viewerVars
    <3>4. CASE ReleaseRendered
      BY <3>4 DEF Newest, ReleaseRendered, NextLane, workerVars, viewerVars
    <3>5. CASE broadcastSnapshot
      BY <3>5 DEF Newest, broadcastSnapshot, workerVars, viewerVars
    <3>6. QED
      BY <1>6, <3>1, <3>2, <3>3, <3>4, <3>5 DEF PipelineStep
  <2>2. UNCHANGED <<preview, previewFrames, lastRenderedFrames>>
    BY <1>6 DEF PipelineStep, take, accept, HandOver, ReleaseRendered,
       broadcastSnapshot,
       workerVars, viewerVars
  <2>3. QED
    BY <1>1, <2>1, <2>2 DEF PreviewInv
<1>7. ASSUME latestPreviewFrame
      PROVE  PreviewInv'
  <2>1. \A k \in Lanes : Newest(k)' = Newest(k)
    BY <1>7 DEF Newest, latestPreviewFrame, workerVars, pipelineVars
  <2>2. UNCHANGED <<preview, lastRenderedFrames>>
    BY <1>7 DEF latestPreviewFrame, workerVars
  <2>3. ASSUME lastRenderedFrames[viewerLane] = NoLane
        PROVE  previewFrames'[viewerLane] \in {NoLane, viewerLane}
    <3>1. preview[viewerLane] = Newest(viewerLane)
      BY <1>1, <1>2, <2>3 DEF PreviewInv
    <3>2. preview[viewerLane] # NoFrame => Seen(preview[viewerLane]) = viewerLane
      BY <1>1, <1>2, <3>1, PictureSeen
    <3>3. QED
      BY <1>2, <1>7, <3>2 DEF latestPreviewFrame
  <2>4. \A k \in Lanes : k # viewerLane => previewFrames'[k] = previewFrames[k]
    BY <1>2, <1>7 DEF latestPreviewFrame
  <2>5. QED
    BY <1>1, <2>1, <2>2, <2>3, <2>4 DEF PreviewInv
<1>8. ASSUME takeRenderFrame
      PROVE  PreviewInv'
  <2>0. viewerLane \in Nat
    BY <1>2, ConstantsTyped
  <2>1. frames[viewerLane] = NoFrame
    BY <1>1, <1>2, <1>8, <2>0 DEF Hands, ViewerHands, takeRenderFrame
  <2>2. \A k \in Lanes : Newest(k)' = Newest(k)
    BY <1>2, <1>8, <2>1 DEF Newest, takeRenderFrame, workerVars, pipelineVars
  <2>3. QED
    BY <1>1, <1>8, <2>2 DEF PreviewInv, takeRenderFrame, workerVars
<1>9. ASSUME render
      PROVE  PreviewInv'
  <2>1. \A k \in Lanes : k # viewerLane => Newest(k)' = Newest(k)
    BY <1>2, <1>9 DEF Newest, render, workerVars, pipelineVars
  <2>2. \A k \in Lanes : k # viewerLane =>
          /\ previewFrames'[k] = previewFrames[k]
          /\ lastRenderedFrames'[k] = lastRenderedFrames[k]
    BY <1>2, <1>9 DEF render
  <2>3. preview' = preview /\ previewFrames'[viewerLane] = NoLane
    BY <1>2, <1>9 DEF render, workerVars
  <2>4. CASE frames[viewerLane] # NoFrame
    <3>1. lastRenderedFrames'[viewerLane] = viewerLane
      BY <1>1, <1>2, <1>9, <2>4, PictureSeen DEF render
    <3>2. QED
      BY <1>1, <1>2, <1>2a, <2>1, <2>2, <2>3, <3>1 DEF PreviewInv
  <2>5. CASE frames[viewerLane] = NoFrame
    <3>0. frames' = frames
      BY <1>2, <1>9, <2>5 DEF render
    <3>0a. UNCHANGED <<workerPc, workerFrame, buffers_, pipelinePc, laneId, engineFrame,
                     LatestRenderFrame>>
      BY <1>9 DEF render, workerVars, pipelineVars
    <3>1. \A k \in Lanes : Newest(k)' = Newest(k)
      BY <3>0, <3>0a DEF Newest
    <3>2. lastRenderedFrames'[viewerLane] =
            IF lastRenderedFrames[viewerLane] = NoLane THEN previewFrames[viewerLane]
            ELSE lastRenderedFrames[viewerLane]
      BY <1>2, <1>9, <2>5 DEF render
    <3>3. ASSUME NEW k \in Lanes, k = viewerLane
          PROVE  /\ lastRenderedFrames'[k] \in {NoLane, k}
                 /\ lastRenderedFrames'[k] = NoLane =>
                      preview[k] = Newest(k) /\ previewFrames'[k] \in {NoLane, k}
      BY <1>1, <1>2, <2>3, <3>2, <3>3 DEF PreviewInv
    <3>4. ASSUME NEW k \in Lanes, k # viewerLane
          PROVE  /\ lastRenderedFrames'[k] \in {NoLane, k}
                 /\ lastRenderedFrames'[k] = NoLane =>
                      preview[k] = Newest(k) /\ previewFrames'[k] \in {NoLane, k}
      BY <1>1, <2>2, <3>4 DEF PreviewInv
    <3>5. QED
      BY <2>3, <3>1, <3>3, <3>4 DEF PreviewInv
  <2>6. QED
    BY <2>4, <2>5
<1>10. ASSUME UNCHANGED vars
       PROVE  PreviewInv'
  BY <1>1, <1>10 DEF PreviewInv, Newest, vars, workerVars, pipelineVars, viewerVars
<1>11. QED
  BY <1>3, <1>4, <1>5, <1>6, <1>7, <1>8, <1>9, <1>10 DEF Next, WorkerStep, ViewerStep

(* No buffer is decoded into while it is analysed or drawn, and no lane    *)
(* shows the picture of another: the previews, whose buffers are shared,   *)
(* are only shown while the frame they share is on its way to the viewer.  *)
THEOREM PicturesAreRight == Spec => []RightImage
<1>1. Init => PictureInv
  BY PictureInit
<1>2. OwnerInv /\ PictureInv /\ [Next]_vars => PictureInv'
  BY ImageNext, PreviewNext DEF PictureInv
<1>3. OwnerInv /\ PictureInv => RightImage
  BY PictureSeen, ConstantsTyped DEF PictureInv, PreviewInv, RightImage
<1>4. QED
  BY <1>1, <1>2, <1>3, OwnerInvariant, PTL DEF Spec

=============================================================================

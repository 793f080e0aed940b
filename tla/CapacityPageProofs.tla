------------------------- MODULE CapacityPageProofs -------------------------
(***************************************************************************)
(* Proofs about CapacityPageService.                                       *)
(***************************************************************************)
EXTENDS CapacityPageService, FiniteSetTheorems, WellFoundedInduction, TLAPS

(***************************************************************************)
(* The page cache.                                                         *)
(***************************************************************************)
CacheTypes ==
  /\ page \in [Frames -> Pages \cup {NoPage}]
  /\ referenced \in [Frames -> BOOLEAN]
  /\ dirty \in [Frames -> BOOLEAN]
  /\ evicting \in [Frames -> BOOLEAN]
  /\ generation \in [Frames -> Nat]
  /\ hand \in Frames
  /\ pageToFrame \in [Pages -> Frames \cup {NoFrame}]
  /\ evictingPages \in [Pages -> Frames \cup {NoFrame}]

(* the frames are numbered from zero, and there is one *)
Numbered == \E n \in FrameCounts : Frames = 0..(n - 1)

(* the maps and the frames point at one another, and no page is in both maps *)
Maps ==
  /\ \A p \in Pages : pageToFrame[p] # NoFrame =>
       page[pageToFrame[p]] = p /\ ~evicting[pageToFrame[p]]
  /\ \A p \in Pages : evictingPages[p] # NoFrame =>
       page[evictingPages[p]] = p /\ evicting[evictingPages[p]]
  /\ \A f \in Frames : page[f] # NoPage =>
       /\ evicting[f] => evictingPages[page[f]] = f
       /\ ~evicting[f] => pageToFrame[page[f]] = f
  /\ \A f \in Frames : dirty[f] \/ evicting[f] => page[f] # NoPage
  /\ \A p \in Pages : pageToFrame[p] = NoFrame \/ evictingPages[p] = NoFrame

CacheInv == Numbered /\ CacheTypes /\ Maps

(* A set of numbers has a least one. *)
LEMMA Least ==
  ASSUME NEW T, T \subseteq Nat, T # {}
  PROVE  \E x \in T : \A y \in T : x <= y
<1>1. PICK x \in T : \A y \in T : ~(<<y, x>> \in OpToRel(<, Nat))
  BY NatLessThanWellFounded, WFMin, Zenon
<1>2. \A y \in Nat : y < x => <<y, x>> \in OpToRel(<, Nat)
  BY Zenon DEF OpToRel
<1>3. \A y \in T : ~(y < x)
  BY <1>1, <1>2, Zenon
<1> QED BY <1>3

(* frames_.size() is the number of the frames *)
LEMMA FrameNumbers ==
  ASSUME Numbered
  PROVE  /\ FrameCount \in Nat \ {0} /\ Frames = 0..(FrameCount - 1)
         /\ IsFiniteSet(Frames)
<1>1. PICK n \in FrameCounts : Frames = 0..(n - 1)
  BY Zenon DEF Numbered
<1>2. n \in Nat \ {0}
  BY FramesAssumption, Zenon
<1>3. Cardinality(0..(n - 1)) = n /\ IsFiniteSet(0..(n - 1))
  BY <1>2, FS_Interval
<1> QED BY <1>1, <1>2, <1>3, Zenon DEF FrameCount

(* ... and -1 is none of them *)
LEMMA NoFrameApart ==
  ASSUME Numbered
  PROVE  NoFrame \notin Frames
BY FrameNumbers DEF NoFrame

(* the hand moves from frame to frame *)
LEMMA AdvanceType ==
  ASSUME Numbered, NEW f \in Frames
  PROVE  Advance(f) \in Frames
BY FrameNumbers DEF Advance

(* A set of frames has a least one in the order of the hand. *)
LEMMA LeastTurn ==
  ASSUME CacheInv, NEW S, S \subseteq Frames, S # {}
  PROVE  \E f \in S : \A g \in S : Turn(f) <= Turn(g)
<1> DEFINE T == {Turn(f) : f \in S}
<1>1. \A f \in Frames : Turn(f) \in Nat
  BY FrameNumbers DEF CacheInv, CacheTypes, Turn
<1>2. T \subseteq Nat /\ T # {}
  BY <1>1, Zenon
<1>3. PICK x \in T : \A y \in T : x <= y
  <2> HIDE DEF T
  <2> QED BY <1>2, Least, Zenon
<1>4. PICK f \in S : x = Turn(f)
  BY Zenon
<1> QED BY <1>3, <1>4, Zenon

(* a set of frames has a first one in the order of the hand *)
LEMMA FirstIn ==
  ASSUME CacheInv, NEW S, S \subseteq Frames, S # {}
  PROVE  FirstInTurn(S) \in S
BY LeastTurn, Zenon DEF FirstInTurn

(* the victim of a scan is one of the eligible frames *)
LEMMA VictimIn ==
  ASSUME CacheInv, NEW E, E \subseteq Frames, E # {}
  PROVE  Victim(E) \in E
<1> DEFINE U == {f \in E : ~referenced[f]}
<1>1. U \subseteq E
  BY Zenon
<1>2. CASE U # {}
  <2>1. FirstInTurn(U) \in U
    <3> HIDE DEF U
    <3> QED BY <1>1, <1>2, FirstIn, Zenon
  <2> QED BY <1>1, <1>2, <2>1, Zenon DEF Victim
<1>3. CASE U = {}
  BY <1>3, FirstIn, Zenon DEF Victim
<1> QED BY <1>2, <1>3, Zenon

(***************************************************************************)
(* The scan of begin_eviction_locked finds what Victim and Spared say.     *)
(***************************************************************************)

(* Division with remainder. *)
LEMMA Division ==
  ASSUME NEW n \in Nat \ {0}, NEW a \in Nat
  PROVE  /\ a \div n \in Int /\ a % n \in 0..(n - 1)
         /\ a = n * (a \div n) + (a % n)
BY SMT

(* The remainder of a number below n, and of one in the next lap. *)
LEMMA Lap ==
  ASSUME NEW n \in Nat \ {0}, NEW a \in Nat
  PROVE  /\ a < n => a % n = a
         /\ a >= n /\ a < n + n => a % n = a - n
         /\ a >= n + n /\ a < n + n + n => a % n = a - n - n
<1>1. /\ a \div n \in Int /\ a % n \in 0..(n - 1)
      /\ a = n * (a \div n) + (a % n)
  BY Division, Zenon
<1> QED BY <1>1, SMTT(30)

(* Where the hand is after n visits, in the order of the frames. *)
Pos(n) == (hand + n) % FrameCount

(* The referenced bits after n visits, none of which took a frame. *)
Visited(E, n) == [f \in Frames |-> referenced[f] /\ ~(f \in E /\ Turn(f) < n)]

(* The number of visits before the one that takes the victim. *)
TakenAt(E) ==
  IF \A f \in E : referenced[f] THEN FrameCount + Turn(Victim(E))
  ELSE Turn(Victim(E))

(* The state of the loop after n visits. *)
After(E, n) ==
  IF E = {} \/ n <= TakenAt(E)
  THEN [hand |-> Pos(n), referenced |-> Visited(E, n), victim |-> NoFrame]
  ELSE [hand |-> Pos(TakenAt(E) + 1), referenced |-> Visited(E, TakenAt(E)),
        victim |-> Victim(E)]

(* One visit. *)
Visit(E, s) ==
  LET f == s.hand
      moved == [s EXCEPT !.hand = Advance(f)]
  IN IF s.victim # NoFrame THEN s
     ELSE IF f \notin E THEN moved
     ELSE IF s.referenced[f] THEN [moved EXCEPT !.referenced[f] = FALSE]
     ELSE [moved EXCEPT !.victim = f]

Loop(E, g, n) ==
  IF n = 0 THEN [hand |-> hand, referenced |-> referenced, victim |-> NoFrame]
  ELSE Visit(E, g[n - 1])

(* The loop of the model, as the function it is defined to be. *)
LEMMA ScanIsLoop ==
  ASSUME NEW E, NEW N
  PROVE  ScanVisits(E, N) =
           (CHOOSE g : g = [n \in 0..N |-> Loop(E, g, n)])[N]
BY Zenon DEF ScanVisits, Loop, Visit

(* The hand goes round the frames. *)
LEMMA Round ==
  ASSUME CacheInv
  PROVE  /\ Pos(0) = hand /\ Pos(2 * FrameCount) = hand
         /\ \A n \in 0..(2 * FrameCount) : Pos(n) \in Frames
         /\ \A n \in 0..(2 * FrameCount - 1) : Advance(Pos(n)) = Pos(n + 1)
         /\ \A n \in 0..(FrameCount - 1) : Turn(Pos(n)) = n
         /\ \A n \in 0..(FrameCount - 1) : Pos(n + FrameCount) = Pos(n)
         /\ \A f \in Frames : /\ Turn(f) \in 0..(FrameCount - 1)
                              /\ Pos(Turn(f)) = f /\ Pos(Turn(f) + FrameCount) = f
                              /\ Pos(Turn(f) + 1) = Advance(f)
                              /\ Pos(Turn(f) + FrameCount + 1) = Advance(f)
<1> DEFINE F == FrameCount
<1>1. F \in Nat \ {0} /\ Frames = 0..(F - 1) /\ hand \in 0..(F - 1)
  BY FrameNumbers, Zenon DEF CacheInv, CacheTypes
<1>2. \A a \in Nat : /\ a < F => a % F = a
                     /\ a >= F /\ a < F + F => a % F = a - F
                     /\ a >= F + F /\ a < F + F + F => a % F = a - F - F
  <2> HIDE DEF F
  <2> QED BY <1>1, Lap, Zenon
<1>3. \A n \in 0..(2 * F) :
        /\ hand + n < F => Pos(n) = hand + n
        /\ hand + n >= F /\ hand + n < F + F => Pos(n) = hand + n - F
        /\ hand + n >= F + F => Pos(n) = hand + n - F - F
  BY <1>1, <1>2 DEF Pos
<1>4. \A f \in Frames : /\ f >= hand => Turn(f) = f - hand
                        /\ f < hand => Turn(f) = f + F - hand
  BY <1>1, <1>2 DEF Turn
<1>5. \A f \in Frames : /\ f < F - 1 => Advance(f) = f + 1
                        /\ f = F - 1 => Advance(f) = 0
  BY <1>1, <1>2 DEF Advance
<1> HIDE DEF F
<1>6. Pos(0) = hand /\ Pos(2 * F) = hand
  BY <1>1, <1>3
<1>7. \A n \in 0..(2 * F) : Pos(n) \in Frames
  BY <1>1, <1>3
<1>9. \A n \in 0..(2 * F - 1) : Advance(Pos(n)) = Pos(n + 1)
  <2> SUFFICES ASSUME NEW n \in 0..(2 * F - 1) PROVE Advance(Pos(n)) = Pos(n + 1)
    BY Zenon
  <2>1. n \in 0..(2 * F) /\ n + 1 \in 0..(2 * F) /\ n \in Int
    BY <1>1
  <2>2. Pos(n) \in 0..(F - 1)
    BY <1>1, <1>7, <2>1, Zenon
  <2>3. CASE hand + n < F
    BY <1>1, <1>3, <1>5, <2>1, <2>2, <2>3
  <2>4. CASE hand + n >= F /\ hand + n < F + F
    BY <1>1, <1>3, <1>5, <2>1, <2>2, <2>4
  <2>5. CASE hand + n >= F + F
    BY <1>1, <1>3, <1>5, <2>1, <2>2, <2>5
  <2> QED BY <1>1, <2>1, <2>3, <2>4, <2>5
<1>10. \A n \in 0..(F - 1) : Turn(Pos(n)) = n
  BY <1>1, <1>3, <1>4, <1>7
<1>11. \A n \in 0..(F - 1) : Pos(n + F) = Pos(n)
  BY <1>1, <1>3
<1>12. \A f \in Frames : Turn(f) \in 0..(F - 1) /\ Pos(Turn(f)) = f
  BY <1>1, <1>3, <1>4
<1>13. \A f \in Frames : /\ Pos(Turn(f) + F) = f /\ Pos(Turn(f) + 1) = Advance(f)
                         /\ Pos(Turn(f) + F + 1) = Advance(f)
  <2> SUFFICES ASSUME NEW f \in Frames
               PROVE  /\ Pos(Turn(f) + F) = f /\ Pos(Turn(f) + 1) = Advance(f)
                      /\ Pos(Turn(f) + F + 1) = Advance(f)
    BY Zenon
  <2>1. Pos(Turn(f) + F) = f
    BY <1>11, <1>12, Zenon
  <2>2. Turn(f) \in 0..(F - 1)
    BY <1>12, Zenon
  <2>3. Turn(f) \in 0..(2 * F - 1) /\ Turn(f) + F \in 0..(2 * F - 1)
    BY <1>1, <2>2
  <2> QED BY <1>9, <1>12, <2>1, <2>3, Zenon
<1> QED BY <1>6, <1>7, <1>9, <1>10, <1>11, <1>12, <1>13, Zenon DEF F

(* The first of a set of frames comes before the others. *)
LEMMA FirstIsLeast ==
  ASSUME CacheInv, NEW S, S \subseteq Frames, S # {}
  PROVE  \A g \in S : Turn(FirstInTurn(S)) <= Turn(g)
<1>1. \E f \in S : \A g \in S : Turn(f) <= Turn(g)
  BY LeastTurn, Zenon
<1> QED BY <1>1, Zenon DEF FirstInTurn

(* When the victim is taken, and what was passed over before. *)
LEMMA Taken ==
  ASSUME CacheInv, NEW E, E \subseteq Frames, E # {}
  PROVE  /\ TakenAt(E) \in 0..(2 * FrameCount - 1)
         /\ Victim(E) \in E /\ Pos(TakenAt(E)) = Victim(E)
         /\ Pos(TakenAt(E) + 1) = Advance(Victim(E))
         /\ Visited(E, TakenAt(E))[Victim(E)] = FALSE
         /\ \A n \in 0..(TakenAt(E) - 1) : Pos(n) \in E =>
              n < FrameCount /\ referenced[Pos(n)]
<1> DEFINE F == FrameCount
           v == Victim(E)
           U == {f \in E : ~referenced[f]}
<1>1. F \in Nat \ {0} /\ Frames = 0..(F - 1)
  BY FrameNumbers, Zenon DEF CacheInv
<1>2. v \in E /\ v \in Frames
  BY VictimIn, Zenon
<1>3. Turn(v) \in 0..(F - 1)
  BY <1>2, Round, Zenon
<1>4. CASE U = {}
  <2>1. \A f \in E : referenced[f]
    BY <1>4, Zenon
  <2>2. TakenAt(E) = F + Turn(v)
    BY <2>1, Zenon DEF TakenAt
  <2>3. \A g \in E : Turn(v) <= Turn(g)
    BY <1>4, FirstIsLeast, Zenon DEF Victim
  <2>4. Pos(Turn(v) + F) = v /\ Pos(Turn(v) + F + 1) = Advance(v)
    BY <1>2, Round, Zenon
  <2>5. TakenAt(E) \in 0..(2 * F - 1) /\ TakenAt(E) = Turn(v) + F /\ Turn(v) < TakenAt(E)
    BY <1>1, <1>3, <2>2
  <2>6. ASSUME NEW n \in 0..(TakenAt(E) - 1), Pos(n) \in E
        PROVE  n < F /\ referenced[Pos(n)]
    <3>1. CASE n < F
      BY <2>1, <2>6, <3>1, Zenon
    <3>2. CASE n >= F
      <4>1. n - F \in 0..(F - 1) /\ n - F < Turn(v) /\ n = (n - F) + F
        BY <1>1, <1>3, <2>5, <3>2
      <4>2. Pos(n) = Pos(n - F) /\ Turn(Pos(n - F)) = n - F
        BY <4>1, Round, Zenon
      <4>3. Turn(Pos(n)) < Turn(v)
        BY <4>1, <4>2, Zenon
      <4>4. Turn(v) <= Turn(Pos(n))
        BY <2>3, <2>6, Zenon
      <4> QED BY <1>1, <1>3, <4>1, <4>2, <4>3, <4>4
    <3> QED BY <1>1, <2>5, <3>1, <3>2
  <2>7. Visited(E, TakenAt(E))[v] = FALSE
    BY <1>2, <2>5, Zenon DEF Visited
  <2> QED BY <1>2, <2>4, <2>5, <2>6, <2>7, Zenon
<1>5. CASE U # {}
  <2>1. ~(\A f \in E : referenced[f])
    BY <1>5, Zenon
  <2>2. TakenAt(E) = Turn(v)
    BY <2>1, Zenon DEF TakenAt
  <2>3. v = FirstInTurn(U) /\ U \subseteq Frames
    BY <1>5, Zenon DEF Victim
  <2>4. v \in U /\ \A g \in U : Turn(v) <= Turn(g)
    <3> HIDE DEF U, v
    <3> QED BY <1>5, <2>3, FirstIn, FirstIsLeast, Zenon
  <2>5. Pos(Turn(v)) = v /\ Pos(Turn(v) + 1) = Advance(v)
    BY <1>2, Round, Zenon
  <2>6. ASSUME NEW n \in 0..(TakenAt(E) - 1), Pos(n) \in E
        PROVE  n < F /\ referenced[Pos(n)]
    <3>1. n \in 0..(F - 1) /\ n < Turn(v)
      BY <1>1, <1>3, <2>2
    <3>2. Turn(Pos(n)) = n
      BY <3>1, Round, Zenon
    <3>3. ~(Turn(v) <= Turn(Pos(n)))
      BY <1>3, <3>1, <3>2
    <3>4. Pos(n) \notin U
      BY <2>4, <3>3, Zenon
    <3>5. referenced[Pos(n)]
      BY <2>6, <3>4, Zenon
    <3>6. n < F
      BY <1>1, <3>1
    <3> QED BY <3>5, <3>6, Zenon
  <2>7. Visited(E, TakenAt(E))[v] = FALSE
    <3>1. Visited(E, TakenAt(E))[v] = (referenced[v] /\ ~(v \in E /\ Turn(v) < TakenAt(E)))
      BY <1>2, Zenon DEF Visited
    <3>2. ~referenced[v]
      BY <2>4, Zenon
    <3> QED BY <3>1, <3>2, Zenon
  <2>8. TakenAt(E) \in 0..(2 * F - 1)
    BY <1>1, <1>3, <2>2
  <2> QED BY <1>2, <2>2, <2>5, <2>6, <2>7, <2>8, Zenon
<1> QED BY <1>4, <1>5, Zenon

(* The victim is taken after a number of visits. *)
LEMMA TakenType ==
  ASSUME CacheInv, NEW E, E \subseteq Frames, E # {}
  PROVE  TakenAt(E) \in Nat
<1>1. TakenAt(E) \in 0..(2 * FrameCount - 1)
  BY Taken, Zenon
<1> QED BY <1>1

(* Before the first visit. *)
LEMMA AfterNone ==
  ASSUME CacheInv, NEW E, E \subseteq Frames
  PROVE  After(E, 0) = [hand |-> hand, referenced |-> referenced, victim |-> NoFrame]
<1>1. \A f \in Frames : Turn(f) \in 0..(FrameCount - 1)
  BY Round, Zenon
<1>2. FrameCount \in Nat
  BY FrameNumbers, Zenon DEF CacheInv
<1>3. Visited(E, 0) = referenced
  <2>1. \A f \in Frames : ~(Turn(f) < 0)
    BY <1>1, <1>2
  <2> QED BY <2>1, Zenon DEF Visited, CacheInv, CacheTypes
<1>4. E # {} => 0 <= TakenAt(E)
  BY TakenType
<1> QED BY <1>3, <1>4, Round, Zenon DEF After

(* A visit before the victim is taken clears the bit of an eligible frame. *)
LEMMA Passes ==
  ASSUME CacheInv, NEW E, E \subseteq Frames, NEW n \in 0..(2 * FrameCount - 1),
         E = {} \/ n < TakenAt(E)
  PROVE  Visit(E, [hand |-> Pos(n), referenced |-> Visited(E, n), victim |-> NoFrame]) =
           [hand |-> Pos(n + 1), referenced |-> Visited(E, n + 1), victim |-> NoFrame]
<1> DEFINE F == FrameCount
           f == Pos(n)
           s == [hand |-> f, referenced |-> Visited(E, n), victim |-> NoFrame]
           w == Visited(E, n)
           u == Visited(E, n + 1)
<1>1. F \in Nat \ {0} /\ Frames = 0..(F - 1) /\ n \in 0..(2 * F)
  BY FrameNumbers DEF CacheInv
<1>2. f \in Frames /\ Advance(f) = Pos(n + 1)
  BY <1>1, Round, Zenon
<1>3. \A g \in Frames : Turn(g) \in 0..(F - 1) /\ Pos(Turn(g)) = g
  BY Round, Zenon
<1>4. \A g \in Frames : g # f => (Turn(g) < n + 1 <=> Turn(g) < n)
  <2> SUFFICES ASSUME NEW g \in Frames, g # f PROVE Turn(g) < n + 1 <=> Turn(g) < n
    BY Zenon
  <2>1. Turn(g) # n
    BY <1>3, Zenon
  <2>2. Turn(g) \in Int /\ n \in Int
    BY <1>1, <1>3
  <2> QED BY <2>1, <2>2
<1>5. CASE f \notin E
  <2>1. u = w
    BY <1>4, <1>5, Zenon DEF Visited
  <2>2. Visit(E, s) = [s EXCEPT !.hand = Advance(f)]
    BY <1>5, Zenon DEF Visit
  <2> QED BY <1>2, <2>1, <2>2, Zenon
<1>6. CASE f \in E
  <2>1. n < F /\ referenced[f]
    <3>1. E # {} /\ n < TakenAt(E)
      BY <1>6, Zenon
    <3>2. TakenAt(E) \in Nat
      BY <3>1, TakenType, Zenon
    <3>3. n \in 0..(TakenAt(E) - 1)
      BY <1>1, <3>1, <3>2
    <3> QED BY <1>6, <3>1, <3>3, Taken, Zenon
  <2>2. Turn(f) = n
    BY <1>1, <2>1, Round
  <2>3. w[f] = TRUE
    <3>1. ~(Turn(f) < n)
      BY <1>1, <2>2
    <3>2. w[f] = (referenced[f] /\ ~(f \in E /\ Turn(f) < n))
      BY <1>2, Zenon DEF Visited
    <3>3. referenced[f] = TRUE
      BY <1>2, <2>1, Zenon DEF CacheInv, CacheTypes
    <3> QED BY <3>1, <3>2, <3>3, Zenon
  <2>4. u = [w EXCEPT ![f] = FALSE]
    <3>1. DOMAIN u = Frames /\ DOMAIN w = Frames /\ u = [g \in Frames |-> u[g]]
      BY Zenon DEF Visited
    <3>2. \A g \in Frames : g # f => u[g] = w[g]
      BY <1>4, Zenon DEF Visited
    <3>3. u[f] = FALSE
      <4>1. Turn(f) < n + 1
        BY <1>1, <2>2
      <4>2. u[f] = (referenced[f] /\ ~(f \in E /\ Turn(f) < n + 1))
        BY <1>2, Zenon DEF Visited
      <4> QED BY <1>6, <4>1, <4>2, Zenon
    <3> HIDE DEF u, w
    <3>4. [w EXCEPT ![f] = FALSE] = [g \in Frames |-> IF g = f THEN FALSE ELSE w[g]]
      BY <3>1, Zenon
    <3> QED BY <3>1, <3>2, <3>3, <3>4, Zenon
  <2>5. Visit(E, s) = [[s EXCEPT !.hand = Advance(f)] EXCEPT !.referenced[f] = FALSE]
    <3> HIDE DEF w
    <3> QED BY <1>6, <2>3, Zenon DEF Visit, w
  <2>6. [[s EXCEPT !.hand = Advance(f)] EXCEPT !.referenced[f] = FALSE] =
          [hand |-> Advance(f), referenced |-> [w EXCEPT ![f] = FALSE], victim |-> NoFrame]
    <3> DEFINE m == [s EXCEPT !.hand = Advance(f)]
    <3>1. m = [hand |-> Advance(f), referenced |-> w, victim |-> NoFrame]
      OBVIOUS
    <3> HIDE DEF m, w, f
    <3>2. [m EXCEPT !.referenced[f] = FALSE] =
            [m EXCEPT !.referenced = [m.referenced EXCEPT ![f] = FALSE]]
      BY Zenon
    <3> DEFINE x == [w EXCEPT ![f] = FALSE]
    <3>3. m.referenced = w
      BY <3>1, Zenon
    <3>4. [m EXCEPT !.referenced[f] = FALSE] = [m EXCEPT !.referenced = x]
      BY <3>2, <3>3, Zenon
    <3> HIDE DEF x
    <3>5. [m EXCEPT !.referenced = x] =
            [hand |-> Advance(f), referenced |-> x, victim |-> NoFrame]
      BY <3>1
    <3> QED BY <3>4, <3>5, Zenon DEF m, x
  <2> QED BY <1>2, <2>4, <2>5, <2>6, Zenon
<1> QED BY <1>5, <1>6, Zenon

(* The loop goes from each state to the next. *)
LEMMA AfterNext ==
  ASSUME CacheInv, NEW E, E \subseteq Frames, NEW n \in 0..(2 * FrameCount - 1)
  PROVE  After(E, n + 1) = Visit(E, After(E, n))
<1>1. FrameCount \in Nat \ {0} /\ n \in Int
  BY FrameNumbers DEF CacheInv
<1>2. CASE E = {} \/ n < TakenAt(E)
  <2>1. E = {} \/ (n <= TakenAt(E) /\ n + 1 <= TakenAt(E))
    BY <1>1, <1>2, TakenType
  <2> QED BY <1>2, <2>1, Passes, Zenon DEF After
<1>3. CASE E # {} /\ n = TakenAt(E)
  <2> DEFINE v == Victim(E)
             w == Visited(E, n)
  <2>1. Pos(n) = v /\ v \in E /\ Advance(v) = Pos(n + 1) /\ w[v] = FALSE
    BY <1>3, Taken, Zenon
  <2>2. After(E, n) = [hand |-> v, referenced |-> w, victim |-> NoFrame]
    BY <1>1, <1>3, <2>1 DEF After
  <2>3. After(E, n + 1) = [hand |-> Advance(v), referenced |-> w, victim |-> v]
    BY <1>1, <1>3, <2>1 DEF After
  <2> HIDE DEF v, w
  <2>4. Visit(E, After(E, n)) = [hand |-> Advance(v), referenced |-> w, victim |-> v]
    <3> DEFINE s == [hand |-> v, referenced |-> w, victim |-> NoFrame]
    <3>1. Visit(E, s) = [[s EXCEPT !.hand = Advance(v)] EXCEPT !.victim = v]
      BY <2>1, Zenon DEF Visit
    <3> QED BY <2>2, <3>1, Zenon
  <2> QED BY <2>3, <2>4, Zenon
<1>4. CASE E # {} /\ n > TakenAt(E)
  <2>1. TakenAt(E) \in Int /\ Victim(E) # NoFrame
    BY <1>4, TakenType, VictimIn, NoFrameApart DEF CacheInv
  <2>2. ~(n <= TakenAt(E)) /\ ~(n + 1 <= TakenAt(E))
    BY <1>1, <1>4, <2>1
  <2>3. After(E, n).victim = Victim(E) /\ After(E, n + 1) = After(E, n)
    BY <1>4, <2>2, Zenon DEF After
  <2> QED BY <2>1, <2>3, Zenon DEF Visit
<1>5. E # {} => TakenAt(E) \in Int
  BY TakenType
<1> QED BY <1>1, <1>2, <1>3, <1>4, <1>5

(* The loop of begin_eviction_locked computes these states and no others:  *)
(* they solve the recursion, and a first difference cannot be.             *)
LEMMA LoopStates ==
  ASSUME CacheInv, NEW E, E \subseteq Frames
  PROVE  Scan(E) = After(E, 2 * FrameCount)
<1> DEFINE N == 2 * FrameCount
           g == [n \in 0..N |-> After(E, n)]
           h == CHOOSE k : k = [n \in 0..N |-> Loop(E, k, n)]
<1>1. N \in Nat /\ FrameCount \in Nat
  BY FrameNumbers DEF CacheInv
<1>2. \A n \in 0..N : n # 0 => n - 1 \in 0..(N - 1) /\ n - 1 \in 0..N /\ n = (n - 1) + 1
  BY <1>1
<1>3. \A n \in 0..N : After(E, n) = Loop(E, g, n)
  <2> SUFFICES ASSUME NEW n \in 0..N PROVE After(E, n) = Loop(E, g, n)
    BY Zenon
  <2>1. CASE n = 0
    BY <2>1, AfterNone, Zenon DEF Loop
  <2>2. CASE n # 0
    <3>1. n - 1 \in 0..(2 * FrameCount - 1) /\ g[n - 1] = After(E, n - 1)
      BY <1>2, <2>2, Zenon
    <3>2. After(E, (n - 1) + 1) = Visit(E, After(E, n - 1))
      BY <3>1, AfterNext, Zenon
    <3> QED BY <1>2, <2>2, <3>1, <3>2, Zenon DEF Loop
  <2> QED BY <2>1, <2>2, Zenon
<1>4. g = [n \in 0..N |-> Loop(E, g, n)]
  BY <1>3, Zenon
<1>5. h = [n \in 0..N |-> Loop(E, h, n)]
  <2> HIDE DEF g
  <2> QED BY <1>4, Zenon
<1> HIDE DEF h
<1>6. \A n \in 0..N : h[n] = g[n]
  <2> DEFINE D == {n \in 0..N : h[n] # g[n]}
  <2> SUFFICES ASSUME D # {} PROVE FALSE
    BY Zenon
  <2>1. D \subseteq Nat
    BY <1>1
  <2>2. PICK x \in D : \A y \in D : x <= y
    <3> HIDE DEF D
    <3> QED BY <2>1, Least, Zenon
  <2>3. x \in 0..N /\ h[x] = Loop(E, h, x) /\ g[x] = Loop(E, g, x)
    BY <1>3, <1>5, Zenon
  <2>4. x # 0
    BY <2>2, <2>3, Zenon DEF Loop
  <2>5. x - 1 \in 0..N /\ x - 1 < x
    BY <1>1, <1>2, <2>3, <2>4
  <2>6. h[x - 1] = g[x - 1]
    BY <1>1, <2>2, <2>5
  <2> HIDE DEF g
  <2> QED BY <2>2, <2>3, <2>4, <2>6, Zenon DEF Loop
<1>7. ScanVisits(E, N) = h[N]
  BY ScanIsLoop, Zenon DEF h
<1>8. N \in 0..N
  BY <1>1
<1> QED BY <1>6, <1>7, <1>8, Zenon DEF Scan

(* The bounded scan finds the victim of the closed form. *)
LEMMA ScanAgrees ==
  ASSUME CacheInv
  PROVE  ClockScanAgrees
<1> SUFFICES ASSUME NEW range, NEW d
             PROVE  LET E == Eligible(range, d) IN
                      IF E = {}
                      THEN Scan(E) = [hand |-> hand, referenced |-> referenced,
                                      victim |-> NoFrame]
                      ELSE Scan(E) =
                             [hand |-> Advance(Victim(E)),
                              referenced |-> [f \in Frames |->
                                referenced[f] /\ f \notin Spared(E) /\ f # Victim(E)],
                              victim |-> Victim(E)]
  BY Zenon DEF ClockScanAgrees
<1> DEFINE E == Eligible(range, d)
           N == 2 * FrameCount
<1>1. E \subseteq Frames /\ FrameCount \in Nat \ {0}
  BY FrameNumbers, Zenon DEF Eligible, CacheInv
<1> HIDE DEF E
<1>2. Scan(E) = After(E, N)
  BY <1>1, LoopStates, Zenon
<1>3. CASE E = {}
  <2>1. Visited(E, N) = referenced
    BY <1>3, Zenon DEF Visited, CacheInv, CacheTypes
  <2> QED BY <1>2, <1>3, <2>1, Round, Zenon DEF After, E
<1>4. CASE E # {}
  <2> DEFINE v == Victim(E)
             t == TakenAt(E)
  <2>1. /\ t \in 0..(N - 1) /\ v \in E /\ Pos(t + 1) = Advance(v)
        /\ Visited(E, t)[v] = FALSE
    BY <1>1, <1>4, Taken, Zenon
  <2>2. ~(N <= t)
    BY <1>1, <2>1
  <2>3. After(E, N) = [hand |-> Advance(v), referenced |-> Visited(E, t), victim |-> v]
    BY <1>4, <2>1, <2>2, Zenon DEF After
  <2>4. \A f \in Frames : Visited(E, t)[f] =
                            (referenced[f] /\ f \notin Spared(E) /\ f # v)
    <3> SUFFICES ASSUME NEW f \in Frames
                 PROVE  Visited(E, t)[f] = (referenced[f] /\ f \notin Spared(E) /\ f # v)
      BY Zenon
    <3>1. Visited(E, t)[f] = (referenced[f] /\ ~(f \in E /\ Turn(f) < t))
      BY Zenon DEF Visited
    <3>2. CASE \A e \in E : referenced[e]
      <4>1. t = FrameCount + Turn(v) /\ Spared(E) = E
        BY <3>2, Zenon DEF TakenAt, Spared
      <4>2. Turn(f) < t
        <5>1. v \in Frames /\ Turn(v) \in 0..(FrameCount - 1) /\ Turn(f) \in 0..(FrameCount - 1)
          BY <1>1, <2>1, Round, Zenon
        <5> QED BY <1>1, <4>1, <5>1
      <4> QED BY <2>1, <3>1, <4>1, <4>2, Zenon
    <3>3. CASE ~(\A e \in E : referenced[e])
      <4>1. t = Turn(v) /\ Spared(E) = {e \in E : Turn(e) < Turn(v)}
        BY <3>3, Zenon DEF TakenAt, Spared
      <4>2. f = v => Visited(E, t)[f] = FALSE
        BY <2>1, Zenon
      <4> QED BY <3>1, <4>1, <4>2, Zenon
    <3> QED BY <3>2, <3>3, Zenon
  <2>5. Visited(E, t) = [f \in Frames |-> referenced[f] /\ f \notin Spared(E) /\ f # v]
    <3>1. Visited(E, t) = [f \in Frames |-> Visited(E, t)[f]]
      BY Zenon DEF Visited
    <3> QED BY <2>4, <3>1, Zenon
  <2> QED BY <1>2, <1>4, <2>3, <2>5, Zenon DEF E
<1> QED BY <1>3, <1>4, Zenon

(***************************************************************************)
(* What each member function of the cache does to the frames.              *)
(***************************************************************************)
SameFrames == Frames' = Frames /\ generation' = generation /\ page' = page

(* Resolving a page that is in the cache (resolve of the page table, a     *)
(* hit) marks the frame as used, and as dirty for a write, and changes no  *)
(* mapping.                                                                *)
LEMMA ResolveStep ==
  ASSUME CacheInv, NEW p \in Pages, NEW w \in BOOLEAN, Resolve(p, w)
  PROVE  /\ CacheInv' /\ SameFrames /\ evicting' = evicting
         /\ pageToFrame[p] \in Frames /\ page[pageToFrame[p]] = p
         /\ ~evicting[pageToFrame[p]]
         /\ \A f \in Frames : dirty'[f] <=> dirty[f] \/ (f = pageToFrame[p] /\ w)
<1> DEFINE f == pageToFrame[p]
<1>1. f \in Frames /\ page[f] = p /\ ~evicting[f]
  BY DEF CacheInv, CacheTypes, Maps, Resolve, Resident
<1>2. SameFrames /\ UNCHANGED <<evicting, hand, pageToFrame, evictingPages>>
  BY Zenon DEF Resolve, SameFrames, Frames
<1>3. \A g \in Frames : dirty'[g] <=> dirty[g] \/ (g = f /\ w)
  BY <1>1, Zenon DEF Resolve, MarkDirty, CacheInv, CacheTypes
<1>4. CacheTypes'
  BY <1>1, <1>2, Zenon DEF Resolve, MarkDirty, CacheInv, CacheTypes, SameFrames
<1>5. \A g \in Frames : dirty'[g] \/ evicting[g] => page[g] # NoPage
  <2> HIDE DEF f
  <2>1. p # NoPage
    BY PagesAssumption, Zenon
  <2> QED BY <1>1, <1>3, <2>1, Zenon DEF CacheInv, Maps
<1>6. Maps'
  BY <1>2, <1>5, Zenon DEF CacheInv, Maps, SameFrames
<1> QED BY <1>1, <1>2, <1>3, <1>4, <1>6, Zenon DEF CacheInv, Numbered, SameFrames

(* reclaim_eviction puts the page back, in the frame it was leaving *)
LEMMA ReclaimStep ==
  ASSUME CacheInv, NEW p \in Pages, NEW w \in BOOLEAN, Reclaim(p, w)
  PROVE  /\ CacheInv' /\ SameFrames
         /\ evictingPages[p] \in Frames /\ page[evictingPages[p]] = p
         /\ \A f \in Frames : evicting'[f] <=> evicting[f] /\ f # evictingPages[p]
         /\ \A f \in Frames : dirty'[f] <=> dirty[f] \/ (f = evictingPages[p] /\ w)
<1> DEFINE f == evictingPages[p]
<1>1. f \in Frames /\ page[f] = p /\ evicting[f] /\ f # NoFrame
  BY Zenon DEF CacheInv, CacheTypes, Reclaim
<1>2. SameFrames /\ UNCHANGED hand
  BY Zenon DEF Reclaim, SameFrames, Frames
<1>3. \A g \in Frames : /\ dirty'[g] <=> dirty[g] \/ (g = f /\ w)
                        /\ evicting'[g] <=> evicting[g] /\ g # f
  BY <1>1, Zenon DEF Reclaim, MarkDirty, CacheInv, CacheTypes
<1>4. CacheTypes'
  BY <1>1, <1>2, Zenon
     DEF Reclaim, DropReservation, MarkDirty, CacheInv, CacheTypes, SameFrames
<1>5. \A q \in Pages : /\ pageToFrame'[q] = IF q = p THEN f ELSE pageToFrame[q]
                       /\ evictingPages'[q] = IF q = p THEN NoFrame ELSE evictingPages[q]
  BY <1>1, Zenon DEF Reclaim, DropReservation, CacheInv, CacheTypes
<1>6. Maps'
  <2> HIDE DEF f
  <2>1. p # NoPage
    BY PagesAssumption, Zenon
  <2>2. \A g \in Frames : dirty'[g] \/ evicting'[g] => page[g] # NoPage
    BY <1>1, <1>3, <2>1, Zenon DEF CacheInv, Maps
  <2>3. \A q \in Pages : pageToFrame'[q] # NoFrame =>
          page[pageToFrame'[q]] = q /\ ~evicting'[pageToFrame'[q]]
    BY <1>1, <1>3, <1>5 DEF CacheInv, CacheTypes, Maps
  <2>4. \A q \in Pages : evictingPages'[q] # NoFrame =>
          page[evictingPages'[q]] = q /\ evicting'[evictingPages'[q]]
    BY <1>1, <1>3, <1>5 DEF CacheInv, CacheTypes, Maps
  <2>5. \A g \in Frames : page[g] # NoPage =>
          /\ evicting'[g] => evictingPages'[page[g]] = g
          /\ ~evicting'[g] => pageToFrame'[page[g]] = g
    BY <1>1, <1>3, <1>5, NoFrameApart DEF CacheInv, CacheTypes, Maps, f
  <2>6. \A q \in Pages : pageToFrame'[q] = NoFrame \/ evictingPages'[q] = NoFrame
    BY <1>5, Zenon DEF CacheInv, Maps
  <2> QED BY <1>2, <2>2, <2>3, <2>4, <2>5, <2>6, Zenon DEF Maps, SameFrames
<1> QED BY <1>1, <1>2, <1>3, <1>4, <1>6, Zenon DEF CacheInv, Numbered, SameFrames

(* publish fills a free frame *)
LEMMA PublishStep ==
  ASSUME CacheInv, NEW p \in Pages, NEW f, NEW w \in BOOLEAN, Publish(p, f, w)
  PROVE  /\ CacheInv' /\ Frames' = Frames /\ UNCHANGED <<generation, evicting>>
         /\ f \in Frames /\ page[f] = NoPage
         /\ \A g \in Frames : page[g] # p
         /\ \A g \in Frames : page'[g] = IF g = f THEN p ELSE page[g]
         /\ \A g \in Frames : dirty'[g] <=> IF g = f THEN w ELSE dirty[g]
<1>1. /\ f \in Frames /\ page[f] = NoPage /\ ~evicting[f]
      /\ pageToFrame[p] = NoFrame /\ evictingPages[p] = NoFrame
  BY Zenon DEF Publish, CanPublish, FreeFrames, Resident
<1>2. Frames' = Frames /\ UNCHANGED <<generation, evicting, hand, evictingPages>>
  BY Zenon DEF Publish, Frames
<1>3. \A g \in Frames : page[g] # p
  BY <1>1, PagesAssumption, NoFrameApart DEF CacheInv, CacheTypes, Maps
<1>4. \A g \in Frames : /\ page'[g] = IF g = f THEN p ELSE page[g]
                        /\ dirty'[g] <=> IF g = f THEN w ELSE dirty[g]
  BY <1>1, Zenon DEF Publish, CacheInv, CacheTypes
<1>5. \A q \in Pages : pageToFrame'[q] = IF q = p THEN f ELSE pageToFrame[q]
  BY Zenon DEF Publish, CacheInv, CacheTypes
<1>6. CacheTypes'
  BY <1>1, <1>2, Zenon DEF Publish, CacheInv, CacheTypes
<1>7. Maps'
  <2>1. p # NoPage
    BY PagesAssumption, Zenon
  <2>2. \A g \in Frames : dirty'[g] \/ evicting[g] => page'[g] # NoPage
    BY <1>1, <1>4, <2>1 DEF CacheInv, Maps
  <2>3. \A q \in Pages : pageToFrame'[q] # NoFrame =>
          page'[pageToFrame'[q]] = q /\ ~evicting[pageToFrame'[q]]
    BY <1>1, <1>4, <1>5, PagesAssumption DEF CacheInv, CacheTypes, Maps
  <2>4. \A q \in Pages : evictingPages[q] # NoFrame =>
          page'[evictingPages[q]] = q /\ evicting[evictingPages[q]]
    BY <1>1, <1>4, SMTT(30) DEF CacheInv, CacheTypes, Maps
  <2>5. \A g \in Frames : page'[g] # NoPage =>
          /\ evicting[g] => evictingPages[page'[g]] = g
          /\ ~evicting[g] => pageToFrame'[page'[g]] = g
    BY <1>1, <1>3, <1>4, <1>5 DEF CacheInv, CacheTypes, Maps
  <2>6. \A q \in Pages : pageToFrame'[q] = NoFrame \/ evictingPages[q] = NoFrame
    BY <1>1, <1>5, Zenon DEF CacheInv, Maps
  <2> QED BY <1>2, <2>2, <2>3, <2>4, <2>5, <2>6, Zenon DEF Maps
<1> QED BY <1>1, <1>2, <1>3, <1>4, <1>6, <1>7, Zenon DEF CacheInv, Numbered

(* begin_eviction makes one eligible frame a victim *)
LEMMA BeginStep ==
  ASSUME CacheInv, NEW range \in SUBSET Pages, NEW d \in BOOLEAN,
         BeginEviction(range, d)
  PROVE  LET v == Victim(Eligible(range, d)) IN
         /\ CacheInv' /\ SameFrames /\ dirty' = dirty
         /\ v \in Frames /\ page[v] \in range /\ ~evicting[v] /\ (d => dirty[v])
         /\ \A f \in Frames : evicting'[f] <=> evicting[f] \/ f = v
<1> DEFINE E == Eligible(range, d)
           v == Victim(E)
<1>1. v \in E
  <2>1. E \subseteq Frames /\ E # {}
    BY Zenon DEF BeginEviction, Eligible
  <2> HIDE DEF E
  <2> QED BY <2>1, VictimIn, Zenon
<1>2. v \in Frames /\ page[v] \in range /\ ~evicting[v] /\ (d => dirty[v])
  BY <1>1, Zenon DEF Eligible
<1>3. SameFrames /\ UNCHANGED dirty
  BY Zenon DEF BeginEviction, SameFrames, Frames
<1>4. /\ evictingPages' = [evictingPages EXCEPT ![page[v]] = v]
      /\ pageToFrame' = [pageToFrame EXCEPT ![page[v]] = NoFrame]
      /\ evicting' = [evicting EXCEPT ![v] = TRUE]
      /\ referenced' \in [Frames -> BOOLEAN]
      /\ hand' = Advance(v)
  BY Zenon DEF BeginEviction
<1> HIDE DEF v, E
<1>5. hand' \in Frames
  BY <1>2, <1>4, AdvanceType, Zenon DEF CacheInv
<1>6. CacheTypes'
  BY <1>2, <1>3, <1>4, <1>5, Zenon DEF CacheInv, CacheTypes, SameFrames
<1>7. \A f \in Frames : evicting'[f] <=> evicting[f] \/ f = v
  BY <1>2, <1>4, Zenon DEF CacheInv, CacheTypes
<1>8. \A q \in Pages :
        /\ pageToFrame'[q] = IF q = page[v] THEN NoFrame ELSE pageToFrame[q]
        /\ evictingPages'[q] = IF q = page[v] THEN v ELSE evictingPages[q]
  BY <1>2, <1>4, Zenon DEF CacheInv, CacheTypes
<1>9. Maps'
  <2>1. page[v] \in Pages /\ page[v] # NoPage
    BY <1>2, PagesAssumption, Zenon
  <2>2. \A g \in Frames : dirty[g] \/ evicting'[g] => page[g] # NoPage
    BY <1>7, <2>1, Zenon DEF CacheInv, Maps
  <2>3. \A q \in Pages : pageToFrame'[q] # NoFrame =>
          page[pageToFrame'[q]] = q /\ ~evicting'[pageToFrame'[q]]
    BY <1>7, <1>8, <2>1 DEF CacheInv, CacheTypes, Maps
  <2>4. \A q \in Pages : evictingPages'[q] # NoFrame =>
          page[evictingPages'[q]] = q /\ evicting'[evictingPages'[q]]
    BY <1>2, <1>7, <1>8, SMTT(30) DEF CacheInv, CacheTypes, Maps
  <2>5. \A g \in Frames : page[g] # NoPage =>
          /\ evicting'[g] => evictingPages'[page[g]] = g
          /\ ~evicting'[g] => pageToFrame'[page[g]] = g
    BY <1>2, <1>7, <1>8, <2>1, NoFrameApart DEF CacheInv, CacheTypes, Maps
  <2>6. \A q \in Pages : pageToFrame'[q] = NoFrame \/ evictingPages'[q] = NoFrame
    BY <1>8, Zenon DEF CacheInv, Maps
  <2> QED BY <1>3, <2>2, <2>3, <2>4, <2>5, <2>6, Zenon DEF Maps, SameFrames
<1> QED BY <1>2, <1>3, <1>6, <1>7, <1>9, Zenon DEF CacheInv, Numbered, SameFrames, v, E

(* what an accepted ticket says of its frame *)
LEMMA AcceptedFrame ==
  ASSUME CacheInv, NEW e \in CacheEviction, Accepts(e)
  PROVE  /\ e.page \in Pages /\ e.frame \in Frames /\ page[e.frame] = e.page
         /\ evicting[e.frame] /\ (dirty[e.frame] <=> e.dirty)
         /\ pageToFrame[e.page] = NoFrame /\ evictingPages[e.page] = e.frame
<1>1. e.page \in Pages /\ e.frame \in Frames
  BY Zenon DEF CacheEviction
<1>2. evictingPages[e.page] = e.frame
  BY Zenon DEF Accepts
<1>3. pageToFrame[e.page] = NoFrame
  BY <1>1, <1>2, NoFrameApart DEF CacheInv, Maps
<1> QED BY <1>1, <1>2, <1>3, Zenon DEF Accepts

(* cancel_eviction puts the page back *)
LEMMA CancelStep ==
  ASSUME CacheInv, NEW e \in CacheEviction, CancelEviction(e)
  PROVE  /\ CacheInv' /\ SameFrames /\ dirty' = dirty
         /\ \A f \in Frames : evicting'[f] <=> evicting[f] /\ f # e.frame
<1> DEFINE f == e.frame
           p == e.page
<1>1. /\ p \in Pages /\ f \in Frames /\ page[f] = p /\ evicting[f]
      /\ pageToFrame[p] = NoFrame /\ evictingPages[p] = f
  BY AcceptedFrame, Zenon DEF CancelEviction
<1>2. SameFrames /\ UNCHANGED <<dirty, hand>>
  BY Zenon DEF CancelEviction, SameFrames, Frames
<1>3. /\ evictingPages' = [evictingPages EXCEPT ![p] = NoFrame]
      /\ pageToFrame' = [pageToFrame EXCEPT ![p] = f]
      /\ evicting' = [evicting EXCEPT ![f] = FALSE]
      /\ referenced' = [referenced EXCEPT ![f] = TRUE]
  BY Zenon DEF CancelEviction, DropReservation
<1> HIDE DEF f, p
<1>4. \A g \in Frames : evicting'[g] <=> evicting[g] /\ g # f
  BY <1>1, <1>3, Zenon DEF CacheInv, CacheTypes
<1>5. CacheTypes'
  BY <1>1, <1>2, <1>3, Zenon DEF CacheInv, CacheTypes, SameFrames
<1>6. \A q \in Pages : /\ pageToFrame'[q] = IF q = p THEN f ELSE pageToFrame[q]
                       /\ evictingPages'[q] = IF q = p THEN NoFrame ELSE evictingPages[q]
  BY <1>1, <1>3, Zenon DEF CacheInv, CacheTypes
<1>7. Maps'
  <2>2. \A g \in Frames : dirty[g] \/ evicting'[g] => page[g] # NoPage
    BY <1>4, Zenon DEF CacheInv, Maps
  <2>3. \A q \in Pages : pageToFrame'[q] # NoFrame =>
          page[pageToFrame'[q]] = q /\ ~evicting'[pageToFrame'[q]]
    BY <1>1, <1>4, <1>6, SMTT(30) DEF CacheInv, CacheTypes, Maps
  <2>4. \A q \in Pages : evictingPages'[q] # NoFrame =>
          page[evictingPages'[q]] = q /\ evicting'[evictingPages'[q]]
    BY <1>1, <1>4, <1>6, SMTT(30) DEF CacheInv, CacheTypes, Maps
  <2>5. \A g \in Frames : page[g] # NoPage =>
          /\ evicting'[g] => evictingPages'[page[g]] = g
          /\ ~evicting'[g] => pageToFrame'[page[g]] = g
    BY <1>1, <1>4, <1>6, NoFrameApart DEF CacheInv, CacheTypes, Maps
  <2>6. \A q \in Pages : pageToFrame'[q] = NoFrame \/ evictingPages'[q] = NoFrame
    BY <1>6, Zenon DEF CacheInv, Maps
  <2> QED BY <1>2, <2>2, <2>3, <2>4, <2>5, <2>6, Zenon DEF Maps, SameFrames
<1> QED BY <1>2, <1>4, <1>5, <1>7, Zenon DEF CacheInv, Numbered, SameFrames, f

(* complete_eviction empties the frame and retires its generation *)
LEMMA CompleteStep ==
  ASSUME CacheInv, NEW e \in CacheEviction, CompleteEviction(e)
  PROVE  /\ CacheInv' /\ Frames' = Frames
         /\ \A g \in Frames :
              /\ page'[g] = IF g = e.frame THEN NoPage ELSE page[g]
              /\ dirty'[g] <=> dirty[g] /\ g # e.frame
              /\ evicting'[g] <=> evicting[g] /\ g # e.frame
              /\ generation'[g] = IF g = e.frame THEN generation[g] + 1
                                  ELSE generation[g]
<1> DEFINE f == e.frame
           p == e.page
<1>1. /\ p \in Pages /\ f \in Frames /\ page[f] = p /\ evicting[f]
      /\ pageToFrame[p] = NoFrame /\ evictingPages[p] = f
  BY AcceptedFrame, Zenon DEF CompleteEviction
<1>2. Frames' = Frames /\ UNCHANGED <<pageToFrame, hand>>
  BY Zenon DEF CompleteEviction, Frames
<1>3. /\ evictingPages' = [evictingPages EXCEPT ![p] = NoFrame]
      /\ page' = [page EXCEPT ![f] = NoPage]
      /\ evicting' = [evicting EXCEPT ![f] = FALSE]
      /\ dirty' = [dirty EXCEPT ![f] = FALSE]
      /\ referenced' = [referenced EXCEPT ![f] = FALSE]
      /\ generation' = [generation EXCEPT ![f] = @ + 1]
  BY Zenon DEF CompleteEviction, DropReservation
<1> HIDE DEF f, p
<1>4. \A g \in Frames :
        /\ page'[g] = IF g = f THEN NoPage ELSE page[g]
        /\ dirty'[g] <=> dirty[g] /\ g # f
        /\ evicting'[g] <=> evicting[g] /\ g # f
        /\ generation'[g] = IF g = f THEN generation[g] + 1 ELSE generation[g]
  BY <1>1, <1>3, Zenon DEF CacheInv, CacheTypes
<1>5. CacheTypes'
  BY <1>1, <1>2, <1>3 DEF CacheInv, CacheTypes
<1>6. \A q \in Pages : evictingPages'[q] = IF q = p THEN NoFrame ELSE evictingPages[q]
  BY <1>1, <1>3, Zenon DEF CacheInv, CacheTypes
<1>7. Maps'
  <2>2. \A g \in Frames : dirty'[g] \/ evicting'[g] => page'[g] # NoPage
    BY <1>4, Zenon DEF CacheInv, Maps
  <2>3. \A q \in Pages : pageToFrame[q] # NoFrame =>
          page'[pageToFrame[q]] = q /\ ~evicting'[pageToFrame[q]]
    BY <1>1, <1>4, SMTT(30) DEF CacheInv, CacheTypes, Maps
  <2>4. \A q \in Pages : evictingPages'[q] # NoFrame =>
          page'[evictingPages'[q]] = q /\ evicting'[evictingPages'[q]]
    BY <1>1, <1>4, <1>6 DEF CacheInv, CacheTypes, Maps
  <2>5. \A g \in Frames : page'[g] # NoPage =>
          /\ evicting'[g] => evictingPages'[page'[g]] = g
          /\ ~evicting'[g] => pageToFrame[page'[g]] = g
    BY <1>1, <1>4, <1>6, NoFrameApart DEF CacheInv, CacheTypes, Maps
  <2>6. \A q \in Pages : pageToFrame[q] = NoFrame \/ evictingPages'[q] = NoFrame
    BY <1>6, Zenon DEF CacheInv, Maps
  <2> QED BY <1>2, <2>2, <2>3, <2>4, <2>5, <2>6, Zenon DEF Maps
<1> QED BY <1>2, <1>4, <1>5, <1>7, Zenon DEF CacheInv, Numbered, f

(***************************************************************************)
(* The service.                                                            *)
(***************************************************************************)
WorkerStates ==
  [pc : {"idle", "called", "writeback", "read"},
   page : Pages \cup {NoPage}, write : BOOLEAN, frame : Frames \cup {NoFrame},
   victim : CacheEviction \cup {NoTicket}, program : Pages \cup {NoPage}]

FlusherStates ==
  [pc : {"idle", "scanning", "modelling", "modelled", "Ready", "failed"},
   scope : SUBSET Pages, todo : SUBSET Pages,
   ticket : CacheEviction \cup {NoTicket}, synchronized : BOOLEAN]

ServiceTypes ==
  /\ mutex \in {"free", "worker", "flusher"}
  /\ worker \in WorkerStates /\ flusher \in FlusherStates
  /\ daemon \in {"idle", "waiting"}
  /\ ranged \subseteq Pages /\ owed \subseteq Pages
  /\ bytes \in [Frames -> [page : Pages \cup {NoPage}, version : Nat]]
  /\ file \in [Pages -> Nat] /\ disk \in [Pages -> Nat]
  /\ newest \in [Pages -> Nat] /\ promised \in [Pages -> Nat]
  /\ leases \subseteq [page : Pages, frame : Frames, generation : Nat]
  /\ requests \in Nat /\ flushes \in Nat

(* who holds the mutex, and what the threads hold where they stand *)
Threads ==
  /\ worker.pc \in {"writeback", "read"} <=> mutex = "worker"
  /\ flusher.pc = "scanning" <=> mutex = "flusher"
  /\ worker.pc # "idle" => worker.page \in Pages
  /\ worker.pc = "writeback" => worker.victim \in CacheEviction
  /\ flusher.pc \in {"modelling", "modelled"} => flusher.ticket \in CacheEviction

(* a frame holds the newest bytes of its page, which is in resident_range_ids_ *)
FramesHold ==
  \A f \in Frames : page[f] # NoPage =>
    /\ bytes[f] = [page |-> page[f], version |-> newest[page[f]]]
    /\ page[f] \in ranged

(* what the file lacks is in a dirty frame *)
Kept ==
  \A p \in Pages : file[p] = newest[p] \/ \E f \in Frames : page[f] = p /\ dirty[f]

(* a lease is no newer than its frame, and while the frame's generation    *)
(* lasts the frame has the page and is dirty                               *)
Leased ==
  \A l \in leases :
    /\ l.generation <= generation[l.frame]
    /\ l.generation = generation[l.frame] => page[l.frame] = l.page /\ dirty[l.frame]

(* a frame is evicting because the worker, under the mutex, is about to    *)
(* write it back, or because the flusher, whose ticket is still good, has  *)
(* written it back                                                         *)
HeldByFlusher(f) ==
  /\ flusher.pc \in {"modelling", "modelled"} /\ flusher.ticket.frame = f
  /\ flusher.ticket.page = page[f] /\ flusher.ticket.generation = generation[f]
  /\ flusher.ticket.dirty /\ dirty[f] /\ file[page[f]] = newest[page[f]]

Evictions ==
  \A f \in Frames : evicting[f] =>
    (worker.pc = "writeback" /\ worker.victim.frame = f) \/ HeldByFlusher(f)

Versions ==
  \A p \in Pages : disk[p] <= file[p] /\ file[p] <= newest[p] /\ promised[p] <= newest[p]

(* the flusher: pages it has looked at are written, and once synchronized  *)
(* nobody writes until it writes again                                     *)
Flushing ==
  /\ flusher.pc \in {"scanning", "modelling", "modelled"} =>
       \A p \in flusher.scope : p \in flusher.todo \/ promised[p] <= file[p]
  /\ flusher.pc = "scanning" /\ flusher.synchronized => disk = file
  /\ flusher.pc = "Ready" => \A p \in flusher.scope : promised[p] <= disk[p]

BytesInv == FramesHold /\ Kept /\ Leased /\ Evictions /\ Versions /\ Flushing

ServiceInv == ServiceTypes /\ Threads
PageInv == CacheInv /\ ServiceInv /\ BytesInv

(* the cache is left alone *)
LEMMA SameCache ==
  ASSUME CacheInv, UNCHANGED cacheVars
  PROVE  /\ CacheInv' /\ SameFrames
         /\ UNCHANGED <<dirty, evicting, pageToFrame, evictingPages>>
<1>1. UNCHANGED <<page, referenced, dirty, evicting, generation, hand,
                  pageToFrame, evictingPages>> /\ Frames' = Frames
  BY Zenon DEF cacheVars, Frames
<1> QED BY <1>1, Zenon DEF CacheInv, Numbered, CacheTypes, Maps, SameFrames

(* the frames decide the types *)
LEMMA SameStates ==
  ASSUME Frames' = Frames
  PROVE  /\ CacheEviction' = CacheEviction
         /\ WorkerStates' = WorkerStates /\ FlusherStates' = FlusherStates
BY Zenon DEF CacheEviction, WorkerStates, FlusherStates

(* a page is in one frame *)
LEMMA OneFrame ==
  ASSUME CacheInv, NEW f \in Frames, NEW g \in Frames,
         page[f] = page[g], page[f] # NoPage
  PROVE  f = g
<1>1. page[f] \in Pages
  BY Zenon DEF CacheInv, CacheTypes
<1> QED BY <1>1, NoFrameApart DEF CacheInv, Maps

(* a page in no frame is in its file *)
LEMMA AbsentInFile ==
  ASSUME PageInv, NEW p \in Pages, \A f \in Frames : page[f] # p
  PROVE  file[p] = newest[p]
BY Zenon DEF PageInv, BytesInv, Kept

(***************************************************************************)
(* The worker's steps.                                                     *)
(***************************************************************************)
LEMMA IdleTypes == IdleWorker \in WorkerStates /\ IdleFlusher \in FlusherStates
BY Zenon DEF IdleWorker, IdleFlusher, WorkerStates, FlusherStates

(* The daemon hands a capacity miss to the worker: the service state that  *)
(* the invariant speaks of stays as it is.                                 *)
LEMMA HandOffStep ==
  ASSUME PageInv, NEW p \in Pages, NEW w \in BOOLEAN, HandOff(p, w)
  PROVE  PageInv'
<1>1. /\ CacheInv' /\ SameFrames
      /\ UNCHANGED <<dirty, evicting, pageToFrame, evictingPages>>
  BY SameCache, Zenon DEF PageInv, HandOff
<1>2. UNCHANGED <<bytes, file, disk, newest, mutex, flusher, ranged, leases,
                  owed, promised, flushes>>
  BY Zenon DEF HandOff, fileVars
<1>3. /\ worker.pc = "idle"
      /\ worker' = [IdleWorker EXCEPT !.pc = "called", !.page = p, !.write = w]
      /\ daemon' = "waiting" /\ requests' = requests + 1
  BY Zenon DEF HandOff
<1>4. worker' \in WorkerStates /\ worker'.pc = "called" /\ worker'.page = p
  BY <1>3, Zenon DEF IdleWorker, WorkerStates
<1>5. ServiceInv'
  BY <1>1, <1>2, <1>3, <1>4, SameStates
     DEF PageInv, ServiceInv, ServiceTypes, Threads, SameFrames
<1>6. BytesInv'
  BY <1>1, <1>2, <1>3, <1>4, Zenon DEF PageInv, BytesInv, FramesHold, Kept, Leased,
     Evictions, HeldByFlusher, Versions, Flushing, SameFrames
<1> QED BY <1>1, <1>5, <1>6, Zenon DEF PageInv

(* A resolve that finds its page resident returns an address in the frame  *)
(* of the page; for a write the frame is dirty from then on, so the store  *)
(* through that address is owed to the file.                               *)
LEMMA ResolveHitStep ==
  ASSUME PageInv, ResolveHit
  PROVE  PageInv'
<1> DEFINE p == worker.page
           w == worker.write
<1>1. worker.pc = "called" /\ mutex = "free" /\ p \in Pages /\ w \in BOOLEAN
  BY Zenon DEF PageInv, ServiceInv, ServiceTypes, WorkerStates, Threads, ResolveHit
<1>2. UNCHANGED <<bytes, file, disk, newest, flusher, ranged, owed, promised,
                  requests, flushes>>
  BY Zenon DEF ResolveHit, fileVars
<1>3. PICK f \in Frames :
        /\ CacheInv' /\ SameFrames /\ page[f] = p /\ Answer(p, f, w)
        /\ \A g \in Frames : evicting'[g] => evicting[g] /\ g # f
        /\ \A g \in Frames : dirty'[g] <=> dirty[g] \/ (g = f /\ w)
  <2>1. CASE Resolve(p, w) /\ Answer(p, pageToFrame[p], w)
    BY <1>1, <2>1, ResolveStep DEF PageInv
  <2>2. CASE Reclaim(p, w) /\ Answer(p, evictingPages[p], w)
    BY <1>1, <2>2, ReclaimStep DEF PageInv
  <2> QED BY <2>1, <2>2, Zenon DEF ResolveHit
<1> DEFINE l == [page |-> p, frame |-> f, generation |-> generation[f]]
<1>4. /\ worker' = IdleWorker /\ mutex' = "free" /\ daemon' = "idle"
      /\ leases' = IF w THEN leases \cup {l} ELSE leases
  BY <1>3, Zenon DEF Answer, Return
<1>5. l \in [page : Pages, frame : Frames, generation : Nat]
  BY <1>1, <1>3, Zenon DEF PageInv, CacheInv, CacheTypes
<1>6. l.page = p /\ l.frame = f /\ l.generation = generation[f]
  BY Zenon
<1> HIDE DEF p, w, l
<1>7. IdleWorker.pc = "idle"
  BY Zenon DEF IdleWorker
<1>8. ServiceInv'
  BY <1>1, <1>2, <1>3, <1>4, <1>5, <1>7, SameStates, IdleTypes, Zenon
     DEF PageInv, ServiceInv, ServiceTypes, Threads, SameFrames
<1>9. FramesHold' /\ Kept' /\ Versions' /\ Flushing'
  BY <1>2, <1>3, Zenon
     DEF PageInv, BytesInv, FramesHold, Kept, Versions, Flushing, SameFrames
<1>10. Evictions'
  BY <1>1, <1>2, <1>3, Zenon DEF PageInv, BytesInv, Evictions, HeldByFlusher, SameFrames
<1>11. Leased'
  <2>1. generation[f] \in Nat
    BY Zenon DEF PageInv, CacheInv, CacheTypes
  <2>2. \A m \in leases : m.frame \in Frames
    BY Zenon DEF PageInv, ServiceInv, ServiceTypes
  <2> QED BY <1>3, <1>4, <1>6, <2>1, <2>2 DEF PageInv, BytesInv, Leased, SameFrames
<1> QED BY <1>3, <1>8, <1>9, <1>10, <1>11, Zenon DEF PageInv, BytesInv

(* the steps that take or leave the mutex and touch no page *)
LEMMA ResolveQuietStep ==
  ASSUME PageInv, ResolveUsesFreeFrame \/ ResolveFindsNoVictim \/ ResolveReadFails
  PROVE  PageInv'
<1>1. UNCHANGED <<cacheVars, fileVars, flusher, ranged, leases, owed, promised,
                  requests, flushes>>
  BY Zenon DEF ResolveUsesFreeFrame, ResolveFindsNoVictim, ResolveReadFails
<1>2. /\ CacheInv' /\ SameFrames
      /\ UNCHANGED <<dirty, evicting, pageToFrame, evictingPages>>
  BY <1>1, SameCache, Zenon DEF PageInv
<1>3. UNCHANGED <<bytes, file, disk, newest>>
  BY <1>1, Zenon DEF fileVars
<1>4. /\ worker.pc \in {"called", "read"} /\ mutex # "flusher"
      /\ worker' \in WorkerStates /\ daemon' \in {"idle", "waiting"}
      /\ \/ worker'.pc = "read" /\ mutex' = "worker" /\ worker'.page = worker.page
         \/ worker'.pc = "idle" /\ mutex' = "free"
  <2>1. CASE ResolveUsesFreeFrame
    <3>1. PICK f \in Frames : worker' = [worker EXCEPT !.pc = "read", !.frame = f]
      BY <2>1, Zenon DEF ResolveUsesFreeFrame, FreeFrames
    <3>2. /\ worker' \in WorkerStates /\ worker'.pc = "read"
          /\ worker'.page = worker.page
      BY <3>1, Zenon DEF PageInv, ServiceInv, ServiceTypes, WorkerStates
    <3> QED BY <2>1, <3>2, Zenon
        DEF ResolveUsesFreeFrame, PageInv, ServiceInv, ServiceTypes
  <2>2. CASE ResolveFindsNoVictim
    BY <2>2, IdleTypes, Zenon DEF ResolveFindsNoVictim, Return, IdleWorker
  <2>3. CASE ResolveReadFails
    BY <2>3, IdleTypes, Zenon
       DEF ResolveReadFails, Return, IdleWorker, PageInv, ServiceInv, Threads
  <2> QED BY <2>1, <2>2, <2>3, Zenon
<1>5. ServiceInv'
  BY <1>1, <1>2, <1>3, <1>4, SameStates, Zenon
     DEF PageInv, ServiceInv, ServiceTypes, Threads, SameFrames
<1>6. BytesInv'
  BY <1>1, <1>2, <1>3, <1>4, Zenon DEF PageInv, BytesInv, FramesHold, Kept, Leased,
     Evictions, HeldByFlusher, Versions, Flushing, SameFrames
<1> QED BY <1>2, <1>5, <1>6, Zenon DEF PageInv

(* A resolve that misses begins the eviction of a victim and holds the     *)
(* mutex of the service through the write-back.                            *)
LEMMA ResolveBeginsStep ==
  ASSUME PageInv, ResolveBeginsEviction
  PROVE  PageInv'
<1> DEFINE v == Victim(Eligible(Pages, FALSE))
<1>1. worker.pc = "called" /\ mutex = "free" /\ BeginEviction(Pages, FALSE)
  BY Zenon DEF ResolveBeginsEviction
<1>2. /\ CacheInv' /\ SameFrames /\ dirty' = dirty
      /\ v \in Frames /\ page[v] \in Pages
      /\ \A f \in Frames : evicting'[f] <=> evicting[f] \/ f = v
  BY <1>1, BeginStep, Zenon DEF PageInv
<1>3. UNCHANGED <<bytes, file, disk, newest, flusher, daemon, ranged, leases,
                  owed, promised, requests, flushes>>
  BY Zenon DEF ResolveBeginsEviction, fileVars
<1>4. /\ worker' = [worker EXCEPT !.pc = "writeback", !.frame = v, !.victim = TicketFor(v)]
      /\ mutex' = "worker"
  BY Zenon DEF ResolveBeginsEviction
<1> HIDE DEF v
<1>5. TicketFor(v) \in CacheEviction /\ TicketFor(v).frame = v
  BY <1>2, Zenon DEF TicketFor, CacheEviction, PageInv, CacheInv, CacheTypes
<1>6. /\ worker' \in WorkerStates /\ worker'.pc = "writeback"
      /\ worker'.page = worker.page /\ worker'.victim = TicketFor(v)
  BY <1>2, <1>4, <1>5, Zenon DEF PageInv, ServiceInv, ServiceTypes, WorkerStates
<1>7. ServiceInv'
  BY <1>1, <1>2, <1>3, <1>4, <1>5, <1>6, SameStates, Zenon
     DEF PageInv, ServiceInv, ServiceTypes, Threads, SameFrames
<1>8. FramesHold' /\ Kept' /\ Leased' /\ Versions' /\ Flushing'
  BY <1>2, <1>3, Zenon DEF PageInv, BytesInv, FramesHold, Kept, Leased, Versions,
     Flushing, SameFrames
<1>9. Evictions'
  BY <1>1, <1>2, <1>3, <1>5, <1>6, Zenon
     DEF PageInv, BytesInv, Evictions, HeldByFlusher, SameFrames
<1> QED BY <1>2, <1>7, <1>8, <1>9, Zenon DEF PageInv, BytesInv

(* An accepted ticket completed once the file has the page's newest bytes: *)
(* the frame is emptied and nothing is lost.  The worker has just written  *)
(* the bytes or found the page clean; the flusher wrote them before.       *)
LEMMA Completed ==
  ASSUME PageInv, NEW e \in CacheEviction, CompleteEviction(e),
         file' \in [Pages -> Nat],
         file'[e.page] = newest[e.page],
         \A p \in Pages : p # e.page => file'[p] = file[p],
         UNCHANGED <<bytes, newest, leases>>, ranged' = ranged \ {e.page}
  PROVE  FramesHold' /\ Kept' /\ Leased'
<1>1. /\ e.page \in Pages /\ e.frame \in Frames /\ page[e.frame] = e.page
      /\ e.page # NoPage
  BY AcceptedFrame, PagesAssumption, Zenon DEF PageInv, CompleteEviction
<1>2. /\ Frames' = Frames
      /\ \A g \in Frames :
           /\ page'[g] = IF g = e.frame THEN NoPage ELSE page[g]
           /\ dirty'[g] <=> dirty[g] /\ g # e.frame
           /\ generation'[g] = IF g = e.frame THEN generation[g] + 1
                               ELSE generation[g]
  BY CompleteStep, Zenon DEF PageInv
<1>3. \A g \in Frames : page[g] = e.page => g = e.frame
  BY <1>1, OneFrame, SMTT(30) DEF PageInv
<1>4. FramesHold'
  BY <1>1, <1>2, <1>3, SMTT(30) DEF PageInv, BytesInv, FramesHold
<1>5. Kept'
  BY <1>1, <1>2, <1>3 DEF PageInv, BytesInv, Kept
<1>6. Leased'
  <2>1. \A l \in leases : l.frame \in Frames /\ l.generation \in Nat
    BY Zenon DEF PageInv, ServiceInv, ServiceTypes
  <2>2. \A g \in Frames : generation[g] \in Nat
    BY Zenon DEF PageInv, CacheInv, CacheTypes
  <2> QED BY <1>2, <2>1, <2>2 DEF PageInv, BytesInv, Leased
<1> QED BY <1>4, <1>5, <1>6, Zenon

(* The write-back of the victim succeeded and the eviction completes: the  *)
(* bytes of the old page are in the file before its frame is given to      *)
(* another page.                                                           *)
LEMMA ResolveEvictsStep ==
  ASSUME PageInv, ResolveEvicts
  PROVE  PageInv'
<1> DEFINE e == worker.victim
<1>1. worker.pc = "writeback" /\ mutex = "worker" /\ e \in CacheEviction
  BY Zenon DEF PageInv, ServiceInv, Threads, ResolveEvicts
<1>2. /\ CompleteEviction(e) /\ ranged' = ranged \ {e.page}
      /\ UNCHANGED <<bytes, disk, newest, mutex, flusher, daemon, leases, promised,
                     requests, flushes>>
      /\ IF e.dirty
         THEN /\ file' = [file EXCEPT ![e.page] = bytes[e.frame].version]
              /\ owed' = owed \cup {e.page}
         ELSE UNCHANGED <<file, owed>>
      /\ worker' = [worker EXCEPT !.pc = "read",
                                  !.program = IF e.dirty THEN e.page ELSE NoPage]
  BY Zenon DEF ResolveEvicts, Writeback, fileVars
<1> HIDE DEF e
<1>3. /\ e.page \in Pages /\ e.frame \in Frames /\ page[e.frame] = e.page
      /\ evicting[e.frame] /\ (dirty[e.frame] <=> e.dirty) /\ e.page # NoPage
  BY <1>1, <1>2, AcceptedFrame, PagesAssumption, Zenon DEF PageInv, CompleteEviction
<1>4. /\ CacheInv' /\ Frames' = Frames
      /\ \A g \in Frames :
           /\ page'[g] = IF g = e.frame THEN NoPage ELSE page[g]
           /\ dirty'[g] <=> dirty[g] /\ g # e.frame
           /\ evicting'[g] <=> evicting[g] /\ g # e.frame
           /\ generation'[g] = IF g = e.frame THEN generation[g] + 1 ELSE generation[g]
  <2>1. CacheInv /\ CompleteEviction(e)
    BY <1>2, Zenon DEF PageInv
  <2> QED BY <1>1, <2>1, CompleteStep, Zenon
<1>5. \A g \in Frames : page[g] = e.page => g = e.frame
  BY <1>3, OneFrame, Zenon DEF PageInv
<1>6. bytes[e.frame].version = newest[e.page]
  <2> DEFINE f == e.frame
  <2>1. f \in Frames /\ page[f] # NoPage /\ page[f] = e.page
    BY <1>3, Zenon
  <2> HIDE DEF f
  <2>2. bytes[f] = [page |-> page[f], version |-> newest[page[f]]]
    BY <2>1, Zenon DEF PageInv, BytesInv, FramesHold
  <2>3. bytes[f].version = newest[e.page]
    BY <2>1, <2>2
  <2> QED BY <2>3, Zenon DEF f
<1>7. ~e.dirty => file[e.page] = newest[e.page]
  BY <1>3, <1>5, Zenon DEF PageInv, BytesInv, Kept
<1>8. /\ newest \in [Pages -> Nat] /\ file \in [Pages -> Nat] /\ disk \in [Pages -> Nat]
      /\ promised \in [Pages -> Nat] /\ owed \subseteq Pages /\ flusher \in FlusherStates
  BY Zenon DEF PageInv, ServiceInv, ServiceTypes
<1>9. /\ file' \in [Pages -> Nat] /\ owed' \subseteq Pages
      /\ file'[e.page] = newest[e.page]
      /\ \A p \in Pages : p # e.page => file'[p] = file[p]
  BY <1>2, <1>3, <1>6, <1>7, <1>8, Zenon
<1>10. worker' \in WorkerStates /\ worker'.pc = "read" /\ worker'.page = worker.page
  BY <1>2, <1>3, Zenon DEF PageInv, ServiceInv, ServiceTypes, WorkerStates
<1>11. ServiceInv'
  BY <1>1, <1>2, <1>4, <1>9, <1>10, SameStates, Zenon
     DEF PageInv, ServiceInv, ServiceTypes, Threads
<1>12. FramesHold' /\ Kept' /\ Leased'
  BY <1>1, <1>2, <1>9, Completed, Zenon
<1>13. \A p \in Pages : file[p] <= file'[p]
  BY <1>8, <1>9 DEF PageInv, BytesInv, Versions
<1>14. Versions'
  BY <1>2, <1>8, <1>9, <1>13 DEF PageInv, BytesInv, Versions
<1>15. Flushing'
  <2>1. flusher.pc # "scanning"
    BY <1>1, Zenon DEF PageInv, ServiceInv, Threads
  <2>2. flusher.scope \subseteq Pages
    BY <1>8, Zenon DEF FlusherStates
  <2> QED BY <1>2, <1>8, <1>9, <1>13, <2>1, <2>2 DEF PageInv, BytesInv, Flushing
<1>16. Evictions'
  <2> SUFFICES ASSUME NEW g \in Frames, evicting'[g]
               PROVE  HeldByFlusher(g)'
    BY <1>4, Zenon DEF Evictions
  <2>1. /\ evicting[g] /\ g # e.frame /\ page'[g] = page[g]
        /\ generation'[g] = generation[g] /\ (dirty'[g] <=> dirty[g])
    BY <1>4, Zenon
  <2>2. page[g] \in Pages /\ page[g] # e.page
    BY <1>5, <2>1 DEF PageInv, CacheInv, CacheTypes, Maps
  <2>3. HeldByFlusher(g)
    BY <2>1, Zenon DEF PageInv, BytesInv, Evictions, e
  <2> QED BY <1>2, <1>9, <2>1, <2>2, <2>3 DEF HeldByFlusher
<1> QED BY <1>4, <1>11, <1>12, <1>14, <1>15, <1>16, Zenon DEF PageInv, BytesInv

(* The write-back of the victim failed: the eviction is aborted and the    *)
(* victim keeps its frame, its bytes and its dirty mark.                   *)
LEMMA ResolveWritebackFailsStep ==
  ASSUME PageInv, ResolveWritebackFails
  PROVE  PageInv'
<1> DEFINE e == worker.victim
<1>1. worker.pc = "writeback" /\ mutex = "worker" /\ e \in CacheEviction
  BY Zenon DEF PageInv, ServiceInv, Threads, ResolveWritebackFails
<1>2. /\ UNCHANGED <<bytes, file, disk, newest, flusher, ranged, leases, owed,
                     promised, requests, flushes>>
      /\ worker' = IdleWorker /\ mutex' = "free" /\ daemon' = "idle"
      /\ CancelEviction(e)
  BY Zenon DEF ResolveWritebackFails, fileVars, Return
<1>3. /\ CacheInv' /\ SameFrames /\ dirty' = dirty
      /\ \A f \in Frames : evicting'[f] <=> evicting[f] /\ f # e.frame
  BY <1>1, <1>2, CancelStep, Zenon DEF PageInv
<1>4. IdleWorker.pc = "idle"
  BY Zenon DEF IdleWorker
<1>5. ServiceInv'
  BY <1>1, <1>2, <1>3, <1>4, SameStates, IdleTypes, Zenon
     DEF PageInv, ServiceInv, ServiceTypes, Threads, SameFrames
<1>6. BytesInv'
  BY <1>1, <1>2, <1>3, Zenon DEF PageInv, BytesInv, FramesHold, Kept, Leased,
     Evictions, HeldByFlusher, Versions, Flushing, SameFrames
<1> QED BY <1>3, <1>5, <1>6, Zenon DEF PageInv

(* The fill of the frame ends: the frame holds the bytes of the file, the  *)
(* page is mapped to it and the address is published.                      *)
LEMMA ResolveFillsStep ==
  ASSUME PageInv, ResolveFills
  PROVE  PageInv'
<1> DEFINE p == worker.page
           f == worker.frame
           w == worker.write
           l == [page |-> p, frame |-> f, generation |-> generation[f]]
<1>1. /\ worker.pc = "read" /\ mutex = "worker" /\ p \in Pages /\ p # NoPage
      /\ w \in BOOLEAN
  BY PagesAssumption, Zenon
     DEF PageInv, ServiceInv, ServiceTypes, WorkerStates, Threads, ResolveFills
<1>2. /\ UNCHANGED <<file, disk, newest, flusher, promised, requests, flushes>>
      /\ bytes' = [bytes EXCEPT ![f] = [page |-> p, version |-> file[p]]]
      /\ ranged' = ranged \cup {p} /\ owed' = owed \ {worker.program}
      /\ Publish(p, f, w)
      /\ worker' = IdleWorker /\ mutex' = "free" /\ daemon' = "idle"
      /\ leases' = IF w THEN leases \cup {l} ELSE leases
  BY Zenon DEF ResolveFills, Fill, Answer, Return
<1> HIDE DEF p, f, w
<1>3. /\ CacheInv' /\ Frames' = Frames /\ UNCHANGED <<generation, evicting>>
      /\ f \in Frames /\ page[f] = NoPage
      /\ \A g \in Frames : page[g] # p
      /\ \A g \in Frames : page'[g] = IF g = f THEN p ELSE page[g]
      /\ \A g \in Frames : dirty'[g] <=> IF g = f THEN w ELSE dirty[g]
  BY <1>1, <1>2, PublishStep DEF PageInv
<1>4. /\ l \in [page : Pages, frame : Frames, generation : Nat]
      /\ l.page = p /\ l.frame = f /\ l.generation = generation[f]
      /\ generation[f] \in Nat
  BY <1>1, <1>3, Zenon DEF PageInv, CacheInv, CacheTypes
<1> HIDE DEF l
<1>5. file[p] = newest[p]
  BY <1>1, <1>3, AbsentInFile, Zenon
<1>6. /\ bytes' \in [Frames -> [page : Pages \cup {NoPage}, version : Nat]]
      /\ \A g \in Frames : bytes'[g] = IF g = f THEN [page |-> p, version |-> file[p]]
                                        ELSE bytes[g]
  BY <1>1, <1>2, <1>3, Zenon DEF PageInv, ServiceInv, ServiceTypes
<1>7. IdleWorker.pc = "idle"
  BY Zenon DEF IdleWorker
<1>8. ServiceInv'
  BY <1>1, <1>2, <1>3, <1>4, <1>6, <1>7, SameStates, IdleTypes, Zenon
     DEF PageInv, ServiceInv, ServiceTypes, Threads
<1>9. FramesHold'
  BY <1>2, <1>3, <1>5, <1>6, SMTT(30) DEF PageInv, BytesInv, FramesHold
<1>10. Kept'
  BY <1>2, <1>3, <1>5, PagesAssumption, SMTT(30) DEF PageInv, BytesInv, Kept
<1>11. Leased'
  <2>1. \A m \in leases : m.frame \in Frames /\ m.page \in Pages
    BY Zenon DEF PageInv, ServiceInv, ServiceTypes
  <2> QED BY <1>2, <1>3, <1>4, <2>1, PagesAssumption DEF PageInv, BytesInv, Leased
<1>12. Evictions'
  <2>1. ~evicting[f]
    BY <1>3, Zenon DEF PageInv, CacheInv, Maps
  <2> QED BY <1>1, <1>2, <1>3, <2>1 DEF PageInv, BytesInv, Evictions, HeldByFlusher
<1>13. Versions' /\ Flushing'
  BY <1>2, Zenon DEF PageInv, BytesInv, Versions, Flushing
<1> QED BY <1>3, <1>8, <1>9, <1>10, <1>11, <1>12, <1>13, Zenon DEF PageInv, BytesInv

(***************************************************************************)
(* The flusher's steps.                                                    *)
(***************************************************************************)
LEMMA FlushBeginsStep ==
  ASSUME PageInv, NEW scope \in SUBSET Pages, FlushBegins(scope)
  PROVE  PageInv'
<1>1. /\ CacheInv' /\ SameFrames
      /\ UNCHANGED <<dirty, evicting, pageToFrame, evictingPages>>
  BY SameCache, Zenon DEF PageInv, FlushBegins
<1>2. /\ UNCHANGED <<bytes, file, disk, newest, worker, daemon, ranged, leases,
                     owed, requests>>
      /\ mutex = "free" /\ flusher.pc \in {"idle", "Ready", "failed"}
      /\ mutex' = "flusher" /\ promised' = newest /\ flushes' = flushes + 1
  BY Zenon DEF FlushBegins, fileVars
<1>3. /\ flusher' \in FlusherStates /\ flusher'.pc = "scanning"
      /\ flusher'.scope = scope /\ flusher'.todo = ranged \cap scope
      /\ flusher'.synchronized = FALSE
  BY Zenon DEF FlushBegins, FlusherStates, IdleFlusher
<1>4. ServiceInv'
  BY <1>1, <1>2, <1>3, SameStates
     DEF PageInv, ServiceInv, ServiceTypes, Threads, SameFrames
<1>5. FramesHold' /\ Kept' /\ Leased'
  BY <1>1, <1>2, Zenon DEF PageInv, BytesInv, FramesHold, Kept, Leased, SameFrames
<1>6. Evictions'
  BY <1>1, <1>2, Zenon
     DEF PageInv, ServiceInv, Threads, BytesInv, Evictions, HeldByFlusher, SameFrames
<1>7. Versions'
  BY <1>2 DEF PageInv, ServiceInv, ServiceTypes, BytesInv, Versions
<1>8. Flushing'
  <2>1. \A p \in scope : p \notin ranged => newest[p] <= file[p]
    <3> SUFFICES ASSUME NEW p \in scope, p \notin ranged
                 PROVE  newest[p] <= file[p]
      BY Zenon
    <3>1. p \in Pages /\ p # NoPage /\ newest[p] \in Nat
      BY PagesAssumption, Zenon DEF PageInv, ServiceInv, ServiceTypes
    <3>2. \A f \in Frames : page[f] # p
      BY <3>1, Zenon DEF PageInv, BytesInv, FramesHold
    <3> QED BY <3>1, <3>2, AbsentInFile
  <2> QED BY <1>2, <1>3, <2>1, Zenon DEF Flushing
<1> QED BY <1>1, <1>4, <1>5, <1>6, <1>7, <1>8, Zenon DEF PageInv, BytesInv

(* while the flusher scans under the mutex no frame is evicting *)
LEMMA ScanningAlone ==
  ASSUME PageInv, flusher.pc = "scanning"
  PROVE  /\ mutex = "flusher" /\ worker.pc \notin {"writeback", "read"}
         /\ \A f \in Frames : ~evicting[f]
BY Zenon DEF PageInv, ServiceInv, Threads, BytesInv, Evictions, HeldByFlusher

(* A flush passes over a page that has no dirty frame.                     *)
LEMMA FlushSkipsStep ==
  ASSUME PageInv, NEW p \in Pages, FlushSkips(p)
  PROVE  PageInv'
<1>1. /\ CacheInv' /\ SameFrames
      /\ UNCHANGED <<dirty, evicting, pageToFrame, evictingPages>>
  BY SameCache, Zenon DEF PageInv, FlushSkips
<1>2. /\ UNCHANGED <<bytes, file, disk, newest, mutex, worker, daemon, ranged,
                     leases, owed, promised, requests, flushes>>
      /\ flusher.pc = "scanning" /\ Eligible({p}, TRUE) = {}
  BY Zenon DEF FlushSkips, fileVars
<1>3. /\ flusher' \in FlusherStates /\ flusher'.pc = "scanning"
      /\ flusher'.scope = flusher.scope /\ flusher'.todo = flusher.todo \ {p}
      /\ flusher'.synchronized = flusher.synchronized
  BY <1>2, Zenon DEF PageInv, ServiceInv, ServiceTypes, FlushSkips, FlusherStates
<1>4. ServiceInv'
  BY <1>1, <1>2, <1>3, SameStates, Zenon
     DEF PageInv, ServiceInv, ServiceTypes, Threads, SameFrames
<1>5. FramesHold' /\ Kept' /\ Leased' /\ Versions'
  BY <1>1, <1>2, Zenon
     DEF PageInv, BytesInv, FramesHold, Kept, Leased, Versions, SameFrames
<1>6. Evictions'
  BY <1>1, <1>2, ScanningAlone, Zenon DEF Evictions, HeldByFlusher, SameFrames
<1>7. promised[p] <= file[p]
  <2>1. file[p] = newest[p]
    BY <1>2, ScanningAlone, Zenon DEF PageInv, BytesInv, Kept, Eligible
  <2> QED BY <2>1, Zenon DEF PageInv, BytesInv, Versions
<1>8. Flushing'
  BY <1>2, <1>3, <1>7, Zenon DEF PageInv, BytesInv, Flushing
<1> QED BY <1>1, <1>4, <1>5, <1>6, <1>8, Zenon DEF PageInv, BytesInv

(* A flush writes a dirty page back and keeps its frame marked as being    *)
(* evicted while the program of the page is modelled without the mutex.    *)
LEMMA FlushWritesBackStep ==
  ASSUME PageInv, NEW p \in Pages, FlushWritesBack(p)
  PROVE  PageInv'
<1> DEFINE v == Victim(Eligible({p}, TRUE))
           e == TicketFor(v)
<1>1. flusher.pc = "scanning" /\ BeginEviction({p}, TRUE)
  BY Zenon DEF FlushWritesBack
<1>2. /\ CacheInv' /\ SameFrames /\ dirty' = dirty
      /\ v \in Frames /\ page[v] = p /\ dirty[v]
      /\ \A f \in Frames : evicting'[f] <=> evicting[f] \/ f = v
  <2> DEFINE range == {p}
  <2>1. range \in SUBSET Pages /\ CacheInv /\ BeginEviction(range, TRUE)
    BY <1>1, Zenon DEF PageInv
  <2> HIDE DEF range
  <2>2. LET u == Victim(Eligible(range, TRUE)) IN
        /\ CacheInv' /\ SameFrames /\ dirty' = dirty
        /\ u \in Frames /\ page[u] \in range /\ dirty[u]
        /\ \A f \in Frames : evicting'[f] <=> evicting[f] \/ f = u
    BY <2>1, BeginStep, Zenon
  <2> QED BY <2>2, Zenon DEF range
<1>3. /\ UNCHANGED <<bytes, disk, newest, worker, daemon, ranged, leases, promised,
                     requests, flushes>>
      /\ file' = [file EXCEPT ![e.page] = bytes[e.frame].version]
      /\ owed' = owed \cup {e.page} /\ mutex' = "free"
      /\ flusher' = [flusher EXCEPT !.pc = "modelling", !.todo = @ \ {p}, !.ticket = e]
  BY Zenon DEF FlushWritesBack, Writeback, ReleaseMutex
<1> HIDE DEF v
<1>4. /\ e \in CacheEviction /\ e.frame = v /\ e.page = p
      /\ e.generation = generation[v] /\ e.dirty
  BY <1>2, Zenon DEF TicketFor, CacheEviction, PageInv, CacheInv, CacheTypes
<1> HIDE DEF e
<1>5. bytes[v].version = newest[p]
  <2>1. page[v] # NoPage
    BY <1>2, PagesAssumption, Zenon
  <2>2. bytes[v] = [page |-> page[v], version |-> newest[page[v]]]
    BY <1>2, <2>1, Zenon DEF PageInv, BytesInv, FramesHold
  <2> QED BY <1>2, <2>2
<1>6. /\ newest \in [Pages -> Nat] /\ file \in [Pages -> Nat] /\ disk \in [Pages -> Nat]
      /\ promised \in [Pages -> Nat] /\ owed \subseteq Pages /\ flusher \in FlusherStates
  BY Zenon DEF PageInv, ServiceInv, ServiceTypes
<1>7. /\ file' \in [Pages -> Nat] /\ owed' \subseteq Pages /\ file'[p] = newest[p]
      /\ \A q \in Pages : q # p => file'[q] = file[q]
  BY <1>3, <1>4, <1>5, <1>6, Zenon
<1>8. /\ flusher' \in FlusherStates /\ flusher'.pc = "modelling"
      /\ flusher'.scope = flusher.scope /\ flusher'.todo = flusher.todo \ {p}
      /\ flusher'.ticket = e
  BY <1>3, <1>4, <1>6, Zenon DEF FlusherStates
<1>9. ServiceInv'
  BY <1>1, <1>2, <1>3, <1>4, <1>7, <1>8, SameStates, ScanningAlone
     DEF PageInv, ServiceInv, ServiceTypes, Threads, SameFrames
<1>10. FramesHold' /\ Leased'
  BY <1>2, <1>3, Zenon DEF PageInv, BytesInv, FramesHold, Leased, SameFrames
<1>11. Kept'
  BY <1>2, <1>3, <1>7 DEF PageInv, BytesInv, Kept, SameFrames
<1>12. Evictions'
  BY <1>1, <1>2, <1>3, <1>4, <1>7, <1>8, ScanningAlone
     DEF Evictions, HeldByFlusher, SameFrames
<1>13. \A q \in Pages : file[q] <= file'[q]
  BY <1>6, <1>7, SMTT(30) DEF PageInv, BytesInv, Versions
<1>14. Versions'
  BY <1>3, <1>6, <1>7, <1>13 DEF PageInv, BytesInv, Versions
<1>15. Flushing'
  <2>1. flusher.scope \subseteq Pages
    BY <1>6, Zenon DEF FlusherStates
  <2>2. promised[p] <= file'[p]
    BY <1>7, Zenon DEF PageInv, BytesInv, Versions
  <2> QED BY <1>1, <1>3, <1>6, <1>7, <1>8, <1>13, <2>1, <2>2, Zenon
      DEF PageInv, BytesInv, Flushing
<1> QED BY <1>2, <1>9, <1>10, <1>11, <1>12, <1>14, <1>15, Zenon DEF PageInv, BytesInv

(* where FlushReturns leaves the flusher *)
LEMMA ReturnedFlusher ==
  ASSUME PageInv, NEW s \in {"Ready", "failed"}, FlushReturns(s)
  PROVE  /\ flusher' \in FlusherStates /\ flusher'.pc = s
         /\ flusher'.scope = flusher.scope /\ mutex' = "free"
BY Zenon DEF FlushReturns, PageInv, ServiceInv, ServiceTypes, FlusherStates

(* A write-back of a flush fails: the flush returns an error and the page  *)
(* stays dirty.                                                            *)
LEMMA FlushWritebackFailsStep ==
  ASSUME PageInv, NEW p \in Pages, FlushWritebackFails(p)
  PROVE  PageInv'
<1> DEFINE E == Eligible({p}, TRUE)
           v == Victim(E)
<1>1. /\ flusher.pc = "scanning" /\ E # {} /\ FlushReturns("failed")
      /\ referenced' = [referenced EXCEPT ![v] = TRUE] /\ hand' = Advance(v)
      /\ UNCHANGED <<page, dirty, evicting, generation, pageToFrame, evictingPages,
                     worker, daemon, ranged, leases, owed, promised, requests, flushes>>
  BY Zenon DEF FlushWritebackFails
<1>2. UNCHANGED <<bytes, file, disk, newest>>
  BY Zenon DEF FlushWritebackFails, fileVars
<1>3. v \in Frames
  <2>1. E \subseteq Frames
    BY Zenon DEF Eligible
  <2> HIDE DEF E
  <2> QED BY <1>1, <2>1, VictimIn, Zenon DEF PageInv
<1> HIDE DEF v, E
<1>4. SameFrames
  BY <1>1, Zenon DEF SameFrames, Frames
<1>5. CacheInv'
  <2>1. hand' \in Frames
    BY <1>1, <1>3, AdvanceType, Zenon DEF PageInv, CacheInv
  <2>2. CacheTypes'
    BY <1>1, <1>3, <1>4, <2>1, Zenon DEF PageInv, CacheInv, CacheTypes, SameFrames
  <2> QED BY <1>1, <1>4, <2>2 DEF PageInv, CacheInv, Numbered, Maps, SameFrames
<1>6. /\ flusher' \in FlusherStates /\ flusher'.pc = "failed" /\ mutex' = "free"
  BY <1>1, ReturnedFlusher, Zenon
<1>7. ServiceInv'
  BY <1>1, <1>2, <1>4, <1>6, SameStates, ScanningAlone, Zenon
     DEF PageInv, ServiceInv, ServiceTypes, Threads, SameFrames
<1>8. BytesInv'
  BY <1>1, <1>2, <1>4, <1>6, ScanningAlone DEF PageInv, BytesInv, FramesHold, Kept,
     Leased, Evictions, HeldByFlusher, Versions, Flushing, SameFrames
<1> QED BY <1>5, <1>7, <1>8, Zenon DEF PageInv

(* The flush has modelled the program of a page without holding the mutex; *)
(* nothing that the invariant speaks of has changed.                       *)
LEMMA FlushModelsStep ==
  ASSUME PageInv, FlushModels
  PROVE  PageInv'
<1>1. /\ CacheInv' /\ SameFrames
      /\ UNCHANGED <<dirty, evicting, pageToFrame, evictingPages>>
  BY SameCache, Zenon DEF PageInv, FlushModels
<1>2. /\ UNCHANGED <<bytes, file, disk, newest, mutex, worker, daemon, ranged,
                     leases, promised, requests, flushes>>
      /\ flusher.pc = "modelling" /\ owed' \subseteq owed
  BY Zenon DEF FlushModels, fileVars
<1>3. /\ flusher' \in FlusherStates /\ flusher'.pc = "modelled"
      /\ flusher'.scope = flusher.scope /\ flusher'.todo = flusher.todo
      /\ flusher'.ticket = flusher.ticket
  BY <1>2, Zenon DEF PageInv, ServiceInv, ServiceTypes, FlushModels, FlusherStates
<1>4. ServiceInv'
  BY <1>1, <1>2, <1>3, SameStates, Zenon
     DEF PageInv, ServiceInv, ServiceTypes, Threads, SameFrames
<1>5. FramesHold' /\ Kept' /\ Leased'
  BY <1>1, <1>2, Zenon DEF PageInv, BytesInv, FramesHold, Kept, Leased, SameFrames
<1>6. Evictions'
  BY <1>1, <1>2, <1>3, Zenon DEF PageInv, BytesInv, Evictions, HeldByFlusher, SameFrames
<1>7. Versions' /\ Flushing'
  BY <1>2, <1>3, Zenon DEF PageInv, BytesInv, Versions, Flushing
<1> QED BY <1>1, <1>4, <1>5, <1>6, <1>7, Zenon DEF PageInv, BytesInv

(* with the mutex free, the flusher's is the only eviction there can be *)
LEMMA FlusherAlone ==
  ASSUME PageInv, mutex = "free", NEW f \in Frames, evicting[f]
  PROVE  HeldByFlusher(f) /\ Accepts(flusher.ticket)
<1>1. HeldByFlusher(f)
  BY Zenon DEF PageInv, ServiceInv, Threads, BytesInv, Evictions
<1>2. page[f] # NoPage /\ evictingPages[page[f]] = f
  BY Zenon DEF PageInv, CacheInv, Maps
<1>3. dirty[f] = flusher.ticket.dirty
  <2>1. dirty[f] \in BOOLEAN
    BY Zenon DEF PageInv, CacheInv, CacheTypes
  <2>2. flusher.ticket \in CacheEviction
    BY <1>1, Zenon DEF PageInv, ServiceInv, Threads, HeldByFlusher
  <2>3. flusher.ticket.dirty \in BOOLEAN
    BY <2>2, Zenon DEF CacheEviction
  <2> QED BY <1>1, <2>1, <2>3, Zenon DEF HeldByFlusher
<1> QED BY <1>1, <1>2, <1>3, Zenon DEF HeldByFlusher, Accepts

(* The program of a page fails: the flush takes its eviction back,         *)
(* provided the ticket is still the current one, and returns an error.     *)
LEMMA FlushProgramFailsStep ==
  ASSUME PageInv, FlushProgramFails
  PROVE  PageInv'
<1> DEFINE e == flusher.ticket
<1>1. /\ flusher.pc \in {"modelling", "modelled"} /\ mutex = "free"
      /\ e \in CacheEviction
  BY Zenon DEF PageInv, ServiceInv, Threads, FlushProgramFails
<1>2. /\ UNCHANGED <<bytes, file, disk, newest, worker, daemon, ranged, leases, owed,
                     promised, requests, flushes>>
      /\ IF Accepts(e) THEN CancelEviction(e) ELSE UNCHANGED cacheVars
      /\ FlushReturns("failed")
  BY Zenon DEF FlushProgramFails, fileVars
<1>3. /\ CacheInv' /\ SameFrames /\ dirty' = dirty
      /\ \A f \in Frames : ~evicting'[f]
  <2>1. \A f \in Frames : evicting[f] => f = e.frame
    BY <1>1, FlusherAlone, Zenon DEF HeldByFlusher
  <2>2. CASE Accepts(e)
    <3>1. CacheInv /\ CancelEviction(e)
      BY <1>2, <2>2, Zenon DEF PageInv
    <3>2. /\ CacheInv' /\ SameFrames /\ dirty' = dirty
          /\ \A f \in Frames : evicting'[f] <=> evicting[f] /\ f # e.frame
      <4> HIDE DEF e
      <4> QED BY <1>1, <3>1, CancelStep, Zenon
    <3> QED BY <2>1, <3>2, Zenon
  <2>3. CASE ~Accepts(e)
    <3>1. /\ CacheInv' /\ SameFrames /\ UNCHANGED <<dirty, evicting>>
      BY <1>2, <2>3, SameCache, Zenon DEF PageInv
    <3>2. ASSUME NEW f \in Frames, evicting[f]
          PROVE  FALSE
      BY <1>1, <2>3, <3>2, FlusherAlone, Zenon
    <3> QED BY <3>1, <3>2, Zenon
  <2> QED BY <2>2, <2>3, Zenon
<1>4. flusher' \in FlusherStates /\ flusher'.pc = "failed" /\ mutex' = "free"
  BY <1>2, ReturnedFlusher, Zenon
<1>5. ServiceInv'
  BY <1>1, <1>2, <1>3, <1>4, SameStates, Zenon
     DEF PageInv, ServiceInv, ServiceTypes, Threads, SameFrames
<1>6. BytesInv'
  BY <1>2, <1>3, <1>4, Zenon DEF PageInv, BytesInv, FramesHold, Kept,
     Leased, Evictions, HeldByFlusher, Versions, Flushing, SameFrames
<1> QED BY <1>3, <1>5, <1>6, Zenon DEF PageInv

(* The flush takes the mutex again, synchronises the file and completes    *)
(* the eviction if its ticket is still the current one; if the page was    *)
(* reclaimed meanwhile the flush fails and the cache stays as it is.       *)
LEMMA FlushCommitsStep ==
  ASSUME PageInv, FlushCommits
  PROVE  PageInv'
<1> DEFINE e == flusher.ticket
           completed == e.page \in ranged /\ Accepts(e)
<1>1. flusher.pc = "modelled" /\ mutex = "free" /\ e \in CacheEviction
  BY Zenon DEF PageInv, ServiceInv, Threads, FlushCommits
<1>2. /\ UNCHANGED <<bytes, file, newest, worker, daemon, leases, owed, promised,
                     requests, flushes>>
      /\ disk' = file /\ ranged' = IF completed THEN ranged \ {e.page} ELSE ranged
  BY Zenon DEF FlushCommits, Synchronize, EraseRange
<1>3. /\ file \in [Pages -> Nat] /\ newest \in [Pages -> Nat] /\ promised \in [Pages -> Nat]
      /\ flusher \in FlusherStates /\ ranged' \subseteq Pages /\ e.page \in Pages
  BY <1>1, <1>2, Zenon DEF PageInv, ServiceInv, ServiceTypes, CacheEviction
<1>4. Versions'
  BY <1>2, <1>3 DEF PageInv, BytesInv, Versions
<1>5. CASE completed
  <2>1. /\ CompleteEviction(e) /\ mutex' = "flusher" /\ ranged' = ranged \ {e.page}
        /\ flusher' = [flusher EXCEPT !.pc = "scanning", !.ticket = NoTicket,
                                      !.synchronized = TRUE]
    BY <1>2, <1>5, Zenon DEF FlushCommits
  <2>2. /\ flusher' \in FlusherStates /\ flusher'.pc = "scanning"
        /\ flusher'.scope = flusher.scope /\ flusher'.todo = flusher.todo
    BY <1>3, <2>1, Zenon DEF FlusherStates
  <2>3. /\ e.frame \in Frames /\ page[e.frame] = e.page /\ evicting[e.frame]
    BY <1>1, <1>5, AcceptedFrame, Zenon DEF PageInv
  <2>4. \A f \in Frames : evicting[f] => f = e.frame
    BY <1>1, FlusherAlone, Zenon DEF HeldByFlusher
  <2>5. file[e.page] = newest[e.page]
    BY <1>1, <2>3, FlusherAlone DEF HeldByFlusher
  <2> HIDE DEF e, completed
  <2>6. /\ CacheInv' /\ Frames' = Frames
        /\ \A g \in Frames : evicting'[g] <=> evicting[g] /\ g # e.frame
    <3>1. CacheInv
      BY Zenon DEF PageInv
    <3> QED BY <1>1, <2>1, <3>1, CompleteStep, Zenon
  <2>7. FramesHold' /\ Kept' /\ Leased'
    BY <1>1, <1>2, <1>3, <2>1, <2>5, Completed, Zenon
  <2>8. ServiceInv'
    BY <1>1, <1>2, <1>3, <2>1, <2>2, <2>6, SameStates, Zenon
       DEF PageInv, ServiceInv, ServiceTypes, Threads
  <2>9. Evictions'
    BY <2>4, <2>6, Zenon DEF Evictions
  <2>10. Flushing'
    BY <1>1, <1>2, <2>2, Zenon DEF PageInv, BytesInv, Flushing
  <2> QED BY <1>4, <2>6, <2>7, <2>8, <2>9, <2>10, Zenon DEF PageInv, BytesInv
<1>6. CASE ~completed
  <2>1. UNCHANGED <<cacheVars, ranged>> /\ FlushReturns("failed")
    BY <1>2, <1>6, Zenon DEF FlushCommits
  <2>2. /\ CacheInv' /\ SameFrames /\ UNCHANGED <<dirty, evicting>>
    BY <2>1, SameCache, Zenon DEF PageInv
  <2>3. flusher' \in FlusherStates /\ flusher'.pc = "failed" /\ mutex' = "free"
    BY <2>1, ReturnedFlusher, Zenon
  <2>4. \A f \in Frames : ~evicting[f]
    <3> SUFFICES ASSUME NEW f \in Frames, evicting[f]
                 PROVE  FALSE
      BY Zenon
    <3>1. HeldByFlusher(f) /\ Accepts(e)
      BY <1>1, FlusherAlone, Zenon
    <3>2. e.page = page[f] /\ page[f] # NoPage
      BY <3>1, Zenon DEF HeldByFlusher, PageInv, CacheInv, Maps
    <3>3. e.page \in ranged
      BY <3>2, Zenon DEF PageInv, BytesInv, FramesHold
    <3> QED BY <1>6, <3>1, <3>3, Zenon
  <2>5. ServiceInv'
    BY <1>1, <1>2, <1>3, <2>1, <2>2, <2>3, SameStates, Zenon
       DEF PageInv, ServiceInv, ServiceTypes, Threads, SameFrames
  <2>6. FramesHold' /\ Kept' /\ Leased' /\ Evictions' /\ Flushing'
    BY <1>2, <2>1, <2>2, <2>3, <2>4, Zenon
       DEF PageInv, BytesInv, FramesHold, Kept, Leased,
       Evictions, Flushing, SameFrames
  <2> QED BY <1>4, <2>2, <2>5, <2>6, Zenon DEF PageInv, BytesInv
<1> QED BY <1>5, <1>6, Zenon

(* The flush ends: it has synchronised the backing file, or does so now,   *)
(* and what its scope wrote back is durable when it reports Ready.         *)
LEMMA FlushEndsStep ==
  ASSUME PageInv, FlushEnds
  PROVE  PageInv'
<1>1. /\ CacheInv' /\ SameFrames
      /\ UNCHANGED <<dirty, evicting, pageToFrame, evictingPages>>
  BY SameCache, Zenon DEF PageInv, FlushEnds
<1>2. /\ UNCHANGED <<bytes, file, newest, worker, daemon, ranged, leases, owed,
                     promised, requests, flushes>>
      /\ flusher.pc = "scanning" /\ flusher.todo = {}
  BY Zenon DEF FlushEnds
<1>3. /\ \/ disk' = file /\ FlushReturns("Ready")
         \/ disk' = disk /\ FlushReturns("failed")
  BY <1>2, Zenon DEF FlushEnds, Synchronize, PageInv, BytesInv, Flushing
<1>4. /\ flusher' \in FlusherStates /\ mutex' = "free"
      /\ flusher'.scope = flusher.scope
      /\ \/ disk' = file /\ flusher'.pc = "Ready"
         \/ disk' = disk /\ flusher'.pc = "failed"
  BY <1>3, ReturnedFlusher, Zenon
<1>5. ServiceInv'
  BY <1>1, <1>2, <1>4, SameStates, ScanningAlone, Zenon
     DEF PageInv, ServiceInv, ServiceTypes, Threads, SameFrames
<1>6. FramesHold' /\ Kept' /\ Leased'
  BY <1>1, <1>2, Zenon DEF PageInv, BytesInv, FramesHold, Kept, Leased, SameFrames
<1>7. Evictions'
  BY <1>1, <1>2, ScanningAlone, Zenon DEF Evictions, SameFrames
<1>8. Versions'
  BY <1>2, <1>4 DEF PageInv, ServiceInv, ServiceTypes, BytesInv, Versions
<1>9. Flushing'
  BY <1>2, <1>4, Zenon DEF PageInv, BytesInv, Flushing
<1> QED BY <1>1, <1>5, <1>6, <1>7, <1>8, <1>9, Zenon DEF PageInv, BytesInv

(***************************************************************************)
(* A store through a frame address that is still good.                     *)
(***************************************************************************)
LEMMA GpuStoresStep ==
  ASSUME PageInv, NEW l \in leases, GpuStores(l), ~StoreStale
  PROVE  PageInv'
<1> DEFINE p == l.page
           f == l.frame
<1>1. p \in Pages /\ f \in Frames /\ l.generation \in Nat
  BY Zenon DEF PageInv, ServiceInv, ServiceTypes
<1>2. pageToFrame[p] = f /\ generation[f] = l.generation
  BY Zenon DEF GpuStores, Intact
<1>3. page[f] = p /\ dirty[f] /\ ~evicting[f] /\ p # NoPage
  <2>1. f # NoFrame /\ p # NoPage
    BY <1>1, NoFrameApart, PagesAssumption, Zenon DEF PageInv, CacheInv
  <2>2. page[f] = p /\ ~evicting[f]
    <3>1. \A q \in Pages : pageToFrame[q] # NoFrame =>
            page[pageToFrame[q]] = q /\ ~evicting[pageToFrame[q]]
      BY Zenon DEF PageInv, CacheInv, Maps
    <3> HIDE DEF p, f
    <3> QED BY <1>1, <1>2, <2>1, <3>1, Zenon
  <2>3. dirty[f]
    BY <1>1, <1>2, <2>1, Zenon DEF PageInv, BytesInv, Leased
  <2> QED BY <2>1, <2>2, <2>3, Zenon
<1>4. /\ CacheInv' /\ SameFrames
      /\ UNCHANGED <<dirty, evicting, pageToFrame, evictingPages>>
  BY SameCache, Zenon DEF PageInv, GpuStores
<1>5. /\ UNCHANGED <<file, disk, mutex, worker, flusher, daemon, ranged, owed,
                     promised, requests, flushes>>
      /\ newest' = [newest EXCEPT ![p] = @ + 1]
      /\ bytes' = [bytes EXCEPT ![f] = [page |-> p, version |-> newest[p] + 1]]
      /\ leases' = leases \ {l}
  BY Zenon DEF GpuStores
<1> HIDE DEF p, f
<1>6. /\ newest \in [Pages -> Nat]
      /\ bytes \in [Frames -> [page : Pages \cup {NoPage}, version : Nat]]
  BY Zenon DEF PageInv, ServiceInv, ServiceTypes
<1>7. /\ newest' \in [Pages -> Nat] /\ newest'[p] = newest[p] + 1
      /\ \A q \in Pages : q # p => newest'[q] = newest[q]
  BY <1>1, <1>5, <1>6
<1>8. /\ bytes' \in [Frames -> [page : Pages \cup {NoPage}, version : Nat]]
      /\ bytes'[f] = [page |-> p, version |-> newest[p] + 1]
      /\ \A g \in Frames : g # f => bytes'[g] = bytes[g]
  BY <1>1, <1>5, <1>6
<1>9. \A g \in Frames : page[g] = p => g = f
  BY <1>1, <1>3, OneFrame, Zenon DEF PageInv
<1>10. \A g \in Frames : page[g] # NoPage => page[g] \in Pages
  BY Zenon DEF PageInv, CacheInv, CacheTypes
<1>11. ServiceInv'
  BY <1>4, <1>5, <1>7, <1>8, SameStates, Zenon
     DEF PageInv, ServiceInv, ServiceTypes, Threads, SameFrames
<1>12. FramesHold'
  BY <1>1, <1>3, <1>4, <1>5, <1>7, <1>8, <1>9, <1>10, Zenon
     DEF PageInv, BytesInv, FramesHold, SameFrames
<1>13. Kept'
  BY <1>1, <1>3, <1>4, <1>5, <1>7, Zenon DEF PageInv, BytesInv, Kept, SameFrames
<1>14. Leased'
  BY <1>4, <1>5, Zenon DEF PageInv, BytesInv, Leased, SameFrames
<1>15. Evictions'
  <2>1. \A g \in Frames : evicting[g] => page[g] # p /\ page[g] \in Pages
    BY <1>3, <1>9, <1>10, Zenon DEF PageInv, CacheInv, Maps
  <2> QED BY <1>4, <1>5, <1>7, <2>1
      DEF PageInv, BytesInv, Evictions, HeldByFlusher, SameFrames
<1>16. Versions'
  BY <1>1, <1>5, <1>6, <1>7 DEF PageInv, ServiceInv, ServiceTypes, BytesInv, Versions
<1>17. Flushing'
  BY <1>5, Zenon DEF PageInv, BytesInv, Flushing
<1> QED BY <1>4, <1>11, <1>12, <1>13, <1>14, <1>15, <1>16, <1>17, Zenon
    DEF PageInv, BytesInv

(***************************************************************************)
(* The theorems.                                                           *)
(***************************************************************************)
LEMMA PageInit == Init => PageInv
<1> SUFFICES ASSUME Init
             PROVE  PageInv
  BY Zenon
<1>1. PICK n \in FrameCounts : page = [f \in 0..(n - 1) |-> NoPage]
  BY Zenon DEF Init, CacheInit
<1>2. n \in Nat \ {0} /\ Frames = 0..(n - 1) /\ 0 \in Frames
  BY <1>1, FramesAssumption DEF Frames
<1>3. \A f \in Frames : page[f] = NoPage
  BY <1>1, <1>2, Zenon
<1>4. Numbered
  BY <1>2, Zenon DEF Numbered
<1>5. CacheTypes
  BY <1>1, <1>2, Zenon DEF Init, CacheInit, CacheTypes
<1>6. Maps
  BY <1>3, Zenon DEF Init, CacheInit, Maps
<1>7. ServiceInv
  BY IdleTypes, Zenon
     DEF Init, ServiceInv, ServiceTypes, Threads, IdleWorker, IdleFlusher
<1>8. FramesHold /\ Kept /\ Leased /\ Versions
  BY <1>3 DEF Init, FramesHold, Kept, Leased, Versions
<1>9. Evictions /\ Flushing
  BY Zenon DEF Init, CacheInit, Evictions, Flushing, IdleFlusher
<1> QED BY <1>4, <1>5, <1>6, <1>7, <1>8, <1>9, Zenon DEF PageInv, CacheInv, BytesInv

(* Every step of the page service keeps the invariant, as long as no store *)
(* goes through the address of an earlier frame.                           *)
LEMMA PageStep ==
  ASSUME PageInv, [Next]_vars, ~StoreStale
  PROVE  PageInv'
<1>1. ASSUME NEW p \in Pages, NEW w \in BOOLEAN, HandOff(p, w)
      PROVE  PageInv'
  BY <1>1, HandOffStep, Zenon
<1>2. ASSUME NEW scope \in {Pages} \cup {{p} : p \in Pages}, FlushBegins(scope)
      PROVE  PageInv'
  <2>1. scope \in SUBSET Pages
    BY Zenon
  <2> QED BY <1>2, <2>1, FlushBeginsStep, Zenon
<1>3. CASE WorkerStep
  BY Zenon, <1>3, ResolveHitStep, ResolveQuietStep, ResolveBeginsStep, ResolveEvictsStep,
     ResolveWritebackFailsStep, ResolveFillsStep DEF WorkerStep
<1>4. CASE FlushStep
  BY Zenon, <1>4, FlushSkipsStep, FlushWritesBackStep, FlushWritebackFailsStep,
     FlushModelsStep, FlushProgramFailsStep, FlushCommitsStep, FlushEndsStep
     DEF FlushStep
<1>5. ASSUME NEW l \in leases, GpuStores(l)
      PROVE  PageInv'
  BY <1>5, GpuStoresStep, Zenon
<1>6. CASE UNCHANGED vars
  <2>1. UNCHANGED <<cacheVars, fileVars, serviceVars>>
    BY <1>6, Zenon DEF vars
  <2>2. /\ CacheInv' /\ SameFrames /\ UNCHANGED <<dirty, evicting>>
    BY <2>1, SameCache, Zenon DEF PageInv
  <2>3. UNCHANGED <<bytes, file, disk, newest, mutex, worker, flusher, daemon, ranged,
                    leases, owed, promised, requests, flushes>>
    BY <2>1, Zenon DEF fileVars, serviceVars
  <2>4. ServiceInv'
    BY <2>2, <2>3, SameStates, Zenon
       DEF PageInv, ServiceInv, ServiceTypes, Threads, SameFrames
  <2>5. BytesInv'
    BY <2>2, <2>3, Zenon DEF PageInv, BytesInv, FramesHold, Kept, Leased, Evictions,
       HeldByFlusher, Versions, Flushing, SameFrames
  <2> QED BY <2>2, <2>4, <2>5, Zenon DEF PageInv
<1> QED BY <1>1, <1>2, <1>3, <1>4, <1>5, <1>6, Zenon DEF Next

(* The invariant of the page service holds in every state.                 *)
LEMMA PageAlways ==
  ASSUME ~StoreStale
  PROVE  Spec => []PageInv
<1>1. PageInv /\ [Next]_vars => PageInv'
  BY PageStep, Zenon
<1> QED BY <1>1, PageInit, PTL DEF Spec

(* A resident frame holds its page's newest bytes, however resolves,       *)
(* evictions, reclaims, flushes and failures interleave and for every      *)
(* number of pages and frames.  The GPU stores only through addresses that *)
(* are still good.                                                         *)
THEOREM FramesAreNewest ==
  ASSUME ~StoreStale
  PROVE  Spec => []ResidentBytesAreNewest
<1>1. PageInv => ResidentBytesAreNewest
  <2> SUFFICES ASSUME PageInv, NEW p \in Pages, Resident(p)
               PROVE  bytes[pageToFrame[p]] = [page |-> p, version |-> newest[p]]
    BY Zenon DEF ResidentBytesAreNewest
  <2>1. pageToFrame[p] \in Frames /\ page[pageToFrame[p]] = p /\ p # NoPage
    BY PagesAssumption DEF PageInv, CacheInv, CacheTypes, Maps, Resident
  <2> QED BY <2>1, Zenon DEF PageInv, BytesInv, FramesHold
<1> QED BY <1>1, PageAlways, PTL

(* No store is lost: what the file lacks is in a dirty frame.              *)
THEOREM NoStoreIsLost ==
  ASSUME ~StoreStale
  PROVE  Spec => []NewestBytesKept
<1>1. PageInv => NewestBytesKept
  <2> SUFFICES ASSUME PageInv, NEW p \in Pages, file[p] # newest[p]
               PROVE  \E f \in Frames : /\ page[f] = p /\ dirty[f]
                                        /\ bytes[f] = [page |-> p, version |-> newest[p]]
    BY Zenon DEF NewestBytesKept
  <2>1. PICK f \in Frames : page[f] = p /\ dirty[f]
    BY Zenon DEF PageInv, BytesInv, Kept
  <2>2. p # NoPage
    BY PagesAssumption, Zenon
  <2>3. bytes[f] = [page |-> p, version |-> newest[p]]
    BY <2>1, <2>2, Zenon DEF PageInv, BytesInv, FramesHold
  <2> QED BY <2>1, <2>3, Zenon
<1> QED BY <1>1, PageAlways, PTL

(* A flush that returns Ready has made durable every store done before it  *)
(* began, whoever wrote the page back.                                     *)
THEOREM ReadyIsDurable ==
  ASSUME ~StoreStale
  PROVE  Spec => []FlushIsDurable
<1>1. PageInv => FlushIsDurable
  <2> SUFFICES ASSUME PageInv, flusher.pc = "Ready", NEW p \in flusher.scope
               PROVE  disk[p] >= promised[p]
    BY Zenon DEF FlushIsDurable
  <2>1. p \in Pages
    BY Zenon DEF PageInv, ServiceInv, ServiceTypes, FlusherStates
  <2>2. disk[p] \in Nat /\ promised[p] \in Nat
    BY <2>1, Zenon DEF PageInv, ServiceInv, ServiceTypes
  <2>3. promised[p] <= disk[p]
    BY Zenon DEF PageInv, BytesInv, Flushing
  <2> QED BY <2>2, <2>3, Zenon
<1> QED BY <1>1, PageAlways, PTL

(***************************************************************************)
(* The count of dirty pages.                                               *)
(***************************************************************************)
DirtyFrames == {f \in Frames : dirty[f]}
Counted == dirtyPages = Cardinality(DirtyFrames)

(* There are finitely many dirty frames, so they can be counted.           *)
LEMMA DirtyFinite ==
  ASSUME Numbered
  PROVE  IsFiniteSet(DirtyFrames) /\ Cardinality(DirtyFrames) \in Nat
<1>1. IsFiniteSet(Frames) /\ DirtyFrames \subseteq Frames
  BY FrameNumbers, Zenon DEF DirtyFrames
<1>2. IsFiniteSet(DirtyFrames)
  BY <1>1, FS_Subset, Zenon
<1> QED BY <1>2, FS_CardinalityType, Zenon

(* a frame that becomes dirty is counted once, ... *)
LEMMA CountMore ==
  ASSUME CacheInv, Counted, NEW f \in Frames, NEW w \in BOOLEAN, Frames' = Frames,
         \A g \in Frames : dirty'[g] <=> dirty[g] \/ (g = f /\ w),
         dirtyPages' = IF w /\ ~dirty[f] THEN dirtyPages + 1 ELSE dirtyPages
  PROVE  Counted'
<1>1. CASE w /\ ~dirty[f]
  <2>1. DirtyFrames' = DirtyFrames \cup {f} /\ f \notin DirtyFrames
    BY <1>1, Zenon DEF DirtyFrames
  <2>2. Cardinality(DirtyFrames \cup {f}) = Cardinality(DirtyFrames) + 1
    BY <2>1, DirtyFinite, FS_AddElement, Zenon DEF CacheInv
  <2> QED BY <1>1, <2>1, <2>2, Zenon DEF Counted
<1>2. CASE ~(w /\ ~dirty[f])
  <2>1. DirtyFrames' = DirtyFrames
    BY <1>2, Zenon DEF DirtyFrames
  <2> QED BY <1>2, <2>1, Zenon DEF Counted
<1> QED BY <1>1, <1>2, Zenon

(* ... and one that is emptied is taken off the count *)
LEMMA CountLess ==
  ASSUME CacheInv, Counted, NEW e \in CacheEviction, CompleteEviction(e)
  PROVE  Counted'
<1> DEFINE f == e.frame
<1>1. f \in Frames /\ Frames' = Frames
  BY CompleteStep, Zenon DEF CacheEviction
<1>2. \A g \in Frames : dirty'[g] <=> dirty[g] /\ g # f
  BY CompleteStep, Zenon
<1>3. dirtyPages' = IF dirty[f] THEN dirtyPages - 1 ELSE dirtyPages
  BY Zenon DEF CompleteEviction, DropDirtyCount
<1> HIDE DEF f
<1>4. CASE dirty[f]
  <2>1. DirtyFrames' = DirtyFrames \ {f} /\ f \in DirtyFrames
    BY <1>1, <1>2, <1>4, Zenon DEF DirtyFrames
  <2>2. Cardinality(DirtyFrames \ {f}) = Cardinality(DirtyFrames) - 1
    BY <2>1, DirtyFinite, FS_RemoveElement, Zenon DEF CacheInv
  <2> QED BY <1>3, <1>4, <2>1, <2>2, Zenon DEF Counted
<1>5. CASE ~dirty[f]
  <2>1. DirtyFrames' = DirtyFrames
    BY <1>1, <1>2, <1>5, Zenon DEF DirtyFrames
  <2> QED BY <1>3, <1>5, <2>1, Zenon DEF Counted
<1> QED BY <1>4, <1>5, Zenon

(* A step that leaves the frames and the dirty marks alone leaves their    *)
(* count right.                                                            *)
LEMMA CountSame ==
  ASSUME Counted, UNCHANGED <<page, dirty, dirtyPages>>
  PROVE  Counted'
BY Zenon DEF Counted, DirtyFrames, Frames

(* Every step keeps the counter of dirty pages equal to the number of      *)
(* frames marked dirty: a mark is set, and counted, once, and taken back   *)
(* once.                                                                   *)
LEMMA CountStep ==
  ASSUME PageInv, Counted, [Next]_vars
  PROVE  Counted'
<1>1. CASE UNCHANGED cacheVars
  BY <1>1, CountSame, Zenon DEF cacheVars
<1>2. CASE ResolveHit
  <2> DEFINE p == worker.page
             w == worker.write
  <2>1. CacheInv /\ p \in Pages /\ w \in BOOLEAN
    BY <1>2, Zenon
       DEF PageInv, ServiceInv, ServiceTypes, WorkerStates, Threads, ResolveHit
  <2>2. CASE Resolve(p, w)
    <3>1. /\ SameFrames /\ pageToFrame[p] \in Frames
          /\ \A f \in Frames : dirty'[f] <=> dirty[f] \/ (f = pageToFrame[p] /\ w)
      BY <2>1, <2>2, ResolveStep
    <3>2. dirtyPages' = IF w /\ ~dirty[pageToFrame[p]] THEN dirtyPages + 1 ELSE dirtyPages
      BY <2>2, Zenon DEF Resolve, MarkDirty
    <3> QED BY <2>1, <3>1, <3>2, CountMore, Zenon DEF SameFrames
  <2>3. CASE Reclaim(p, w)
    <3>1. /\ SameFrames /\ evictingPages[p] \in Frames
          /\ \A f \in Frames : dirty'[f] <=> dirty[f] \/ (f = evictingPages[p] /\ w)
      BY <2>1, <2>3, ReclaimStep
    <3>2. dirtyPages' = IF w /\ ~dirty[evictingPages[p]] THEN dirtyPages + 1 ELSE dirtyPages
      BY <2>3, Zenon DEF Reclaim, MarkDirty
    <3> QED BY <2>1, <3>1, <3>2, CountMore, Zenon DEF SameFrames
  <2> QED BY <1>2, <2>2, <2>3, Zenon DEF ResolveHit
<1>3. CASE ResolveBeginsEviction \/ \E p \in Pages : FlushWritesBack(p) \/ FlushWritebackFails(p)
  BY <1>3, CountSame, Zenon
     DEF ResolveBeginsEviction, FlushWritesBack, FlushWritebackFails,
     BeginEviction
<1>4. CASE ResolveEvicts
  BY <1>4, CountLess, Zenon DEF PageInv, ServiceInv, Threads, ResolveEvicts
<1>5. CASE ResolveWritebackFails \/ FlushProgramFails
  BY <1>1, <1>5, CountSame, Zenon
     DEF ResolveWritebackFails, FlushProgramFails, CancelEviction
<1>6. CASE ResolveFills
  <2> DEFINE p == worker.page
             f == worker.frame
             w == worker.write
  <2>1. CacheInv /\ p \in Pages /\ w \in BOOLEAN /\ Publish(p, f, w)
    BY <1>6, Zenon
       DEF PageInv, ServiceInv, ServiceTypes, WorkerStates, Threads, ResolveFills
  <2>2. /\ Frames' = Frames /\ f \in Frames /\ page[f] = NoPage
        /\ \A g \in Frames : dirty'[g] <=> IF g = f THEN w ELSE dirty[g]
    BY <2>1, PublishStep
  <2>3. ~dirty[f]
    BY <2>2, Zenon DEF PageInv, CacheInv, Maps
  <2>4. /\ \A g \in Frames : dirty'[g] <=> dirty[g] \/ (g = f /\ w)
        /\ dirtyPages' = IF w /\ ~dirty[f] THEN dirtyPages + 1 ELSE dirtyPages
    BY <2>1, <2>2, <2>3, Zenon DEF Publish
  <2> QED BY <2>1, <2>2, <2>4, CountMore, Zenon
<1>7. CASE FlushCommits
  <2>1. CASE UNCHANGED cacheVars
    BY <1>1, <2>1, Zenon
  <2>2. CASE CompleteEviction(flusher.ticket)
    BY <1>7, <2>2, CountLess, Zenon DEF PageInv, ServiceInv, Threads, FlushCommits
  <2> QED BY <1>7, <2>1, <2>2, Zenon DEF FlushCommits
<1>8. CASE \/ \E p \in Pages, w \in BOOLEAN : HandOff(p, w)
           \/ \E scope \in {Pages} \cup {{p} : p \in Pages} : FlushBegins(scope)
           \/ ResolveUsesFreeFrame \/ ResolveFindsNoVictim \/ ResolveReadFails
           \/ (\E p \in Pages : FlushSkips(p)) \/ FlushModels \/ FlushEnds
           \/ \E l \in leases : GpuStores(l)
  BY <1>1, <1>8, Zenon
     DEF HandOff, FlushBegins, ResolveUsesFreeFrame, ResolveFindsNoVictim,
     ResolveReadFails, FlushSkips, FlushModels, FlushEnds, GpuStores
<1>9. CASE UNCHANGED vars
  BY <1>1, <1>9, Zenon DEF vars
<1> QED BY <1>2, <1>3, <1>4, <1>5, <1>6, <1>7, <1>8, <1>9, Zenon
     DEF Next, WorkerStep, FlushStep

(* The page maps, the frames and the count of dirty pages always agree,    *)
(* and every variable has its type.                                        *)
THEOREM MapsAlwaysAgree ==
  ASSUME ~StoreStale
  PROVE  Spec => [](TypeOK /\ MapsAgree)
<1>1. Init => Counted
  <2> SUFFICES ASSUME Init
               PROVE  Counted
    BY Zenon
  <2>1. DirtyFrames = {}
    BY Zenon DEF Init, CacheInit, DirtyFrames
  <2> QED BY <2>1, FS_EmptySet, Zenon DEF Init, CacheInit, Counted
<1>2. PageInv /\ Counted /\ [Next]_vars => Counted'
  BY CountStep, Zenon
<1>3. PageInv /\ Counted => TypeOK /\ MapsAgree
  <2> SUFFICES ASSUME PageInv, Counted
               PROVE  TypeOK /\ MapsAgree
    BY Zenon
  <2>1. dirtyPages \in Nat
    BY DirtyFinite, Zenon DEF PageInv, CacheInv, Counted
  <2>2. CacheTypeOK
    BY <2>1, Zenon DEF PageInv, CacheInv, CacheTypes, CacheTypeOK
  <2>3. TypeOK
    BY <2>2, Zenon
       DEF PageInv, ServiceInv, ServiceTypes, WorkerStates, FlusherStates, TypeOK
  <2>4. MapsAgree
    BY Zenon DEF PageInv, CacheInv, Maps, MapsAgree, Counted, DirtyFrames, Resident
  <2> QED BY <2>3, <2>4, Zenon
<1>4. Spec => []Counted
  BY <1>1, <1>2, PageAlways, PTL DEF Spec
<1> QED BY <1>3, <1>4, PageAlways, PTL

(* The victim scan of the clock, run over any set of evictable frames,     *)
(* picks the frame the definition of second chance names and leaves the    *)
(* hand and the reference bits where it says, in every reachable state and *)
(* for every number of frames.                                             *)
THEOREM ScanIsSecondChance ==
  ASSUME ~StoreStale
  PROVE  Spec => []ClockScanAgrees
<1>1. PageInv => ClockScanAgrees
  BY ScanAgrees, Zenon DEF PageInv
<1> QED BY <1>1, PageAlways, PTL
=============================================================================

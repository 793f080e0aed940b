----------------------------- MODULE HbmCache -----------------------------
(***************************************************************************)
(* The page cache of cuda_runtime/hbm_cache.cpp: a fixed set of HBM frames *)
(* replaced by second-chance CLOCK, with evictions in two phases.  Every   *)
(* member function holds the cache's mutex throughout, so each is one      *)
(* step.  begin_eviction hands the caller a CacheEviction ticket, which it *)
(* gives back to cancel_eviction or complete_eviction; in between the page *)
(* may be reclaimed by another caller.                                     *)
(***************************************************************************)
EXTENDS Integers, FiniteSets

CONSTANTS Pages,          \* logical pages
          NoPage,         \* std::nullopt
          FrameCounts,    \* the sizes a cache may be made with
          NoTicket        \* a caller without a CacheEviction

ASSUME PagesAssumption == IsFiniteSet(Pages) /\ NoPage \notin Pages
ASSUME FramesAssumption == FrameCounts \subseteq Nat \ {0}

NoFrame == -1

VARIABLES
  page,           \* Frame::logical_page
  referenced,     \* Frame::referenced
  dirty,          \* Frame::dirty
  evicting,       \* Frame::evicting
  generation,     \* Frame::generation
  hand,           \* clock_hand_
  pageToFrame,    \* page_to_frame_
  evictingPages,  \* evicting_pages_
  dirtyPages      \* dirty_pages_

cacheVars == <<page, referenced, dirty, evicting, generation, hand,
               pageToFrame, evictingPages, dirtyPages>>

Frames == DOMAIN page
FrameCount == Cardinality(Frames)   \* frames_.size(), which never changes

CacheEviction == [page : Pages, frame : Frames, generation : Nat, dirty : BOOLEAN]

CacheTypeOK ==
  /\ page \in [Frames -> Pages \cup {NoPage}]
  /\ referenced \in [Frames -> BOOLEAN]
  /\ dirty \in [Frames -> BOOLEAN]
  /\ evicting \in [Frames -> BOOLEAN]
  /\ generation \in [Frames -> Nat]
  /\ hand \in Frames
  /\ pageToFrame \in [Pages -> Frames \cup {NoFrame}]
  /\ evictingPages \in [Pages -> Frames \cup {NoFrame}]
  /\ dirtyPages \in Nat

CacheInit ==
  /\ \E n \in FrameCounts : page = [f \in 0..(n - 1) |-> NoPage]
  /\ referenced = [f \in Frames |-> FALSE]
  /\ dirty = [f \in Frames |-> FALSE]
  /\ evicting = [f \in Frames |-> FALSE]
  /\ generation = [f \in Frames |-> 1]
  /\ hand = 0
  /\ pageToFrame = [p \in Pages |-> NoFrame]
  /\ evictingPages = [p \in Pages |-> NoFrame]
  /\ dirtyPages = 0

(***************************************************************************)
(* Lookup and marking.  mark_dirty is what follows resolve or publish for  *)
(* a write; MarkDirty says whether it happens.                             *)
(***************************************************************************)
Resident(p) == pageToFrame[p] # NoFrame

MarkDirty(f, isWrite) ==
  /\ dirty' = [dirty EXCEPT ![f] = @ \/ isWrite]
  /\ dirtyPages' = IF isWrite /\ ~dirty[f] THEN dirtyPages + 1 ELSE dirtyPages

(* resolve(p), then mark_dirty(p) if the access writes *)
Resolve(p, isWrite) ==
  /\ Resident(p)
  /\ referenced' = [referenced EXCEPT ![pageToFrame[p]] = TRUE]
  /\ MarkDirty(pageToFrame[p], isWrite)
  /\ UNCHANGED <<page, evicting, generation, hand, pageToFrame, evictingPages>>

(* mutants stand before the definition they change *)
KeepReservation(p) == UNCHANGED evictingPages

DropReservation(p) == evictingPages' = [evictingPages EXCEPT ![p] = NoFrame]

(* reclaim_eviction(p), then mark_dirty(p) if the access writes *)
Reclaim(p, isWrite) ==
  LET f == evictingPages[p] IN
  /\ f # NoFrame /\ ~Resident(p) /\ evicting[f] /\ page[f] = p
  /\ pageToFrame' = [pageToFrame EXCEPT ![p] = f]
  /\ DropReservation(p)
  /\ evicting' = [evicting EXCEPT ![f] = FALSE]
  /\ referenced' = [referenced EXCEPT ![f] = TRUE]
  /\ MarkDirty(f, isWrite)
  /\ UNCHANGED <<page, generation, hand>>

FreeFrames == {f \in Frames : page[f] = NoPage /\ ~evicting[f]}

CanPublish(p, f) ==
  f \in FreeFrames /\ ~Resident(p) /\ evictingPages[p] = NoFrame

(* publish(p, f), then mark_dirty(p) if the access writes *)
Publish(p, f, isWrite) ==
  /\ CanPublish(p, f)
  /\ page' = [page EXCEPT ![f] = p]
  /\ referenced' = [referenced EXCEPT ![f] = TRUE]
  /\ dirty' = [dirty EXCEPT ![f] = isWrite]
  /\ dirtyPages' = IF isWrite THEN dirtyPages + 1 ELSE dirtyPages
  /\ pageToFrame' = [pageToFrame EXCEPT ![p] = f]
  /\ UNCHANGED <<evicting, generation, hand, evictingPages>>

(***************************************************************************)
(* begin_eviction_locked.  The hand makes at most two turns over the       *)
(* frames; it clears the referenced bit of an eligible frame at the first  *)
(* visit and takes an unreferenced one.  Victim and Spared say what the    *)
(* scan does; Scan is the loop itself.                                     *)
(***************************************************************************)
Eligible(range, dirtyOnly) ==
  {f \in Frames : /\ page[f] \in range /\ ~evicting[f]
                  /\ dirtyOnly => dirty[f]}

Advance(f) == (f + 1) % FrameCount
Turn(f) == (f + FrameCount - hand) % FrameCount
FirstInTurn(S) == CHOOSE f \in S : \A g \in S : Turn(f) <= Turn(g)

Victim(E) ==
  LET unreferenced == {f \in E : ~referenced[f]} IN
  IF unreferenced # {} THEN FirstInTurn(unreferenced) ELSE FirstInTurn(E)

Spared(E) ==
  IF \A f \in E : referenced[f] THEN E
  ELSE {f \in E : Turn(f) < Turn(Victim(E))}

ScanVisits(E, visits) ==
  LET step[n \in 0..visits] ==
        IF n = 0
        THEN [hand |-> hand, referenced |-> referenced, victim |-> NoFrame]
        ELSE LET s == step[n - 1]
                 f == s.hand
                 moved == [s EXCEPT !.hand = Advance(f)]
             IN IF s.victim # NoFrame THEN s
                ELSE IF f \notin E THEN moved
                ELSE IF s.referenced[f]
                     THEN [moved EXCEPT !.referenced[f] = FALSE]
                ELSE [moved EXCEPT !.victim = f]
  IN step[visits]

ScanOneTurn(E) == ScanVisits(E, FrameCount)

Scan(E) == ScanVisits(E, 2 * FrameCount)

TicketFor(f) ==
  [page |-> page[f], frame |-> f, generation |-> generation[f],
   dirty |-> dirty[f]]

(* begin_eviction, begin_eviction_in_range: the frame v becomes a victim *)
BeginEviction(range, dirtyOnly) ==
  LET E == Eligible(range, dirtyOnly)
      v == Victim(E)
  IN
  /\ E # {}
  /\ referenced' = [f \in Frames |-> referenced[f] /\ f \notin Spared(E)
                                     /\ f # v]
  /\ hand' = Advance(v)
  /\ evictingPages' = [evictingPages EXCEPT ![page[v]] = v]
  /\ pageToFrame' = [pageToFrame EXCEPT ![page[v]] = NoFrame]
  /\ evicting' = [evicting EXCEPT ![v] = TRUE]
  /\ UNCHANGED <<page, dirty, generation, dirtyPages>>

(* the checks of cancel_eviction and complete_eviction; cancel_eviction    *)
(* also wants the page not resident, which follows                         *)
Accepts(e) ==
  /\ evicting[e.frame] /\ generation[e.frame] = e.generation
  /\ page[e.frame] = e.page /\ dirty[e.frame] = e.dirty
  /\ evictingPages[e.page] = e.frame

CancelEviction(e) ==
  /\ Accepts(e) /\ ~Resident(e.page)
  /\ pageToFrame' = [pageToFrame EXCEPT ![e.page] = e.frame]
  /\ DropReservation(e.page)
  /\ evicting' = [evicting EXCEPT ![e.frame] = FALSE]
  /\ referenced' = [referenced EXCEPT ![e.frame] = TRUE]
  /\ UNCHANGED <<page, dirty, generation, hand, dirtyPages>>

DropAnyCount(f) == dirtyPages' = dirtyPages - 1

DropDirtyCount(f) ==
  dirtyPages' = IF dirty[f] THEN dirtyPages - 1 ELSE dirtyPages

CompleteEviction(e) ==
  /\ Accepts(e)
  /\ DropReservation(e.page)
  /\ DropDirtyCount(e.frame)
  /\ page' = [page EXCEPT ![e.frame] = NoPage]
  /\ referenced' = [referenced EXCEPT ![e.frame] = FALSE]
  /\ dirty' = [dirty EXCEPT ![e.frame] = FALSE]
  /\ evicting' = [evicting EXCEPT ![e.frame] = FALSE]
  /\ generation' = [generation EXCEPT ![e.frame] = @ + 1]
  /\ UNCHANGED <<hand, pageToFrame>>

(***************************************************************************)
(* Properties                                                              *)
(***************************************************************************)
(* The two page maps, the frames and dirty_pages_ agree: a page is in one  *)
(* frame, resident or evicting, only frames with a page are dirty or       *)
(* evicting, and the dirty ones are counted (publish, reclaim_eviction,    *)
(* begin_eviction_locked, cancel_eviction, complete_eviction).             *)
MapsAgree ==
  /\ \A p \in Pages : Resident(p) =>
       page[pageToFrame[p]] = p /\ ~evicting[pageToFrame[p]]
  /\ \A p \in Pages : evictingPages[p] # NoFrame =>
       page[evictingPages[p]] = p /\ evicting[evictingPages[p]]
  /\ \A f \in Frames : page[f] # NoPage =>
       IF evicting[f] THEN evictingPages[page[f]] = f
       ELSE pageToFrame[page[f]] = f
  /\ \A f \in Frames : dirty[f] \/ evicting[f] => page[f] # NoPage
  /\ dirtyPages = Cardinality({f \in Frames : dirty[f]})

(* The bounded scan of begin_eviction_locked finds a victim whenever there *)
(* is an eligible frame, takes a referenced one only if all eligible ones  *)
(* are referenced, and leaves hand and referenced bits as the two-turn     *)
(* loop does.                                                              *)
ClockScanAgrees ==
  \A range \in {Pages} \cup {{p} : p \in Pages}, dirtyOnly \in BOOLEAN :
    LET E == Eligible(range, dirtyOnly)
        s == Scan(E)
    IN IF E = {} THEN s = [hand |-> hand, referenced |-> referenced,
                           victim |-> NoFrame]
       ELSE s = [hand |-> Advance(Victim(E)),
                 referenced |-> [f \in Frames |->
                    referenced[f] /\ f \notin Spared(E) /\ f # Victim(E)],
                 victim |-> Victim(E)]
=============================================================================

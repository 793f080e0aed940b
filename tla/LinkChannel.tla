---------------------------- MODULE LinkChannel ----------------------------
(***************************************************************************)
(* What a UCIe link promises to the frontend that owns it, without flits,  *)
(* granules, credits or times: in each direction a line in which messages  *)
(* never overtake one another, each one delivered once, and at most        *)
(* Window[d] messages delivered that the receiver has not let go of.       *)
(***************************************************************************)
EXTENDS Naturals, FiniteSets, SequencesExt

CONSTANTS Ids,        \* message identifiers
          Window      \* messages of a direction the receiver has room for

Dirs == {"Request", "Return"}

VARIABLES coming,     \* enqueued for a time that has not come
          line,       \* arrived at the sender, in order, not yet delivered
          delivered,  \* delivered, not yet consumed
          leaving     \* consumed; the identifier is not free yet
chanVars == <<coming, line, delivered, leaving>>

Known(d) == coming[d] \cup ToSet(line[d]) \cup delivered[d] \cup leaving[d]

ChanInit ==
  /\ coming = [d \in Dirs |-> {}]
  /\ line = [d \in Dirs |-> <<>>]
  /\ delivered = [d \in Dirs |-> {}]
  /\ leaving = [d \in Dirs |-> {}]

ChanEnqueue(d, id) ==
  /\ id \notin Known(d)
  /\ coming' = [coming EXCEPT ![d] = @ \cup {id}]
  /\ UNCHANGED <<line, delivered, leaving>>

ChanConsume(d, id) ==
  /\ id \in delivered[d]
  /\ delivered' = [delivered EXCEPT ![d] = @ \ {id}]
  /\ leaving' = [leaving EXCEPT ![d] = @ \cup {id}]
  /\ UNCHANGED <<coming, line>>

(* One step of the link's clock, in one direction: a prefix of the line is *)
(* delivered, messages whose time has come join its end, identifiers of    *)
(* consumed messages become free.                                          *)
Moves(d) ==
  \E n \in 0..Len(line[d]), now \in SUBSET coming[d], gone \in SUBSET leaving[d] :
    /\ \E joined \in SetToSeqs(now) :
         line'[d] = SubSeq(line[d], n + 1, Len(line[d])) \o joined
    /\ delivered'[d] = delivered[d] \cup ToSet(SubSeq(line[d], 1, n))
    /\ coming'[d] = coming[d] \ now
    /\ leaving'[d] = leaving[d] \ gone
    /\ Cardinality(delivered'[d]) <= Window[d]

ChanMove == \A d \in Dirs : Moves(d)

ChanNext ==
  \/ \E d \in Dirs, id \in Ids : ChanEnqueue(d, id) \/ ChanConsume(d, id)
  \/ ChanMove

ChanSpec == ChanInit /\ [][ChanNext]_chanVars
=============================================================================

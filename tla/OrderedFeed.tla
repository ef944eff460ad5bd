---------------------------- MODULE OrderedFeed ----------------------------
(***************************************************************************)
(* What raw-events promises the services behind it: a lossy but ordered feed *)
(* of each entity.  Events may be missing; one that was acknowledged is in    *)
(* the feed, perhaps repeated, behind every earlier one; one whose producer   *)
(* gave up may still turn up, once and at any later time.                     *)
(***************************************************************************)
EXTENDS Naturals, Sequences

CONSTANTS Entity, Event

VARIABLES
  feed,     \* the records, in log order
  newest,   \* per entity, the last event its producer is done with: at most one
  doubtful  \* events the producer gave up that have not turned up

feedVars == <<feed, newest, doubtful>>

\* the generator numbers the events of an entity, from 1 in each of its lives
Later(x, y) == x.life > y.life \/ (x.life = y.life /\ x.seq > y.seq)

Follows(x) == \A y \in newest[x.entity] : Later(x, y)
Done(x)    == newest' = [newest EXCEPT ![x.entity] = {x}]

FeedInit == feed = <<>> /\ newest = [e \in Entity |-> {}] /\ doubtful = {}

Accept(x) ==
  /\ Follows(x) /\ Done(x)
  /\ \E records \in {<<x>>, <<x, x>>} : feed' = feed \o records
  /\ UNCHANGED doubtful

GiveUp(x) ==
  /\ Follows(x) /\ Done(x)
  /\ doubtful' = doubtful \cup {x}
  /\ UNCHANGED feed

TurnUp(x) ==
  /\ x \in doubtful
  /\ feed' = Append(feed, x) /\ doubtful' = doubtful \ {x}
  /\ UNCHANGED newest

FeedNext == \E x \in Event : Accept(x) \/ GiveUp(x) \/ TurnUp(x)

FeedSpec == FeedInit /\ [][FeedNext]_feedVars
=============================================================================

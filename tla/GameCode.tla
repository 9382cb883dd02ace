------------------------------ MODULE GameCode ------------------------------
(***************************************************************************)
(* The code of the games in a node's memory (game_code.js): it is loaded   *)
(* when a player joins a game that is not in memory, with a second try,    *)
(* and loaded again by a refresh that runs every five seconds and looks    *)
(* for games which are older than thirty.  Loads of a game may overlap:    *)
(* joins do not wait for one another, and a refresh does not wait for the  *)
(* one before.                                                             *)
(*                                                                         *)
(* Versions are numbered as they are published; 0 stands for no code.      *)
(***************************************************************************)
EXTENDS Naturals, Sequences

CONSTANTS
  Games,       \* the games
  Joiners,     \* the joins that may wait for code at the same time
  Refreshers,  \* bound: the rounds of the refresh that may run at the same time
  MaxVersion   \* bound: the versions that are published

\* What the constants must be: a load belongs to a join or to a round of the refresh.
GameCodeAssumption ==
  /\ MaxVersion \in Nat \ {0}
  /\ Joiners \cap Refreshers = {}

Loaders  == Joiners \cup Refreshers
Versions == 1..MaxVersion

VARIABLES
  published,   \* of a game: its latest version, wherever code is loaded from
  code,        \* _games: the version in memory
  order,       \* _games: the order in which the games came into the map
  old,         \* the games whose code was loaded more than 30 s ago
  load,        \* of a loader: its _loadGame under way, or << >>
  crossed      \* history: the games two of whose loads were under way at once

codeVars == <<published, code, order, old, load, crossed>>

\* A load: its game, whether it is the first or the second try, and the version that
\* was the latest when it asked.
Load == [game : Games, try : {1, 2}, since : Versions]

Loaded(g)  == code[g] # 0
Loading(g) == {l \in Loaders : load[l] # << >> /\ load[l].game = g}

Init ==
  /\ published = [g \in Games |-> 1]
  /\ code = [g \in Games |-> 0]
  /\ order = << >> /\ old = {}
  /\ load = [l \in Loaders |-> << >>]
  /\ crossed = {}

-----------------------------------------------------------------------------
(* One load.                                                               *)

NewLoad(g, try) == [game |-> g, try |-> try, since |-> published[g]]

\* A load begins; history notes when it is not the only one of its game.
Begins(l, g, try) ==
  /\ load' = [load EXCEPT ![l] = NewLoad(g, try)]
  /\ crossed' = crossed \cup (IF Loading(g) \subseteq {l} THEN {} ELSE {g})

Stops(l) == load' = [load EXCEPT ![l] = << >>] /\ UNCHANGED crossed

\* Delivered when any version would do.
AnyVersion(l) == 1..published[load[l].game]

\* What comes was the latest version at some time since it was asked for.
Delivered(l) == load[l].since..published[load[l].game]

\* The code of the game is replaced, and is as good as new.
Store(g, v) ==
  /\ code' = [code EXCEPT ![g] = v]
  /\ order' = IF Loaded(g) THEN order ELSE Append(order, g)
  /\ old' = old \ {g}

-----------------------------------------------------------------------------
(* Joins: getGame of a game that is not in memory.                         *)

GetGame(l, g) ==
  /\ load[l] = << >> /\ ~Loaded(g)
  /\ Begins(l, g, 1)
  /\ UNCHANGED <<published, code, order, old>>

JoinGets(l, v) ==
  /\ load[l] # << >> /\ v \in Delivered(l)
  /\ Store(load[l].game, v)
  /\ Stops(l)
  /\ UNCHANGED published

\* The load fails, or brings no valid config or no default room: once more ...
TriesAgain(l) ==
  /\ load[l] # << >> /\ load[l].try = 1
  /\ Begins(l, load[l].game, 2)
  /\ UNCHANGED <<published, code, order, old>>

\* ... but not twice, even if another load was better off by now.
GivesUp(l) ==
  /\ load[l] # << >> /\ load[l].try = 2
  /\ Stops(l)
  /\ UNCHANGED <<published, code, order, old>>

-----------------------------------------------------------------------------
(* The refresh.                                                            *)

\* Due with the comparison the wrong way round.
DueWhenNew(g, aged) == g \notin aged

\* Is the code of g to be loaded again, when the games aged are older than 30 s?
Due(g, aged) == g \in aged

Position(g) == CHOOSE i \in DOMAIN order : order[i] = g

\* The round goes on behind position i of the map, to the next game that is due.
GoesOn(r, i, aged) ==
  \/ \E j \in DOMAIN order :
       /\ j > i /\ Due(order[j], aged)
       /\ \A k \in DOMAIN order : i < k /\ k < j => ~Due(order[k], aged)
       /\ Begins(r, order[j], 1)
  \/ /\ \A j \in DOMAIN order : j > i => ~Due(order[j], aged)
     /\ Stops(r)

RefreshStarts(r) ==
  /\ load[r] = << >> /\ \E g \in Games : Loaded(g) /\ Due(g, old)
  /\ GoesOn(r, 0, old)
  /\ UNCHANGED <<published, code, order, old>>

RefreshGets(r, v) ==
  /\ load[r] # << >> /\ v \in Delivered(r)
  /\ Store(load[r].game, v)
  /\ GoesOn(r, Position(load[r].game), old')
  /\ UNCHANGED published

RefreshFails(r) ==
  /\ load[r] # << >> /\ load[r].try = 2
  /\ GoesOn(r, Position(load[r].game), old)
  /\ UNCHANGED <<published, code, order, old>>

-----------------------------------------------------------------------------
(* The world around.                                                       *)

Publish(g) ==
  /\ published[g] < MaxVersion
  /\ published' = [published EXCEPT ![g] = @ + 1]
  /\ UNCHANGED <<code, order, old, load, crossed>>

Ages(g) ==
  /\ Loaded(g) /\ g \notin old
  /\ old' = old \cup {g}
  /\ UNCHANGED <<published, code, order, load, crossed>>

-----------------------------------------------------------------------------
JoinSteps ==
  \E l \in Joiners :
    \/ \E g \in Games : GetGame(l, g)
    \/ \E v \in Versions : JoinGets(l, v)
    \/ TriesAgain(l) \/ GivesUp(l)

OtherSteps ==
  \/ \E r \in Refreshers :
       \/ RefreshStarts(r) \/ TriesAgain(r) \/ RefreshFails(r)
       \/ \E v \in Versions : RefreshGets(r, v)
  \/ \E g \in Games : Publish(g) \/ Ages(g)

Next == JoinSteps \/ OtherSteps

Spec == Init /\ [][Next]_codeVars

\* The timers go on, a load ends some way, and the load that is tried again and again
\* is not refused for ever.
RefreshFairness ==
  /\ \A g \in Games : WF_codeVars(Ages(g))
  /\ \A r \in Refreshers :
       /\ WF_codeVars(RefreshStarts(r))
       /\ WF_codeVars(TriesAgain(r) \/ RefreshFails(r) \/ \E v \in Versions : RefreshGets(r, v))
       /\ SF_codeVars(\E v \in Versions : RefreshGets(r, v))

-----------------------------------------------------------------------------
(* Properties.                                                             *)

\* Every variable keeps its type; the map's order lists each loaded game once.
TypeOK ==
  /\ published \in [Games -> Versions]
  /\ code \in [Games -> {0} \cup Versions]
  /\ order \in Seq(Games)
  /\ \A g \in Games : Loaded(g) <=> \E i \in DOMAIN order : order[i] = g
  /\ \A i, j \in DOMAIN order : order[i] = order[j] => i = j
  /\ old \subseteq {g \in Games : Loaded(g)}
  /\ \A l \in Loaders : load[l] # << >> => load[l] \in Load
  /\ DOMAIN load = Loaders
  /\ crossed \subseteq Games

\* The code in memory is never replaced by an older version, nor dropped, unless loads
\* of the game have overlapped: then the answers may come in the other order.
VersionsGrow == [][\A g \in Games : code'[g] < code[g] => g \in crossed]_code

\* A game in memory gets the last version that is published, in the end: an older one
\* that comes late is replaced again.
GetsLatest ==
  \A g \in Games : Loaded(g) /\ published[g] = MaxVersion ~> code[g] = MaxVersion
=============================================================================

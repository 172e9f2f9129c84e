------------------------------ MODULE ItemLoops -------------------------------
(***************************************************************************)
(* A tick of an item manager one iteration at a time: the loops of           *)
(* UpdatePlayerBoosts, Update and CheckPickup.  Items gives the tick as a     *)
(* whole; here it is shown that the iterations add up to it.                 *)
(***************************************************************************)
EXTENDS Items

VARIABLES
    at,      \* the loop the tick is in, "none" between two ticks
    args,    \* what the tick is called with: the list of players, its order, where
             \* they are and in which state; nobody changes them under Room.mu
    ahead,   \* what that loop still has to visit: players, timers or items
    item,    \* the item CheckPickup looks at
    line,    \* the players it has still to try for it
    picked,  \* the items it has found a taker for
    before   \* the manager and the effects when the tick began

tickVars == <<at, args, ahead, item, line, picked, before>>
itemLoopsVars == <<itemsVars, tickVars>>

State == [active |-> active, queue |-> queue, effect |-> effect]

ItemLoopsInit ==
    /\ Init
    /\ at = "none" /\ args = <<>> /\ ahead = {} /\ item \in Item /\ line = {} /\ picked = {}
    /\ before = State

\* A new game or a return to the lobby, under the lock as well.
BetweenTicks ==
    /\ at = "none"
    /\ NewGame \/ \E players \in SUBSET Runners : Reset(players)
    /\ UNCHANGED tickVars

BeginTick ==
    /\ at = "none"
    /\ \E players \in SUBSET Runners :
         \E pos \in [players -> Spots], cond \in [players -> {"free", "arrested"}],
            turn \in Turns(players) :
              args' = [players |-> players, pos |-> pos, cond |-> cond, turn |-> turn]
    /\ at' = "effects" /\ ahead' = args'.players
    /\ before' = State
    /\ UNCHANGED <<itemsVars, item, line, picked>>

\* UpdatePlayerBoosts, for one player.
CountEffect ==
    /\ at = "effects"
    /\ \E p \in ahead :
         /\ effect' = [effect EXCEPT ![p] = IF effect[p] > 0 THEN effect[p] - 1 ELSE 0]
         /\ ahead' = ahead \ {p}
    /\ UNCHANGED <<active, queue, at, args, item, line, picked, before>>

EffectsDone ==
    /\ at = "effects" /\ ahead = {}
    /\ at' = "queue" /\ ahead' = DOMAIN queue
    /\ UNCHANGED <<itemsVars, args, item, line, picked, before>>

\* Update, for one timer: the item comes back when it runs out.
CountTimer ==
    /\ at = "queue"
    /\ \E i \in ahead :
         /\ IF queue[i] <= 1
            THEN /\ \E x \in Spots :
                      active' = [j \in DOMAIN active \cup {i} |-> IF j = i THEN x ELSE active[j]]
                 /\ queue' = [j \in DOMAIN queue \ {i} |-> queue[j]]
            ELSE queue' = [queue EXCEPT ![i] = @ - 1] /\ UNCHANGED active
         /\ ahead' = ahead \ {i}
    /\ UNCHANGED <<effect, at, args, item, line, picked, before>>

QueueDone ==
    /\ at = "queue" /\ ahead = {}
    /\ at' = "pickup" /\ ahead' = DOMAIN active
    /\ UNCHANGED <<itemsVars, args, item, line, picked, before>>

NextItem ==
    /\ at = "pickup" /\ line = {}
    /\ item' \in ahead /\ ahead' = ahead \ {item'}
    /\ line' = args.players
    /\ UNCHANGED <<itemsVars, at, args, picked, before>>

CanTake(p, i) == p \in Takers({p}, args.pos, args.cond, active[i])

\* (Mutant of Try: the loop over the players goes on after a pickup.)
TryAll ==
    /\ at = "pickup"
    /\ \E p \in line :
         /\ \A q \in line : args.turn[p] <= args.turn[q]
         /\ IF CanTake(p, item)
            THEN effect' = [effect EXCEPT ![p] = EffectTicks] /\ picked' = picked \cup {item}
            ELSE UNCHANGED <<effect, picked>>
         /\ line' = line \ {p}
    /\ UNCHANGED <<active, queue, at, args, ahead, item, before>>

\* CheckPickup, for one item and the next player of the list: it takes the item, and
\* nobody else is tried, or the one after it is.
Try ==
    /\ at = "pickup"
    /\ \E p \in line :
         /\ \A q \in line : args.turn[p] <= args.turn[q]
         /\ IF CanTake(p, item)
            THEN /\ effect' = [effect EXCEPT ![p] = EffectTicks]
                 /\ picked' = picked \cup {item}
                 /\ line' = {}
            ELSE line' = line \ {p} /\ UNCHANGED <<effect, picked>>
    /\ UNCHANGED <<active, queue, at, args, ahead, item, before>>

\* The items nobody took are kept; the others are queued.
PickupDone ==
    /\ at = "pickup" /\ line = {} /\ ahead = {}
    /\ active' = [i \in DOMAIN active \ picked |-> active[i]]
    /\ queue' = [i \in DOMAIN queue \cup picked |->
                    IF i \in picked THEN RespawnTicks ELSE queue[i]]
    /\ at' = "none" /\ args' = <<>> /\ picked' = {}
    /\ UNCHANGED <<effect, ahead, item, line, before>>

ItemLoopsNext ==
    \/ BetweenTicks \/ BeginTick
    \/ CountEffect \/ EffectsDone \/ CountTimer \/ QueueDone
    \/ NextItem \/ Try \/ PickupDone

ItemLoopsSpec == ItemLoopsInit /\ [][ItemLoopsNext]_itemLoopsVars

\* The manager as it is between two ticks.
Tickwise == INSTANCE Items WITH
    active <- IF at = "none" THEN active ELSE before.active,
    queue <- IF at = "none" THEN queue ELSE before.queue,
    effect <- IF at = "none" THEN effect ELSE before.effect

\* Whatever the order of timers and items, the iterations of a tick have the effect
\* Items gives for all at once: a respawned item may be taken in the same tick, the
\* first player of the list in range takes it, one player may take several, and
\* who takes one keeps the whole effect.
ImplementsItems == Tickwise!ItemsSpec
===============================================================================

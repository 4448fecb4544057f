---------------------------- MODULE PriceEvents ----------------------------
(***************************************************************************)
(* Pricing::price_events: roll the events up, price them one by one into   *)
(* groups under rollup_key, then decide the pricing of each row from the   *)
(* group of its key.  The rollup by blocks is BlockRollup's loop; the      *)
(* keyed ones are one step, their rows in a fixed order of their keys.     *)
(*                                                                         *)
(* price_rollups prices the same rows from their sums instead.             *)
(*                                                                         *)
(* The tokens billed are cache writes, at one unit each and two for an hour *)
(* of life; past a threshold a tiered price doubles the whole request.  A  *)
(* recorded cost is a number of the same unit.  The events are priced in   *)
(* any order, which stands for every order of the input.                   *)
(***************************************************************************)
EXTENDS BlockRollup, FiniteSets, FiniteSetsExt, SequencesExt

CONSTANTS
    Models,         \* the models of the events
    Priced,         \* those that a catalog prices
    Tiered,         \* those whose price has tiers
    Threshold,      \* where the upper tier begins
    Recorded,       \* costs an event may carry, Null among them
    Dimensions,     \* the rollup dimensions asked for
    Day             \* a day, in the unit of Hour

ASSUME PriceAssumption ==
    /\ Tiered \subseteq Priced /\ Priced \subseteq Models
    /\ Recorded \subseteq Nat \cup {Null}
    /\ Dimensions \subseteq {"model", "day", "block"}
    /\ IsFiniteSet(Events) /\ \A c \in Counts : c.calls \in Nat
    /\ Day \in Nat \ {0}
    /\ Threshold \in Nat

VARIABLES
    by, mode,       \* the request
    model,          \* the events' models
    recorded,       \* the events' recorded costs
    unpriced,       \* events the pricing loop has not reached
    groups,         \* the groups it built, by key
    decisions,      \* the pricing of each row, once decided
    rollupPrices    \* the pricing of each row by price_rollups, once asked

request == <<by, mode, model, recorded>>
allVars == <<vars, request, unpriced, groups, decisions, rollupPrices>>

Modes == {"calculate", "display", "auto"}

Group == [usd : Nat, allPriced : BOOLEAN, models : SUBSET Models,
          multiCall : BOOLEAN]

Decision == [kind : {"SingleHit", "MultiHit", "SingleMiss", "MultiMiss", "Empty"},
             usd : Nat \cup {Null}, tieredAggregate : BOOLEAN]

NoGroups == [key \in {} |-> Null]

PriceInit ==
    /\ Init
    /\ by \in Dimensions
    /\ mode \in Modes
    /\ model \in [Events -> Models]
    /\ recorded \in [Events -> Recorded]
    /\ unpriced = Events
    /\ groups = NoGroups
    /\ decisions = <<>>
    /\ rollupPrices = <<>>

-----------------------------------------------------------------------------
Key(kind, of) == [kind |-> kind, of |-> of]
InvalidDate == Key("invalid-date", Null)

DayKey(ms) ==
    IF ms = Unparsed THEN InvalidDate ELSE Key("day", (ms + zone[ms]) \div Day)

\* A block's key is its window, which no single event tells: rollup_key gives
\* the day instead.
RollupKey(e) == IF by = "model" THEN Key("model", model[e]) ELSE DayKey(at[e])

KeyOfRow(row) ==
    IF by # "block" THEN row.key
    ELSE IF row.key = Unparsed THEN InvalidDate ELSE Key("block", row.key)

-----------------------------------------------------------------------------
RollupBlocks ==
    /\ by = "block"
    /\ Next
    /\ UNCHANGED <<request, unpriced, groups, decisions, rollupPrices>>

RowOf(key) ==
    LET members == {e \in Events : RollupKey(e) = key}
    IN  FoldSet(LAMBDA e, row : Added(row, e), EmptyRow(key), members)

RollupKeyed ==
    /\ by # "block"
    /\ pending # {}
    /\ LET keys == SetToSeq({RollupKey(e) : e \in Events})
       IN  rows' = [i \in DOMAIN keys |-> RowOf(keys[i])]
    /\ pending' = {}
    /\ UNCHANGED <<input, end, request, unpriced, groups, decisions, rollupPrices>>

-----------------------------------------------------------------------------
\* cost_usd of a token record: the whole request is billed at its tier.
Cost(m, counts) ==
    LET billed == counts.write + Least(Reported(counts.write1h), counts.write)
    IN  IF m \in Tiered /\ counts.write > Threshold THEN 2 * billed ELSE billed

IsPriced(e) == model[e] \in Priced

\* What one event adds to its group.
Charge(e) ==
    LET carried == IF recorded[e] = Null THEN 0 ELSE recorded[e]
        calculated == IF IsPriced(e) THEN Cost(model[e], tokens[e]) ELSE 0
    IN  CASE mode = "display"   -> carried
          [] mode = "calculate" -> calculated
          [] mode = "auto"      -> IF recorded[e] # Null THEN carried ELSE calculated

NewGroup == [usd |-> 0, allPriced |-> TRUE, models |-> {}, multiCall |-> FALSE]

\* Mutation: the last event decides whether the group is priced.
WithEventLastPriced(group, e) ==
    [usd |-> group.usd + Charge(e),
     allPriced |-> IsPriced(e),
     models |-> group.models \cup {model[e]},
     multiCall |-> group.multiCall \/ tokens[e].calls > 1]

\* Mutation: the last event decides whether the group holds several calls.
WithEventLastCalls(group, e) ==
    [usd |-> group.usd + Charge(e),
     allPriced |-> group.allPriced /\ IsPriced(e),
     models |-> group.models \cup {model[e]},
     multiCall |-> tokens[e].calls > 1]

WithEvent(group, e) ==
    [usd |-> group.usd + Charge(e),
     allPriced |-> group.allPriced /\ IsPriced(e),
     models |-> group.models \cup {model[e]},
     multiCall |-> group.multiCall \/ tokens[e].calls > 1]

PriceEvent(e) ==
    /\ pending = {}
    /\ e \in unpriced
    /\ LET key == RollupKey(e)
           group == IF key \in DOMAIN groups THEN groups[key] ELSE NewGroup
       IN  groups' = [k \in DOMAIN groups \cup {key} |->
                        IF k = key THEN WithEvent(group, e) ELSE groups[k]]
    /\ unpriced' = unpriced \ {e}
    /\ UNCHANGED <<vars, request, decisions, rollupPrices>>

\* The pricing of a row whose events make up this group.
DecisionOf(group) ==
    LET single == Cardinality(group.models) = 1
    IN  IF group.allPriced
        THEN [kind |-> IF single THEN "SingleHit" ELSE "MultiHit",
              usd |-> group.usd,
              tieredAggregate |-> /\ group.multiCall /\ single /\ mode # "display"
                                  /\ group.models \subseteq Tiered]
        ELSE [kind |-> IF single THEN "SingleMiss" ELSE "MultiMiss",
              usd |-> IF mode = "calculate" THEN Null ELSE group.usd,
              tieredAggregate |-> FALSE]

Empty == [kind |-> "Empty", usd |-> Null, tieredAggregate |-> FALSE]

Decide ==
    /\ pending = {} /\ unpriced = {}
    /\ Len(decisions) < Len(rows)
    /\ decisions' = [i \in DOMAIN rows |->
                       IF KeyOfRow(rows[i]) \in DOMAIN groups
                       THEN DecisionOf(groups[KeyOfRow(rows[i])])
                       ELSE Empty]
    /\ UNCHANGED <<vars, request, unpriced, groups, rollupPrices>>

-----------------------------------------------------------------------------
\* The recorded cost of a row: that of the events that carry one.
RecordedOf(row) ==
    LET carrying == {e \in row.events : recorded[e] # Null}
    IN  IF carrying = {} THEN Null
        ELSE SumFunctionOnSet(recorded, carrying)

CallsOf(row) == SumFunctionOnSet([e \in Events |-> tokens[e].calls], row.events)

RollupPrice(row) ==
    LET carried == RecordedOf(row)
        calculated == Cost(row.key.of, row)
    IN  IF row.key.of \in Priced
        THEN [kind |-> "Hit",
              usd |-> CASE mode = "display"   -> Reported(carried)
                        [] mode = "calculate" -> calculated
                        [] mode = "auto"      -> IF carried # Null THEN carried
                                                 ELSE calculated,
              tieredAggregate |->
                /\ row.key.of \in Tiered
                /\ Cardinality(row.events) > 1 \/ CallsOf(row) > 1
                /\ mode = "calculate" \/ (mode = "auto" /\ carried = Null)]
        ELSE [kind |-> "Miss",
              usd |-> CASE mode = "display"   -> Reported(carried)
                        [] mode = "calculate" -> Null
                        [] mode = "auto"      -> carried,
              tieredAggregate |-> FALSE]

PriceRollups ==
    /\ by = "model" /\ pending = {}
    /\ rollupPrices = <<>>
    /\ rollupPrices' = [i \in DOMAIN rows |-> RollupPrice(rows[i])]
    /\ UNCHANGED <<vars, request, unpriced, groups, decisions>>

PriceNext ==
    \/ RollupBlocks \/ RollupKeyed
    \/ \E e \in Events : PriceEvent(e)
    \/ Decide
    \/ PriceRollups

PriceSpec == PriceInit /\ [][PriceNext]_allVars

-----------------------------------------------------------------------------
(***************************************************************************)
(* Properties.                                                             *)
(***************************************************************************)

\* What each row is worth, from the events it counts and nothing else.
Charges == [e \in Events |-> Charge(e)]
ChargesOf(row) == SumFunctionOnSet(Charges, row.events)

\* A row is priced by the events it counts: its usd is what those events cost,
\* it is a hit exactly when all of them are priced, it names one model exactly
\* when they share one, in every mode and every order of the input.  Only a
\* block's row may have no pricing at all.
RowPricedByItsEvents ==
    \A i \in DOMAIN decisions :
        LET members == rows[i].events
            hit == \A e \in members : IsPriced(e)
            single == \A e, f \in members : model[e] = model[f]
        IN  \/ by = "block" /\ decisions[i] = Empty
            \/ /\ decisions[i].kind =
                    IF hit THEN IF single THEN "SingleHit" ELSE "MultiHit"
                           ELSE IF single THEN "SingleMiss" ELSE "MultiMiss"
               /\ decisions[i].usd =
                    IF hit \/ mode # "calculate" THEN ChargesOf(rows[i]) ELSE Null

\* An aggregate of several calls at a tiered price is flagged, for whichever
\* tier applied to each call is lost; in display mode, where nothing is
\* calculated, it is not.
TierExposureFlagged ==
    \A i \in DOMAIN decisions :
        decisions[i].tieredAggregate <=>
            /\ decisions[i].kind = "SingleHit" /\ mode # "display"
            /\ \E e \in rows[i].events : tokens[e].calls > 1
            /\ \A e \in rows[i].events : model[e] \in Tiered

\* What price_rollups says of a row, unless it is flagged, is what its events
\* cost one by one: sums that no tier and no malformed 1h split distorts.
RollupPriceAgrees(i) ==
    ~rollupPrices[i].tieredAggregate =>
        Reported(rollupPrices[i].usd) = ChargesOf(rows[i])

RollupPricesAgree == \A i \in DOMAIN rollupPrices : RollupPriceAgrees(i)

\* They agree in every mode for rows whose events all carry a cost, or none.
RollupPricesAgreeUnlessPartlyRecorded ==
    \A i \in DOMAIN rollupPrices :
        \/ RollupPriceAgrees(i)
        \/ /\ mode = "auto"
           /\ \E e, f \in rows[i].events : recorded[e] = Null /\ recorded[f] # Null
=============================================================================

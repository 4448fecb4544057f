--------------------------- MODULE CatalogLookup ---------------------------
(***************************************************************************)
(* Pricing::lookup_model (pricing/mod.rs) over the priority-ordered        *)
(* catalogs, with match_model (match_model.rs): an override or a tiered    *)
(* price ends the search, the first flat price is kept in hand, and a      *)
(* catalog whose best match is a placeholder of price zero is passed over. *)
(*                                                                         *)
(* One step is one iteration of the loop.  A catalog is a function that    *)
(* gives the kind of price each key has in it; the candidate keys of the   *)
(* model, in decreasing confidence, are a constant.                        *)
(***************************************************************************)
EXTENDS Integers, Sequences, Functions

CONSTANTS
    Keys,           \* the keys of catalogs
    Candidates,     \* candidate_keys of the model looked up
    Catalogs,       \* the catalogs that a source may supply
    MaxCatalogs,    \* bound on their number
    Absent,         \* no price under a key
    None            \* no key, no hit, no answer yet

Prices == {"zero", "flat", "tiered"}

ASSUME LookupAssumption ==
    /\ Candidates \in Seq(Keys)
    /\ Catalogs \subseteq [Keys -> Prices \cup {Absent}]
    /\ MaxCatalogs \in Nat
    /\ Absent \notin Prices /\ None \notin Keys
    /\ None \notin [kind : {"hit"}, catalog : Nat, key : Keys]

VARIABLES
    catalogs,       \* in priority order
    override,       \* the index of the override catalog; 0 for none
    next,           \* the catalog the loop is at
    flat,           \* the first flat hit
    zeroKey,        \* the first placeholder passed over
    attempted,      \* the keys tried in catalogs that did not hit
    answer

input == <<catalogs, override>>
lookupVars == <<input, next, flat, zeroKey, attempted, answer>>

Hit(k, key) == [kind |-> "hit", catalog |-> k, key |-> key]
Miss(key) == [kind |-> "miss", key |-> key]
Placeholder(key) == [kind |-> "zeroCost", key |-> key]

LookupInit ==
    /\ \E n \in 0..MaxCatalogs : catalogs \in [1..n -> Catalogs]
    /\ override \in 0..Len(catalogs)
    /\ next = 1
    /\ flat = None /\ zeroKey = None /\ attempted = {}
    /\ answer = None

-----------------------------------------------------------------------------
\* Positions of the candidates that the catalog has.
Found(catalog) == {i \in DOMAIN Candidates : catalog[Candidates[i]] # Absent}

FirstOf(positions) == CHOOSE i \in positions : \A j \in positions : i <= j

\* Mutation: a placeholder is passed over for the next key of its catalog.
MatchModelSettling(k, skipZeroCost) ==
    LET catalog == catalogs[k]
        usable == {i \in Found(catalog) :
                     skipZeroCost => catalog[Candidates[i]] # "zero"}
    IN  IF Found(catalog) = {} THEN Miss(None)
        ELSE IF usable = {}
             THEN Miss(Candidates[FirstOf(Found(catalog))])
             ELSE Hit(k, Candidates[FirstOf(usable)])

MatchModel(k, skipZeroCost) ==
    LET catalog == catalogs[k]
        key == Candidates[FirstOf(Found(catalog))]
    IN  IF Found(catalog) = {} THEN Miss(None)
        ELSE IF skipZeroCost /\ catalog[key] = "zero"
             THEN Miss(key)
             ELSE Hit(k, key)

IsEmpty(k) == \A key \in Keys : catalogs[k][key] = Absent

Matched(k) == MatchModel(k, k # override)

WinsOutright(hit) ==
    hit.catalog = override \/ catalogs[hit.catalog][hit.key] = "tiered"

Searching == answer = None /\ next <= Len(catalogs)

SkipEmpty ==
    /\ Searching
    /\ IsEmpty(next)
    /\ next' = next + 1
    /\ UNCHANGED <<input, flat, zeroKey, attempted, answer>>

TakeOutright ==
    /\ Searching /\ ~IsEmpty(next)
    /\ Matched(next).kind = "hit" /\ WinsOutright(Matched(next))
    /\ answer' = Matched(next)
    /\ UNCHANGED <<input, next, flat, zeroKey, attempted>>

\* Mutation: a later flat hit replaces the one in hand.
KeepFlatLast ==
    /\ Searching /\ ~IsEmpty(next)
    /\ Matched(next).kind = "hit" /\ ~WinsOutright(Matched(next))
    /\ flat' = Matched(next)
    /\ next' = next + 1
    /\ UNCHANGED <<input, zeroKey, attempted, answer>>

KeepFlat ==
    /\ Searching /\ ~IsEmpty(next)
    /\ Matched(next).kind = "hit" /\ ~WinsOutright(Matched(next))
    /\ flat' = IF flat = None THEN Matched(next) ELSE flat
    /\ next' = next + 1
    /\ UNCHANGED <<input, zeroKey, attempted, answer>>

\* Mutation: the placeholder of the last catalog is reported.
PassOverLast ==
    /\ Searching /\ ~IsEmpty(next)
    /\ Matched(next).kind = "miss"
    /\ zeroKey' = Matched(next).key
    /\ attempted' = attempted \cup Range(Candidates)
    /\ next' = next + 1
    /\ UNCHANGED <<input, flat, answer>>

PassOver ==
    /\ Searching /\ ~IsEmpty(next)
    /\ Matched(next).kind = "miss"
    /\ zeroKey' = IF zeroKey = None THEN Matched(next).key ELSE zeroKey
    /\ attempted' = attempted \cup Range(Candidates)
    /\ next' = next + 1
    /\ UNCHANGED <<input, flat, answer>>

Finish ==
    /\ answer = None /\ next > Len(catalogs)
    /\ answer' = IF flat # None THEN flat
                 ELSE IF zeroKey # None THEN Placeholder(zeroKey)
                 ELSE Miss(None)
    /\ UNCHANGED <<input, next, flat, zeroKey, attempted>>

LookupNext == SkipEmpty \/ TakeOutright \/ KeepFlat \/ PassOver \/ Finish

LookupSpec == LookupInit /\ [][LookupNext]_lookupVars

-----------------------------------------------------------------------------
(***************************************************************************)
(* Properties.                                                             *)
(***************************************************************************)

\* The candidate at position i is the most confident key that catalog k has.
IsBest(k, i) ==
    /\ catalogs[k][Candidates[i]] # Absent
    /\ \A j \in 1..(i - 1) : catalogs[k][Candidates[j]] = Absent

\* Catalog k sells the model under its best key at a price of this kind.
Sells(k, i, kind) == IsBest(k, i) /\ catalogs[k][Candidates[i]] = kind

Outright(k, i) == Sells(k, i, "tiered") \/ (k = override /\ IsBest(k, i))

Offers(k, i) == Outright(k, i) \/ Sells(k, i, "flat")

LookupTypeOK ==
    /\ catalogs \in Seq(Catalogs)
    /\ override \in 0..Len(catalogs)
    /\ next \in 1..(Len(catalogs) + 1)
    /\ flat \in [kind : {"hit"}, catalog : 1..Len(catalogs), key : Keys] \cup {None}
    /\ zeroKey \in Keys \cup {None}
    /\ attempted \subseteq Range(Candidates)

\* The price found is the one the priorities promise: an override or a tiered
\* price before any flat one, the first catalog among equals, the most confident
\* key of that catalog, and a market placeholder of zero never, nor a less
\* confident key of its catalog instead.
HitIsBest ==
    (answer # None /\ answer.kind = "hit") =>
        \E i \in DOMAIN Candidates :
            LET k == answer.catalog
            IN  /\ answer.key = Candidates[i]
                /\ \/ /\ Outright(k, i)
                      /\ \A l \in 1..(k - 1), j \in DOMAIN Candidates : ~Outright(l, j)
                   \/ /\ Sells(k, i, "flat")
                      /\ \A l \in DOMAIN catalogs, j \in DOMAIN Candidates : ~Outright(l, j)
                      /\ \A l \in 1..(k - 1), j \in DOMAIN Candidates : ~Offers(l, j)

\* A miss is reported only when no catalog offers a price, and for the right
\* reason: the placeholder of the first catalog that has one, or none at all.
\* It names the candidates if any catalog had prices to try them on.
MissExplained ==
    (answer # None /\ answer.kind # "hit") =>
        /\ \A k \in DOMAIN catalogs, i \in DOMAIN Candidates : ~Offers(k, i)
        /\ attempted = IF \A k \in DOMAIN catalogs : IsEmpty(k) THEN {}
                       ELSE Range(Candidates)
        /\ IF answer.kind = "zeroCost"
           THEN \E k \in DOMAIN catalogs, i \in DOMAIN Candidates :
                    /\ Sells(k, i, "zero") /\ answer.key = Candidates[i]
                    /\ \A l \in 1..(k - 1), j \in DOMAIN Candidates : ~IsBest(l, j)
           ELSE \A k \in DOMAIN catalogs, i \in DOMAIN Candidates : ~IsBest(k, i)
=============================================================================

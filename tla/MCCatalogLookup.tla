-------------------------- MODULE MCCatalogLookup --------------------------
(***************************************************************************)
(* A small instance of CatalogLookup: two candidate keys, and a third that *)
(* another model uses.                                                     *)
(***************************************************************************)
EXTENDS CatalogLookup

CONSTANTS exact, stripped, other

TwoCandidates == <<exact, stripped>>

SomeCatalogs ==
    {c \in [{exact, stripped, other} -> Prices \cup {Absent}] :
        c[other] \in {"flat", Absent}}
=============================================================================

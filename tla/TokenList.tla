----------------------------- MODULE TokenList -----------------------------
(* The tokens of a chain and which of them its Sugar contract lists. *)
EXTENDS Naturals

CONSTANTS
  Tokens, Native,
  MaxListings,  \* bound: how often the list changes
  NoToken

VARIABLES listed, listings

listVars == <<listed, listings>>

ListInit == listed \in {l \in SUBSET Tokens : Native \in l} /\ listings = 0

\* A token is listed, or no longer; nativeToken always is.
ListToken(t) ==
  /\ listings < MaxListings /\ listings' = listings + 1
  /\ t # Native
  /\ listed' = IF t \in listed THEN listed \ {t} ELSE listed \cup {t}
=============================================================================

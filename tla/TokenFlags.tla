----------------------------- MODULE TokenFlags -----------------------------
(***************************************************************************)
(* A token flag of a command of packages/sugar: token-catalog.ts and       *)
(* cli/tokens.ts turn what the user typed into the address of a listed     *)
(* token, with a picker (cli/token-prompt.ts) where it is not clear; the   *)
(* action then looks that address up among all tokens (models.ts,          *)
(* actions.ts).  Several tokens share a symbol, and what is listed changes *)
(* while a catalog is cached.                                              *)
(***************************************************************************)
EXTENDS TokenList, FiniteSets, Sequences, SequencesExt

CONSTANTS
  SymbolOf,       \* [Tokens -> symbols]
  Texts,          \* what a user may type, symbols and "" included; not an address
  NoText,         \* ""
  Score,          \* [Texts -> [Tokens -> Nat]]: fuzzyScore, 0 where nothing matches
  Page            \* maxPerPage of the picker

VARIABLES
  cliCatalog,     \* loadTokenCatalog: kept for an hour
  flag            \* one token flag of a command

flagVars == <<listVars, cliCatalog, flag>>

NoFlag == [step |-> "idle", typed |-> NoText, query |-> NoText, index |-> 0,
           prompted |-> FALSE,
           meant |-> NoToken, value |-> NoText, token |-> NoToken]

FlagsTypeOK ==
  /\ listed \in SUBSET Tokens /\ IsInjective(cliCatalog) /\ ToSet(cliCatalog) \subseteq Tokens
  /\ flag.step \in {"idle", "typed", "prompt", "resolved", "found", "failed"}
  /\ flag.index \in Nat /\ flag.query \in Texts

FlagsInit ==
  /\ ListInit /\ cliCatalog = <<>> /\ flag = NoFlag

-----------------------------------------------------------------------------
\* dedupeTokens of the listed tokens: each once, the native token first.
ListedTokens == <<Native>> \o SetToSeq(listed \ {Native})

\* Best score first, in the order of the catalog where scores are equal.
Ranked(catalog, text) ==
  IF text = NoText THEN catalog
  ELSE LET At(t) == CHOOSE i \in DOMAIN catalog : catalog[i] = t
           Before(t, u) == \/ Score[text][t] < Score[text][u]
                           \/ Score[text][t] = Score[text][u] /\ At(t) < At(u) IN
       SetToSortSeq({t \in ToSet(catalog) : Score[text][t] > 0}, Before)

\* Faulty variant: the first of several tokens of that symbol.
AnyExact(catalog, text) ==
  LET same == SelectSeq(catalog, LAMBDA t : SymbolOf[t] = text) IN
  IF same = <<>> THEN NoToken ELSE Head(same)

\* resolveTokenReference: the native token's address is its symbol.
Exact(catalog, text) ==
  LET same == SelectSeq(catalog, LAMBDA t : SymbolOf[t] = text) IN
  IF Native \in ToSet(same) THEN Native
  ELSE IF Len(same) = 1 THEN Head(same) ELSE NoToken

\* The catalog is loaded when a flag needs it and none is cached.
TypeFlag(text, at) ==
  /\ flag.step \in {"idle", "found", "failed"}
  /\ \/ /\ at = NoToken /\ text # NoText
        /\ flag' = [NoFlag EXCEPT !.step = "typed", !.typed = text]
     \/ /\ at # NoToken /\ text = NoText       \* an address is left alone
        /\ flag' = [NoFlag EXCEPT !.step = "resolved", !.meant = at, !.value = at]
     \/ /\ at = NoToken /\ text = NoText       \* a flag that is required
        /\ flag' = [NoFlag EXCEPT !.step = "typed"]
  /\ UNCHANGED <<listVars, cliCatalog>>

Resolved(f, token) == [f EXCEPT !.step = "resolved", !.meant = token,
                         !.value = IF token = Native THEN SymbolOf[Native] ELSE token]

\* resolveTokenParameters: an exact token, an error, or the picker.
ResolveFlag(interactive) ==
  /\ flag.step = "typed"
  /\ \E catalog \in {IF cliCatalog = <<>> THEN ListedTokens ELSE cliCatalog} :
       /\ cliCatalog' = catalog
       /\ flag' = IF flag.typed # NoText /\ Exact(catalog, flag.typed) # NoToken
                  THEN Resolved(flag, Exact(catalog, flag.typed))
                  ELSE IF interactive
                       THEN [flag EXCEPT !.step = "prompt", !.query = flag.typed, !.prompted = TRUE]
                       ELSE [flag EXCEPT !.step = "failed"]
  /\ UNCHANGED <<listVars>>

Shown == Ranked(cliCatalog, flag.query)

MoveIndex(delta) ==
  IF Shown = <<>> THEN 0
  ELSE LET to == flag.index + delta IN
       IF to < 0 THEN 0 ELSE IF to > Len(Shown) - 1 THEN Len(Shown) - 1 ELSE to

\* A key that moves: a row or a page, up or down.
PickerMoves(delta) ==
  /\ flag.step = "prompt"
  /\ flag' = [flag EXCEPT !.index = MoveIndex(delta)]
  /\ UNCHANGED <<listVars, cliCatalog>>

\* A letter, backspace or ctrl-u.
EditQuery(query) ==
  /\ flag.step = "prompt" /\ query # flag.query
  /\ flag' = [flag EXCEPT !.query = query, !.index = 0]
  /\ UNCHANGED <<listVars, cliCatalog>>

\* Enter takes the highlighted token and beeps where there is none; its
\* address is stored, so that a symbol two tokens share stays unambiguous.
Pick ==
  /\ flag.step = "prompt" /\ flag.index < Len(Shown)
  /\ flag' = Resolved(flag, Shown[flag.index + 1])
  /\ UNCHANGED <<listVars, cliCatalog>>

CancelPick ==
  /\ flag.step = "prompt"
  /\ flag' = [flag EXCEPT !.step = "failed"]
  /\ UNCHANGED <<listVars, cliCatalog>>

\* findToken among all tokens: by address, or the one token of a symbol, the
\* native one before others.
FindToken(value) ==
  IF value \in Tokens THEN {value}
  ELSE LET same == {t \in Tokens : SymbolOf[t] = value} IN
       IF Native \in same THEN {Native}
       ELSE IF Cardinality(same) = 1 THEN same ELSE {}

\* requireToken: no token, or an ambiguous symbol, is an error.
RequireToken ==
  /\ flag.step = "resolved"
  /\ flag' = IF FindToken(flag.value) = {} THEN [flag EXCEPT !.step = "failed"]
             ELSE [flag EXCEPT !.step = "found",
                     !.token = CHOOSE t \in FindToken(flag.value) : TRUE]
  /\ UNCHANGED <<listVars, cliCatalog>>

CatalogEnds ==
  /\ cliCatalog # <<>> /\ flag.step # "prompt" /\ cliCatalog' = <<>>
  /\ UNCHANGED <<listVars, flag>>

FlagsNext ==
  \/ \E text \in Texts, at \in Tokens \cup {NoToken} : TypeFlag(text, at)
  \/ \E interactive \in BOOLEAN : ResolveFlag(interactive)
  \/ \E delta \in {-1, 1, -Page, Page} : PickerMoves(delta)
  \/ \E query \in Texts : EditQuery(query)
  \/ Pick \/ CancelPick \/ RequireToken \/ CatalogEnds
  \/ (\E t \in Tokens : ListToken(t) /\ UNCHANGED <<cliCatalog, flag>>)

FlagsSpec == FlagsInit /\ [][FlagsNext]_flagVars

-----------------------------------------------------------------------------
\* resolveTokenParameters and findToken: the token a command works with is the
\* one whose address was typed, the one picked, the native one or the only
\* listed one of that symbol, though other tokens share the symbol and the
\* catalog may be an hour old; the picker always highlights a choice it shows.
TokenIsMeant ==
  /\ flag.step = "found" => flag.token = flag.meant
  /\ flag.step = "found" /\ flag.typed # NoText /\ ~flag.prompted =>
       /\ SymbolOf[flag.token] = flag.typed
       /\ flag.token = Native
            \/ (\A t \in ToSet(cliCatalog) : SymbolOf[t] = flag.typed => t = flag.token)
  /\ flag.step = "prompt" => (flag.index < Len(Shown) \/ (Shown = <<>> /\ flag.index = 0))
=============================================================================

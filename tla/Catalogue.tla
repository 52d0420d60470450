------------------------------ MODULE Catalogue ------------------------------
(***************************************************************************)
(* One article: its option groups and values, the grid of variants derived *)
(* from them, and what is offered for sale.  The stock of a variant is not *)
(* stored: it is what was bought less what was sold, read from the ledgers *)
(* of purchases and sales.  Every operation is one transaction and one     *)
(* step.                                                                   *)
(***************************************************************************)
EXTENDS Integers, Sequences, SequencesExt

CONSTANTS
  OptionValues,   \* the option values that may ever exist
  OptionGroups,   \* their groups
  GroupOf,        \* the group of a value
  DefaultValues,  \* the values a new article starts with
  StalePages,     \* a page may save options that were dropped meanwhile
  MaxVariants     \* bound: rows of table variants

ASSUME CatalogueAssumption ==
  /\ IsFiniteSet(OptionValues)
  /\ GroupOf \in [OptionValues -> OptionGroups]
  /\ DefaultValues \subseteq OptionValues
  /\ StalePages \in BOOLEAN
  /\ MaxVariants \in Nat \ {0}

VARIABLES
  article,    \* the row of table articles
  groups,     \* table option_groups: "absent", "active" or "inactive"
  values,     \* table option_values, likewise
  variants,   \* table variants in order of id; a key is a set of values
  purchased,  \* table purchases: positions in order of id
  sold        \* what active sales took of a variant

catalogueVars == <<article, groups, values, variants, purchased, sold>>

VariantIds == 1..MaxVariants
NoArticle == [exists |-> FALSE, offered |-> FALSE, priced |-> FALSE]
Variant(key) == [key |-> key, active |-> TRUE, offered |-> TRUE, noReorder |-> FALSE]

ActiveRows(table) == {x \in DOMAIN table : table[x] = "active"}
ActiveIds(vs) == {i \in DOMAIN vs : vs[i].active}

\* StockMap: cancelled purchases and sales never contribute.
Pieces(positions, i) ==
  UNION {{p} \X (1..positions[p].quantity) :
           p \in {q \in DOMAIN positions : positions[q].variant = i /\ ~positions[q].cancelled}}

Stock(positions, sales) ==
  [i \in VariantIds |-> Cardinality(Pieces(positions, i)) - sales[i]]

OnHand(i) == Stock(purchased, sold)[i]

-----------------------------------------------------------------------------
(* Automatic withdrawal: what is sold out and not bought again leaves the   *)
(* assortment, and the article with the last of its variants.  Nothing is   *)
(* offered again automatically.                                             *)

Exhausted(variant, stock) == variant.noReorder /\ stock <= 0

AutoWithdrawDepleted(vs, art, ids, stock) ==
  LET candidates == ids \cap ActiveIds(vs)
      gone(i)    == Exhausted(vs[i], stock[i])
  IN  [variants |-> [i \in DOMAIN vs |->
                       IF i \in candidates /\ gone(i)
                       THEN [vs[i] EXCEPT !.offered = FALSE] ELSE vs[i]],
       article  |-> IF candidates # {} /\ \A i \in ActiveIds(vs) : gone(i)
                    THEN [art EXCEPT !.offered = FALSE] ELSE art]

\* The withdrawal at the end of a transaction that leaves these tables behind.
Withdraw(vs, art, ids, positions, sales) ==
  LET result == AutoWithdrawDepleted(vs, art, ids, Stock(positions, sales))
  IN  variants' = result.variants /\ article' = result.article

-----------------------------------------------------------------------------
(* The grid of variants.                                                    *)

\* One value of every active group; a group without values leaves no variant.
ExpectedCombinations(gs, vals) ==
  LET choices == {f \in [ActiveRows(gs) -> ActiveRows(vals)] : \A g \in ActiveRows(gs) : GroupOf[f[g]] = g}
  IN  {{f[g] : g \in ActiveRows(gs)} : f \in choices}

\* Nothing is deleted: a combination that is gone is parked, one that comes
\* back finds its row again.
SyncVariants(gs, vals, vs) ==
  LET expected == ExpectedCombinations(gs, vals)
      missing  == expected \ {vs[i].key : i \in DOMAIN vs}
  IN  [i \in DOMAIN vs |-> [vs[i] EXCEPT !.active = vs[i].key \in expected]]
      \o [n \in 1..Cardinality(missing) |-> Variant(SetToSeq(missing)[n])]

\* Fault: the variants are not carried over to a new dimension.
NotPreserved(vs, firstValues) == vs

\* PreserveVariantsForNewOptionGroups: what is active takes the first value of
\* every new group.
Preserve(vs, firstValues) ==
  [i \in DOMAIN vs |-> IF vs[i].active THEN [vs[i] EXCEPT !.key = @ \cup firstValues] ELSE vs[i]]

\* The rows of table variants for these options, before the page's overrides.
Grid(gs, vals, firstValues) == SyncVariants(gs, vals, Preserve(variants, firstValues))

\* ApplyConfiguration after its checks: options, grid, overrides, withdrawal.
Configure(gs, vals, grid, art) ==
  /\ Len(grid) <= MaxVariants
  /\ groups' = gs /\ values' = vals
  /\ Withdraw(grid, art, DOMAIN grid, purchased, sold)
  /\ UNCHANGED <<purchased, sold>>

-----------------------------------------------------------------------------
(* Operations.                                                              *)

\* createArticle with the default options; CreateArticleDraft waits with the
\* variants until the configuration is saved for the first time.
\* The price is asked for while there is no variant yet, and never again.
CreateArticle(priced, deferred) ==
  LET gs   == [g \in OptionGroups |->
                 IF \E v \in DefaultValues : GroupOf[v] = g THEN "active" ELSE "absent"]
      vals == [v \in OptionValues |-> IF v \in DefaultValues THEN "active" ELSE "absent"]
      grid == SyncVariants(gs, vals, <<>>)
  IN  /\ ~article.exists
      /\ article' = [exists |-> TRUE, offered |-> TRUE, priced |-> priced \/ ~deferred]
      /\ groups' = gs /\ values' = vals
      /\ Len(grid) <= MaxVariants
      /\ variants' = IF deferred THEN <<>> ELSE grid
      /\ UNCHANGED <<purchased, sold>>

\* validateLockedOptionMembership: once there is a variant, no active group or
\* value may be missing from the page.
MembershipKept(sent) ==
  variants # <<>> =>
    \A g \in ActiveRows(groups) :
      /\ \E v \in sent : GroupOf[v] = g
      /\ {v \in ActiveRows(values) : GroupOf[v] = g} \subseteq sent

\* What a page that is up to date can send: an option that was dropped is not on it.
UpToDate(sent) ==
  \A v \in sent : values[v] # "inactive" /\ groups[GroupOf[v]] # "inactive"

\* One value for every group that is new on the page: the first of its list.  A
\* group that was dropped and is sent again counts as known.
FirstValues(sent) ==
  LET fresh == {v \in sent : groups[GroupOf[v]] = "absent"}
  IN  {first \in SUBSET fresh :
         \A v \in fresh : Cardinality({w \in first : GroupOf[w] = GroupOf[v]}) = 1}

\* The article page is saved with these values, and with the price where none is
\* set yet: without it the save of a draft fails.
SaveOptions(sent) ==
  LET named == {GroupOf[v] : v \in sent}
      gs    == [g \in OptionGroups |-> IF g \in named THEN "active"
                                       ELSE IF groups[g] = "active" THEN "inactive" ELSE groups[g]]
      vals  == [v \in OptionValues |-> IF v \in sent THEN "active"
                                       ELSE IF values[v] = "active" /\ GroupOf[v] \in named
                                            THEN "inactive" ELSE values[v]]
  IN  /\ article.exists
      /\ StalePages \/ UpToDate(sent)
      /\ MembershipKept(sent)
      /\ \E firstValues \in FirstValues(sent) :
           Configure(gs, vals, Grid(gs, vals, firstValues), [article EXCEPT !.priced = TRUE])

\* One variant is offered or taken out, reordered or not.
SaveVariant(i, offered, noReorder) ==
  /\ i \in DOMAIN variants
  /\ Configure(groups, values,
               [Grid(groups, values, {}) EXCEPT ![i].offered = offered, ![i].noReorder = noReorder], article)

\* The article is taken out of the assortment or put back.
SaveArticle(offered) ==
  /\ article.exists
  /\ variants = <<>> => article.priced
  /\ Configure(groups, values, Grid(groups, values, {}), [article EXCEPT !.offered = offered])

\* An article that cannot be sold: no active variant, or a group without values.
Incomplete ==
  \/ ActiveIds(variants) = {}
  \/ \E g \in ActiveRows(groups) : \A v \in ActiveRows(values) : GroupOf[v] # g

\* DeleteIncomplete: a draft that never entered the ledgers.
DeleteIncomplete ==
  /\ article.exists /\ Incomplete
  /\ \A p \in DOMAIN purchased : purchased[p].variant \notin DOMAIN variants
  /\ \A i \in DOMAIN variants : sold[i] = 0
  /\ article' = NoArticle /\ variants' = <<>>
  /\ groups' = [g \in OptionGroups |-> "absent"]
  /\ values' = [v \in OptionValues |-> "absent"]
  /\ UNCHANGED <<purchased, sold>>

-----------------------------------------------------------------------------
CatalogueInit ==
  /\ article = NoArticle
  /\ groups = [g \in OptionGroups |-> "absent"]
  /\ values = [v \in OptionValues |-> "absent"]
  /\ variants = <<>> /\ purchased = <<>>
  /\ sold = [i \in VariantIds |-> 0]

CatalogueNext ==
  \/ \E priced, deferred \in BOOLEAN : CreateArticle(priced, deferred)
  \/ \E sent \in SUBSET OptionValues : SaveOptions(sent)
  \/ \E i \in VariantIds, offered, noReorder \in BOOLEAN : SaveVariant(i, offered, noReorder)
  \/ \E offered \in BOOLEAN : SaveArticle(offered)
  \/ DeleteIncomplete

-----------------------------------------------------------------------------
(* Properties.                                                              *)

\* What lies in stock stays in the catalogue: no change of the options parks a
\* variant of which something is on hand (the promise of
\* PreserveVariantsForNewOptionGroups).
StockKept ==
  [][\A i \in DOMAIN variants :
       variants[i].active /\ OnHand(i) > 0 => i \in DOMAIN variants' /\ variants'[i].active]_catalogueVars
=============================================================================

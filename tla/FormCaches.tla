----------------------------- MODULE FormCaches -----------------------------
(***************************************************************************)
(* Two caches over the game's arrays of forms.  The crafting menu's        *)
(* (Modules/AdModuleCraftingMenuFix.cpp) keeps the recipes and mods of an  *)
(* attach point and shows the game those instead of all of them while it   *)
(* builds its list.  The workshop's (Modules/AdModuleFasterWorkshop.cpp)   *)
(* keeps the recipes of a keyword, so that a node of the menu asks only    *)
(* for its own.                                                            *)
(*                                                                         *)
(* Menus run on the game's main thread; no other reads the arrays while    *)
(* they are swapped.  Forms are added to the end of an array between the   *)
(* menus' calls, and are marked deleted, never brought back.  What the     *)
(* game does with an array it was shown is external.  Deleted keywords are  *)
(* left out, and a question builds the map also where no keyword is met.    *)
(***************************************************************************)
EXTENDS Naturals, Sequences, SequencesExt, FiniteSets, FiniteSetsExt

CONSTANTS
    AttachPoints,    \* keywords a mod can be attached to
    NoPoint,         \* no keyword
    Cobjs, Omods,    \* the forms the arrays may come to hold
    PointOf,         \* of each form, through the mod a recipe creates; or NoPoint
    Menus,           \* [slots: attach points of the examined object, selected: index]
    Keywords,        \* that recipes are filtered by
    NoKeyword,
    DefaultFilter,   \* the keyword of the node of recipes without any
    Recipes,         \* the workshop's recipes, in the order they are loaded
    KeywordsOf,      \* the sequence of each recipe's keywords, also NoKeyword
    Creates,         \* of each recipe: nothing, the item, or the items of a list
    KeywordLimit,    \* 32: a recipe with more of them is taken for corrupt
    FormLists        \* of each node: keywords, the names of other lists, other forms

ASSUME FormsAssumption ==
    /\ NoPoint \notin AttachPoints
    /\ PointOf \in [Cobjs \union Omods -> AttachPoints \union {NoPoint}]
    /\ DefaultFilter \in Keywords /\ NoKeyword \notin Keywords

\* There is a recipe with a keyword the game knows: without one, the built map is
\* empty and taken for one that is not built.
ASSUME RecipesAssumption ==
    \E i \in DOMAIN Recipes :
        LET r == Recipes[i] IN
        Creates[r] # <<>> /\ Len(KeywordsOf[r]) > 0 /\ KeywordsOf[r][1] # NoKeyword

VARIABLES
    entries,     \* [cobj, omod]: the arrays as the game finds them
    deletedForms,
    prefilter,   \* s_ready, s_cobjTotal, s_omodTotal, s_cobjByAP, s_omodByAP
    swap,        \* t_swap while arrays are swapped: what they held; or <<>>
    inSwap,      \* t_inSwap
    crafting,    \* the examined object while BuildPossibleModList runs, else <<>>
    listed,      \* [found, all]: what this call saw of what it had to see
    loadedRecipes, dataReady,
    cobjMap, uncategorized, filterKnown,
    asked        \* the last question to the workshop's cache and its answer

craftVars == <<entries, deletedForms, prefilter, swap, inSwap, crafting, listed>>
workshopVars == <<loadedRecipes, dataReady, cobjMap, uncategorized, filterKnown, asked>>
formVars == <<craftVars, workshopVars>>

-----------------------------------------------------------------------------
(* The crafting menu.                                                      *)

NothingListed == [found |-> <<>>, all |-> <<>>]

CurrentPoint(menu) ==
    IF menu.selected \in DOMAIN menu.slots THEN menu.slots[menu.selected] ELSE NoPoint

SlotPoints(menu) == ToSet(menu.slots) \ {NoPoint}

\* The indices, rising, of an array's forms at a point that are not passed over.
IndicesAt(array, point, passed) ==
    SelectSeq([i \in DOMAIN array |-> i],
              LAMBDA i : PointOf[array[i]] = point /\ array[i] \notin passed)

\* Mutant: arrays of the same number of recipes are taken for the same arrays.
EnsurePrefilterOfRecipes(cache) ==
    IF cache.ready /\ cache.cobjTotal = Len(entries.cobj)
    THEN cache
    ELSE [ready |-> TRUE, cobjTotal |-> Len(entries.cobj), omodTotal |-> Len(entries.omod),
          cobj |-> [p \in AttachPoints |-> IndicesAt(entries.cobj, p, deletedForms)],
          omod |-> [p \in AttachPoints |-> IndicesAt(entries.omod, p, {})]]

\* Made again when either array has another length.
EnsurePrefilter(cache) ==
    IF cache.ready /\ cache.cobjTotal = Len(entries.cobj) /\ cache.omodTotal = Len(entries.omod)
    THEN cache
    ELSE [ready |-> TRUE, cobjTotal |-> Len(entries.cobj), omodTotal |-> Len(entries.omod),
          cobj |-> [p \in AttachPoints |-> IndicesAt(entries.cobj, p, deletedForms)],
          omod |-> [p \in AttachPoints |-> IndicesAt(entries.omod, p, {})]]

\* Mutant: the points' candidates one point after the other, and some twice.
MergeUnionUnsorted(byPoint, menu) ==
    FlattenSeq([i \in DOMAIN menu.slots |->
        IF menu.slots[i] = NoPoint THEN <<>> ELSE byPoint[menu.slots[i]]])

\* The candidates of all the object's points, each once, in the array's order.
MergeUnion(byPoint, menu) ==
    SetToSortSeq(UNION {ToSet(byPoint[p]) : p \in SlotPoints(menu)}, <)

CandidatesFor(byPoint, menu) ==
    IF CurrentPoint(menu) # NoPoint THEN byPoint[CurrentPoint(menu)] ELSE MergeUnion(byPoint, menu)

FormsAt(array, indices) == [i \in DOMAIN indices |-> array[indices[i]]]

\* An empty array has no data yet.  A list that is empty or as long as the array
\* is not worth swapping.
TrySwap(menu) ==
    LET arraysExist == entries.cobj # <<>> /\ entries.omod # <<>>
        cache == EnsurePrefilter(prefilter)
        cobj == FormsAt(entries.cobj, CandidatesFor(cache.cobj, menu))
        omod == FormsAt(entries.omod, CandidatesFor(cache.omod, menu))
        worthwhile ==
            /\ Len(cobj) \in 1 .. Len(entries.cobj) - 1
            /\ Len(omod) \in 1 .. Len(entries.omod) - 1
    IN  /\ prefilter' = IF arraysExist THEN cache ELSE prefilter
        /\ IF arraysExist /\ worthwhile
           THEN /\ swap' = entries /\ entries' = [cobj |-> cobj, omod |-> omod]
                /\ inSwap' = TRUE
           ELSE UNCHANGED <<swap, entries, inSwap>>

\* BuildPossibleModList is entered; within itself it is called on as it is.
EnterBuild(menu) ==
    /\ crafting = <<>>
    /\ crafting' = <<menu>>
    /\ IF inSwap THEN UNCHANGED <<prefilter, swap, entries, inSwap>> ELSE TrySwap(menu)
    /\ UNCHANGED <<deletedForms, listed, workshopVars>>

\* What the game picks from an array for the object: the forms of its points.
Picked(array, menu) ==
    LET points == IF CurrentPoint(menu) # NoPoint THEN {CurrentPoint(menu)} ELSE SlotPoints(menu)
    IN  SelectSeq(array, LAMBDA f : PointOf[f] \in points /\ f \notin deletedForms)

WholeArrays == IF swap = <<>> THEN entries ELSE swap

\* The game's own function reads the arrays.
BuildList ==
    /\ crafting # <<>>
    /\ LET menu == crafting[1] IN
       listed' = [found |-> <<Picked(entries.cobj, menu), Picked(entries.omod, menu)>>,
                  all |-> <<Picked(WholeArrays.cobj, menu), Picked(WholeArrays.omod, menu)>>]
    /\ UNCHANGED <<entries, deletedForms, prefilter, swap, inSwap, crafting, workshopVars>>

\* Mutant: restored only when the function returns.
LeaveBuildWithoutFinally(raised) ==
    /\ crafting # <<>>
    /\ crafting' = <<>> /\ listed' = NothingListed
    /\ IF swap # <<>> /\ ~raised
       THEN /\ entries' = swap /\ swap' = <<>> /\ inSwap' = FALSE
       ELSE UNCHANGED <<entries, swap, inSwap>>
    /\ UNCHANGED <<deletedForms, prefilter, workshopVars>>

\* The function returns or raises an exception, the arrays being restored in either
\* case.  After an exception t_inSwap stays set, and nothing is swapped any more.
LeaveBuild(raised) ==
    /\ crafting # <<>>
    /\ crafting' = <<>> /\ listed' = NothingListed
    /\ IF swap # <<>>
       THEN /\ entries' = swap /\ swap' = <<>> /\ inSwap' = raised
       ELSE UNCHANGED <<entries, swap, inSwap>>
    /\ UNCHANGED <<deletedForms, prefilter, workshopVars>>

\* External: the game's arrays grow, and forms are deleted.
AddForm(kind, form) ==
    /\ crafting = <<>>
    /\ form \notin ToSet(entries[kind])
    /\ entries' = [entries EXCEPT ![kind] = Append(@, form)]
    /\ UNCHANGED <<deletedForms, prefilter, swap, inSwap, crafting, listed, workshopVars>>

DeleteForm(form) ==
    /\ crafting = <<>>
    /\ form \in ToSet(entries.cobj)
    /\ deletedForms' = deletedForms \union {form}
    /\ UNCHANGED <<entries, prefilter, swap, inSwap, crafting, listed, workshopVars>>

-----------------------------------------------------------------------------
(* The workshop.                                                           *)

\* Of too many keywords only the first counts.
FilterKeywords(r) ==
    IF Len(KeywordsOf[r]) > KeywordLimit THEN SubSeq(KeywordsOf[r], 1, 1) ELSE KeywordsOf[r]

NoMap == [k \in Keywords |-> <<>>]

\* Mutant: what has no keyword stays from before.
ClearBuiltMapOnly ==
    /\ ~dataReady
    /\ Len(loadedRecipes) = Len(Recipes)
    /\ dataReady' = TRUE
    /\ cobjMap' = NoMap /\ filterKnown' = FALSE /\ asked' = <<>>
    /\ UNCHANGED <<loadedRecipes, uncategorized, craftVars>>

\* kGameDataReady: whatever was built before is forgotten.
ClearBuiltMap ==
    /\ ~dataReady
    /\ Len(loadedRecipes) = Len(Recipes)
    /\ dataReady' = TRUE
    /\ cobjMap' = NoMap /\ uncategorized' = <<>> /\ filterKnown' = FALSE /\ asked' = <<>>
    /\ UNCHANGED <<loadedRecipes, craftVars>>

\* Mutant: a keyword named twice lists its recipe twice.
CategoriseRepeating(map, r) ==
    [k \in Keywords |->
        map[k] \o SelectSeq([i \in DOMAIN FilterKeywords(r) |-> r],
                            LAMBDA x : k \in ToSet(FilterKeywords(r)))]

\* A recipe goes once to each of the keywords the game knows.
Categorise(map, r) ==
    [k \in Keywords |-> IF k \in ToSet(FilterKeywords(r)) THEN Append(map[k], r) ELSE map[k]]

\* A map without a keyword counts as not built.
MustBuild == cobjMap = NoMap /\ loadedRecipes # <<>>

Usable == SelectSeq(loadedRecipes, LAMBDA r : Creates[r] # <<>>)

BuiltMap ==
    IF MustBuild THEN FoldLeft(Categorise, cobjMap, Usable) ELSE cobjMap

BuiltUncategorized ==
    IF MustBuild
    THEN uncategorized \o SelectSeq(Usable, LAMBDA r : FilterKeywords(r) = <<>>)
    ELSE uncategorized

\* The map is built for the first question, and with it the default filter known.
TryBuildMap ==
    /\ cobjMap' = BuiltMap /\ uncategorized' = BuiltUncategorized
    /\ filterKnown' = (filterKnown \/ MustBuild)

\* The recipes that are tested for a filter.
ForEachCandidate(filter) ==
    IF filter = DefaultFilter /\ (filterKnown \/ MustBuild)
    THEN BuiltUncategorized
    ELSE BuiltMap[filter]

\* A node has children when a recipe can be shown for a keyword of its list, or of
\* a list within, that is not the node's own.
ValidChildren[list \in DOMAIN FormLists, node \in Keywords, shown \in SUBSET ToSet(Recipes)] ==
    \E i \in DOMAIN FormLists[list] :
        LET form == FormLists[list][i] IN
        \/ /\ form \in DOMAIN FormLists
           /\ ValidChildren[form, node, shown]
        \/ /\ form \in Keywords \ {node}
           /\ ToSet(ForEachCandidate(form)) \intersect shown # {}

CachedCheckForValidChildren(list, node, shown) ==
    /\ TryBuildMap
    /\ asked' = [question |-> "children", list |-> list, node |-> node, shown |-> shown,
                 answer |-> ValidChildren[list, node, shown]]
    /\ UNCHANGED <<loadedRecipes, dataReady, craftVars>>

\* A recipe's entries in the menu: one, or one for each item of the list it creates.
Nodes(r) == [i \in DOMAIN Creates[r] |-> [recipe |-> r, item |-> Creates[r][i]]]

\* StoreAll (TryAddRecipe for every candidate that can be shown).
StoreAll(filter, shown) ==
    /\ TryBuildMap
    /\ asked' = [question |-> "recipes", filter |-> filter, shown |-> shown,
                 answer |-> FlattenSeq([i \in DOMAIN ForEachCandidate(filter) |->
                     LET r == ForEachCandidate(filter)[i] IN IF r \in shown THEN Nodes(r) ELSE <<>>])]
    /\ UNCHANGED <<loadedRecipes, dataReady, craftVars>>

\* External: recipes are loaded before the game's data is ready, in their order.
LoadRecipe ==
    /\ Len(loadedRecipes) < Len(Recipes)
    /\ loadedRecipes' = Append(loadedRecipes, Recipes[Len(loadedRecipes) + 1])
    /\ UNCHANGED <<dataReady, cobjMap, uncategorized, filterKnown, asked, craftVars>>

-----------------------------------------------------------------------------
CraftInit ==
    /\ entries = [cobj |-> <<>>, omod |-> <<>>] /\ deletedForms = {}
    /\ prefilter = [ready |-> FALSE, cobjTotal |-> 0, omodTotal |-> 0,
                    cobj |-> [p \in AttachPoints |-> <<>>],
                    omod |-> [p \in AttachPoints |-> <<>>]]
    /\ swap = <<>> /\ inSwap = FALSE /\ crafting = <<>>
    /\ listed = NothingListed

WorkshopInit ==
    /\ loadedRecipes = <<>> /\ dataReady = FALSE
    /\ cobjMap = [k \in Keywords |-> <<>>] /\ uncategorized = <<>>
    /\ filterKnown = FALSE /\ asked = <<>>

FormInit == CraftInit /\ WorkshopInit

CraftNext ==
    \/ \E menu \in Menus : EnterBuild(menu)
    \/ BuildList
    \/ \E raised \in BOOLEAN : LeaveBuild(raised)
    \/ \E f \in Cobjs : AddForm("cobj", f)
    \/ \E f \in Omods : AddForm("omod", f)
    \/ \E f \in Cobjs : DeleteForm(f)

WorkshopNext ==
    \/ LoadRecipe
    \/ ClearBuiltMap
    \/ \E list \in DOMAIN FormLists, node \in Keywords, shown \in SUBSET ToSet(Recipes) :
         CachedCheckForValidChildren(list, node, shown)
    \/ \E filter \in Keywords, shown \in SUBSET ToSet(Recipes) : StoreAll(filter, shown)

FormNext == CraftNext \/ WorkshopNext

FormSpec == FormInit /\ [][FormNext]_formVars

-----------------------------------------------------------------------------
\* The crafting menu finds among the forms it is shown the same ones, in the same
\* order, as among all of them, whatever was added or deleted since they were
\* cached, and however its calls end.
ShownIsEnough == listed.found = listed.all

\* Between the calls of the menu the game's arrays are its own again, all forms in
\* them, also when a call was left by an exception.
ArraysComeBack == crafting = <<>> => swap = <<>>

\* What the game tests for a filter without the cache: the recipes with that keyword,
\* each once, in order, and for the default filter those without any.
VanillaCandidates(filter) ==
    SelectSeq(Usable, LAMBDA r :
        IF filter = DefaultFilter THEN FilterKeywords(r) = <<>> ELSE filter \in ToSet(FilterKeywords(r)))

KeywordsWithin[list \in DOMAIN FormLists] ==
    UNION {IF FormLists[list][i] \in DOMAIN FormLists
           THEN KeywordsWithin[FormLists[list][i]]
           ELSE {FormLists[list][i]} \intersect Keywords : i \in DOMAIN FormLists[list]}

\* Once the game's data is ready, the workshop's menu shows the recipes it would show
\* without the cache, in their order and each once, and a node is said to have
\* children exactly if one of its keywords has a recipe to show.
WorkshopShowsAll ==
    dataReady /\ asked # <<>> =>
        IF asked.question = "recipes"
        THEN asked.answer =
                FlattenSeq([i \in DOMAIN VanillaCandidates(asked.filter) |->
                    LET r == VanillaCandidates(asked.filter)[i] IN
                    IF r \in asked.shown THEN Nodes(r) ELSE <<>>])
        ELSE asked.answer =
                \E k \in KeywordsWithin[asked.list] \ {asked.node} :
                    ToSet(VanillaCandidates(k)) \intersect asked.shown # {}

FormTypeOK ==
    /\ ToSet(entries.cobj) \subseteq Cobjs /\ ToSet(entries.omod) \subseteq Omods
    /\ deletedForms \subseteq Cobjs /\ inSwap \in BOOLEAN
    /\ ToSet(uncategorized) \subseteq ToSet(Recipes)
    /\ \A k \in Keywords : ToSet(cobjMap[k]) \subseteq ToSet(Recipes)
=============================================================================

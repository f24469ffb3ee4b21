------------------------------ MODULE Resolver ------------------------------
(***************************************************************************)
(* How the words of a step become one element of the page: resolve of      *)
(* executor/resolver.py.                                                   *)
(*                                                                         *)
(* A page is a sequence of documents, the main one and then its iframes; a *)
(* document is the sequence of its elements.  Of an element it matters     *)
(* which ways of looking find it (fits) and whether it is visible.  The    *)
(* ways are numbered by trust; way 0 is the selector, label or test id of  *)
(* a target that has no phrase.                                            *)
(*                                                                         *)
(* The result is a locator and not an element: which document, which way,  *)
(* and the how manieth.  It is looked up again when it is used.            *)
(***************************************************************************)
EXTENDS Integers, Sequences, FiniteSets, SequencesExt

CONSTANTS
    Ways,   \* how many ways of looking a phrase has
    Cap     \* how many matches of one way are examined

ASSUME ResolverAssumption == Ways \in Nat \ {0} /\ Cap \in Nat \ {0}

Elements == [fits : SUBSET (0..Ways), visible : BOOLEAN]

\* phrase: the target has words to be understood.  index: which of the matches, counted
\* from 1, or the last one, or no word about it.
NoIndex == 0
LastOne == -1
Targets == [phrase : BOOLEAN, index : {NoIndex, LastOne} \cup (Nat \ {0})]

\* The positions of a set that come before one.
Below(positions, i) == {j \in positions : j < i}

\* Playwright's locator: the elements it finds in the document as it is now, by position;
\* it numbers them from 0.
Located(doc, way) == {i \in 1..Len(doc) : way \in doc[i].fits}
Number(doc, way, i) == Cardinality(Below(Located(doc, way), i))

\* The visible ones among the first Cap.  matches is a list in the code, of their numbers in
\* ascending order: At is what it has in a place, counted from 0.
VisibleMatches(doc, way) ==
    {i \in Located(doc, way) : doc[i].visible /\ Number(doc, way, i) < Cap}
At(matches, place) == CHOOSE i \in matches : Cardinality(Below(matches, i)) = place

Outcome(kind, frame, way, nth) == [kind |-> kind, frame |-> frame, way |-> way, nth |-> nth]
NotFound == Outcome("not_found", 0, 0, 0)
Ambiguous == Outcome("ambiguous", 0, 0, 0)

\* Mutant of Wanted: the ordinal is taken for an index that starts at 0.
WantedNext(doc, way, index) ==
    IF index = LastOne THEN Number(doc, way, Max(VisibleMatches(doc, way))) ELSE index

\* The place in matches.  For the last one it is the number of the match that the code
\* takes, not its place.
Wanted(doc, way, index) ==
    IF index = LastOne THEN Number(doc, way, Max(VisibleMatches(doc, way))) ELSE index - 1

\* One document, by a way that sees something.
ByWay(doc, frame, way, index) ==
    LET matches == VisibleMatches(doc, way)
        wanted == IF index = NoIndex THEN 0 ELSE Wanted(doc, way, index)
    IN CASE index = NoIndex /\ Cardinality(matches) # 1 -> Ambiguous
         [] index # NoIndex /\ wanted \notin 0..(Cardinality(matches) - 1) -> NotFound
         [] OTHER -> Outcome("locator", frame, way, Number(doc, way, At(matches, wanted)))

\* One document, by the first way that sees anything.
ResolveWithin(page, frame, target) ==
    LET productive == {way \in 1..Ways : VisibleMatches(page[frame], way) # {}}
        outcome == [way \in productive |-> ByWay(page[frame], frame, way, target.index)]
    IN IF productive = {} THEN NotFound ELSE outcome[Min(productive)]

\* The main document; only if it is not found there, the iframes, of which one that is
\* ambiguous is passed over.
Resolve(page, target) ==
    LET within == [f \in 1..Len(page) |-> ResolveWithin(page, f, target)]
        frames == {f \in 2..Len(page) : within[f].kind = "locator"}
    IN CASE ~target.phrase -> Outcome("locator", 1, 0, 0)
         [] target.phrase /\ within[1] # NotFound -> within[1]
         [] target.phrase /\ within[1] = NotFound /\ frames = {} -> NotFound
         [] OTHER -> within[Min(frames)]

-----------------------------------------------------------------------------
\* What a phrase means, for the properties, over elements given by document and position.

Positions(page) == UNION {{f} \X (1..Len(page[f])) : f \in 1..Len(page)}
Before(page, x, way) == {j \in 1..(x[2] - 1) : way \in page[x[1]][j].fits}

\* The elements that can be seen and that one of the ways finds.
Visible(page, ways) ==
    {x \in Positions(page) : page[x[1]][x[2]].visible /\ page[x[1]][x[2]].fits \cap ways # {}}

\* The elements that the ways of looking a target has could find.
Fitting(page, target) == Visible(page, IF target.phrase THEN 1..Ways ELSE {0})

\* What a locator finds in the page as it is now: one element or none.
Found(page, locator) ==
    {x \in Positions(page) :
        /\ x[1] = locator.frame
        /\ locator.way \in page[x[1]][x[2]].fits
        /\ Cardinality(Before(page, x, locator.way)) = locator.nth}

\* The elements that a phrase names, counting the visible ones that the most trusted way
\* with any examines: the only one or, with an ordinal, the one with as many up to it.  One
\* in an iframe is named only if the main document has none, or too few.
Named(page, target) ==
    LET seen(f, way) == {x \in Visible(page, {way}) :
                            x[1] = f /\ Cardinality(Before(page, x, way)) < Cap}
        best(f, way) == seen(f, way) # {} /\ \A v \in 1..(way - 1) : seen(f, v) = {}
        upTo(x, way) == Cardinality({y \in seen(x[1], way) : y[2] <= x[2]})
        tooFew(f) == \A way \in 1..Ways :
            best(f, way) => target.index # NoIndex /\ Cardinality(seen(f, way)) < target.index
    IN {x \in Fitting(page, target) :
            /\ x[1] = 1 \/ tooFew(1)
            /\ \E way \in 1..Ways :
                 /\ best(x[1], way) /\ x \in seen(x[1], way)
                 /\ IF target.index = NoIndex
                      THEN seen(x[1], way) = {x}
                      ELSE upTo(x, way) = target.index}
=============================================================================

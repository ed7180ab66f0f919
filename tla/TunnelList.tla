------------------------------ MODULE TunnelList ------------------------------
(***************************************************************************)
(* The order of the tunnels: TunnelComparator, the sorted list that uses   *)
(* it for every insertion and lookup, and the favourites that change the   *)
(* order while the list is in use.                                         *)
(*                                                                         *)
(* A name is the sequence of its maximal runs of digits and of other       *)
(* characters, each a record: number (is it a run of digits), chars (the   *)
(* digits, or the ranks of the characters in lower case) and upper (a      *)
(* number that tells apart the spellings that differ in case only).  A     *)
(* digit ranks below every letter, as in ASCII.                            *)
(***************************************************************************)
EXTENDS Lists

CONSTANTS
    Names,    \* the tunnel names in use
    IntMax,   \* the greatest number String.toInt accepts
    Taps      \* the coroutines that run setFavourite

Run == [number : BOOLEAN, chars : Seq(Nat), upper : Nat]

ASSUME TunnelListAssumption == IntMax \in Nat /\ Names \subseteq Seq(Run)

VARIABLES
    tunnelMap,        \* the list, as the sequence of its keys
    favourites,       \* TunnelComparator.favourites
    savedFavourites,  \* UserKnobs.favouriteTunnels
    tap               \* per coroutine of setFavourite: {}, or {the set it will store}

vars == <<tunnelMap, favourites, savedFavourites, tap>>

-----------------------------------------------------------------------------
(* TunnelComparator *)

\* Lexicographic order of strings.
StringLess(s, t) ==
    \E i \in 1..Len(t) :
       /\ i <= Len(s) + 1
       /\ \A k \in 1..(i - 1) : s[k] = t[k]
       /\ i = Len(s) + 1 \/ s[i] < t[i]

\* String.toInt on a run of digits, before the check for overflow.
ValueOf(digits) == FoldLeft(LAMBDA n, d : 10 * n + d, 0, digits)

\* NaturalSortString: a run of digits that is no Int stays a string.
Token(run) ==
    IF run.number /\ ValueOf(run.chars) <= IntMax
    THEN [number |-> TRUE, value |-> ValueOf(run.chars), string |-> <<>>]
    ELSE [number |-> FALSE, value |-> 0, string |-> run.chars]

tokens(n) == [i \in 1..Len(n) |-> Token(n[i])]

compareTo(x, y) ==
    CASE x.number /\ (~y.number \/ x.value < y.value) -> -1
      [] x.number /\ y.number /\ x.value > y.value -> 1
      [] ~x.number /\ (y.number \/ StringLess(y.string, x.string)) -> 1
      [] ~x.number /\ ~y.number /\ StringLess(x.string, y.string) -> -1
      [] OTHER -> 0

\* The loop over the tokens of b.
naturalOrder(a, b) ==
    LET na == tokens(a)
        nb == tokens(b)
        ends == {i \in 1..Len(nb) : i > Len(na) \/ (i <= Len(na) /\ compareTo(na[i], nb[i]) # 0)}
        i == Min(ends)
    IN IF ends = {} THEN 1 ELSE IF i > Len(na) THEN -1 ELSE compareTo(na[i], nb[i])

\* Mutant: favourites are not looked at.
compareNatural(a, b, favs) == IF a = b THEN 0 ELSE naturalOrder(a, b)

compare(a, b, favs) ==
    CASE a = b -> 0
      [] a \in favs /\ b \notin favs -> -1
      [] a \notin favs /\ b \in favs -> 1
      [] OTHER -> naturalOrder(a, b)

-----------------------------------------------------------------------------
(* ObservableSortedKeyedArrayList *)

\* Collections.binarySearch, with Java's indices from 0: the index of the key,
\* or -(insertion point) - 1.
binarySearch(keys, key, favs) ==
    LET search[range \in (0..Len(keys)) \X (-1..(Len(keys) - 1))] ==
            LET low == range[1]
                high == range[2]
                mid == (low + high) \div 2
                c == compare(keys[mid + 1], key, favs)
            IN IF low > high THEN -(low + 1)
               ELSE IF c < 0 THEN search[<<mid + 1, high>>]
               ELSE IF c > 0 THEN search[<<low, mid - 1>>]
               ELSE mid
    IN search[<<0, Len(keys) - 1>>]

indexOfKey(key) ==
    LET index == binarySearch(tunnelMap, key, favourites)
    IN IF index >= 0 THEN index ELSE -1

containsKey(key) == indexOfKey(key) >= 0

\* add: an element that is found is not inserted a second time.
Added(keys, key, favs) ==
    LET p == -binarySearch(keys, key, favs) - 1 IN
    IF p < 0 THEN keys ELSE InsertedAt(keys, p + 1, key)

-----------------------------------------------------------------------------
Init ==
    /\ tunnelMap = <<>>
    /\ favourites = {}
    /\ savedFavourites = {}
    /\ tap = [j \in Taps |-> {}]

\* A tunnel is created or renamed: the name is tested, and its file reserved.
Add(n) ==
    /\ ~containsKey(n)
    /\ n \notin Range(tunnelMap)
    /\ tunnelMap' = Added(tunnelMap, n, favourites)
    /\ UNCHANGED <<favourites, savedFavourites, tap>>

\* A tunnel is deleted, or taken out to be renamed.
RemoveTunnel(n) ==
    /\ \E i \in DOMAIN tunnelMap :
          /\ tunnelMap[i] = n
          /\ tunnelMap' = RemovedAt(tunnelMap, i)
    /\ UNCHANGED <<favourites, savedFavourites, tap>>

\* setFavourite reads the stored set ...
setFavourite(j, names, favourite) ==
    /\ tap[j] = {}
    /\ LET updated == IF favourite THEN savedFavourites \cup names ELSE savedFavourites \ names IN
          /\ updated # savedFavourites
          /\ tap' = [tap EXCEPT ![j] = {updated}]
    /\ UNCHANGED <<tunnelMap, favourites, savedFavourites>>

\* ... and stores what it has computed from it.
SetFavouriteTunnels(j) ==
    /\ \E names \in tap[j] : savedFavourites' = names
    /\ tap' = [tap EXCEPT ![j] = {}]
    /\ UNCHANGED <<tunnelMap, favourites>>

\* Mutant: the list is left as it is.
unsorted(favs) == tunnelMap

\* Every element is inserted again, in the order it had.
resort(favs) == FoldLeft(LAMBDA keys, n : Added(keys, n, favs), <<>>, tunnelMap)

\* The collector of observeFavourites.
observeFavourites ==
    /\ favourites # savedFavourites
    /\ favourites' = savedFavourites
    /\ tunnelMap' = resort(savedFavourites)
    /\ UNCHANGED <<savedFavourites, tap>>

Next ==
    \/ \E n \in Names : Add(n) \/ RemoveTunnel(n)
    \/ \E j \in Taps :
          \/ \E names \in SUBSET Names, favourite \in BOOLEAN : setFavourite(j, names, favourite)
          \/ SetFavouriteTunnels(j)
    \/ observeFavourites

Spec == Init /\ [][Next]_vars

-----------------------------------------------------------------------------
(* Properties *)

\* No two names have the same tokens.
DistinctTokens == \A a, b \in Names : tokens(a) = tokens(b) => a = b

\* The natural order, by what it means: at the first place where two names
\* differ, nothing precedes a run, a number precedes text, numbers are ordered
\* by value and text alphabetically, whatever its case.
NaturalLess(a, b) ==
    \E i \in 1..Len(b) :
       /\ i <= Len(a) + 1
       /\ \A k \in 1..(i - 1) : Token(a[k]) = Token(b[k])
       /\ i <= Len(a) =>
             LET x == Token(a[i])
                 y == Token(b[i])
             IN \/ x.number /\ ~y.number
                \/ x.number /\ y.number /\ x.value < y.value
                \/ ~x.number /\ ~y.number /\ StringLess(x.string, y.string)

\* The favourites come first, and favourites and others are each in natural
\* order, after every insertion, removal and change of the favourites (resort
\* inserts into a list that is searched while it is being rebuilt).
Ordered ==
    \A i, k \in 1..Len(tunnelMap) : i < k =>
       LET a == tunnelMap[i]
           b == tunnelMap[k]
       IN /\ b \in favourites => a \in favourites
          /\ (a \in favourites <=> b \in favourites) => NaturalLess(a, b)

\* Every key of the list is found where it is, and no other key is found:
\* binary search relies on an order that the favourites can change.
LookupFinds ==
    \A n \in Names :
       \/ n \in Range(tunnelMap) /\ containsKey(n) /\ tunnelMap[indexOfKey(n) + 1] = n
       \/ n \notin Range(tunnelMap) /\ ~containsKey(n)

=============================================================================

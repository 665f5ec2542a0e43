-------------------------------- MODULE Loops --------------------------------
(***************************************************************************)
(* The loops over the symbols of a universe in alphabetical order: the     *)
(* sum() and += loops over dictionaries keyed by symbol, which are totals  *)
(* over 1 .. n, the loops over sorted() that collect a list, and sorting.  *)
(* Written as recursive functions and by counting, so that theorems may be *)
(* proved about them (LoopsProofs).                                        *)
(***************************************************************************)
EXTENDS Integers, Sequences, FiniteSets

PartialSums(f, n) ==
    LET sum[k \in 0 .. n] == IF k = 0 THEN 0 ELSE sum[k - 1] + f[k] IN sum

\* f[1] + ... + f[n]
SumTo(f, n) == PartialSums(f, n)[n]

\* The elements of S among the first n of seq, for every n.
PartialPicks(seq, S) ==
    LET picks[n \in 0 .. Len(seq)] ==
            IF n = 0 THEN <<>>
            ELSE IF seq[n] \in S THEN Append(picks[n - 1], seq[n])
            ELSE picks[n - 1]
    IN picks

\* The elements of seq that are in S, in the order of seq.
Picks(seq, S) == PartialPicks(seq, S)[Len(seq)]

\* The places that elements with these keys get when they are sorted: after
\* those with a smaller key, and those with an equal one that come before.
Places(key) ==
    [i \in DOMAIN key |->
        Cardinality({j \in DOMAIN key : key[j] < key[i] \/ (key[j] = key[i] /\ j <= i)})]

\* seq sorted by the keys of its elements, which are integers.
SortedBy(seq, key) ==
    LET place == Places(key)
    IN [k \in DOMAIN seq |-> seq[CHOOSE i \in DOMAIN seq : place[i] = k]]
=============================================================================

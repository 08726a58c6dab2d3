---------------------------- MODULE CountrySets ----------------------------
(***************************************************************************)
(* Which country an address is in: the tables GeoIP keeps (geoip.go), the  *)
(* merged range lists made from them for a rule (geosets.go) and the       *)
(* search of the data plane in such a list (geo.lua).                      *)
(***************************************************************************)
EXTENDS Integers, SequencesExt

CONSTANTS
    Top,        \* the largest address of a family; what comes after it is 0
    Files,      \* the datasets that can be downloaded, one per month, oldest first
    MaxRanges   \* maxGeoRanges: rows a country rule may pick

Families == {"v4", "v6"}
Addrs == [fam : Families, n : 0..Top]

\* A line of a dataset; cc is NoCode if it has no country code that can be read.
NoCode == ""
Rows == [fam : Families, lo : 0..Top, hi : 0..Top, cc : STRING]
Good(r) == r.lo <= r.hi /\ r.cc # NoCode

\* Rows of a family do not overlap in what DB-IP publishes.  Lookup depends on it: it looks
\* at no range but the first that ends at the address or after it.
ASSUME FilesAssumption ==
    /\ Top \in Nat /\ MaxRanges \in Nat
    /\ Files \in Seq(Seq(Rows))
    /\ \A m \in DOMAIN Files :
          /\ \E i \in DOMAIN Files[m] : Good(Files[m][i])
          /\ \A i, j \in DOMAIN Files[m] :
                LET r == Files[m][i]  s == Files[m][j]
                IN  Good(r) /\ Good(s) /\ i # j /\ r.fam = s.fam => r.hi < s.lo \/ s.hi < r.lo

\* The members of a set, sorted: at k is the one that k - 1 others come before.
InOrder(S, comesBefore(_, _)) ==
    LET ahead == [x \in S |-> Cardinality({y \in S : comesBefore(y, x)})]
    IN  [k \in 1..Cardinality(S) |-> CHOOSE x \in S : ahead[x] = k - 1]

\* parseCSV: unreadable lines are skipped, the rest is ordered by its upper bound.
ParseCSV(file) ==
    [f \in Families |->
        InOrder({r \in ToSet(file) : Good(r) /\ r.fam = f}, LAMBDA r, s : r.hi < s.hi)]

\* The first range that ends at the address or after it, if it starts in time.
Code(data, a) ==
    LET table == data[a.fam]
        ends == {i \in DOMAIN table : table[i].hi >= a.n}
        r == table[CHOOSE i \in ends : \A j \in ends : i <= j]
    IN  IF ends # {} /\ r.lo <= a.n THEN r.cc ELSE NoCode

\* ZZ is what the dataset has for no country.
Lookup(data, a) == IF Code(data, a) = "ZZ" THEN NoCode ELSE Code(data, a)

-----------------------------------------------------------------------------
(* geosets.go *)

\* Mutant: one address of a gap is swallowed.
TouchesLoosely(f, r, hi) == r.lo <= hi + 2

\* IPv4 ranges merge when they touch, in 32-bit arithmetic; IPv6 ones when they overlap.
Touches(f, r, hi) == r.lo <= IF f = "v4" THEN (hi + 1) % (Top + 1) ELSE hi

Merge(f, out, r) ==
    IF out # <<>> /\ Touches(f, r, Last(out).hi)
    THEN [out EXCEPT ![Len(out)].hi = IF r.hi > @ THEN r.hi ELSE @]
    ELSE Append(out, [lo |-> r.lo, hi |-> r.hi])

Picked(table, countries) ==
    InOrder({r \in ToSet(table) : r.cc \in countries}, LAMBDA r, s : r.lo < s.lo)

NoSet == [v4 |-> <<>>, v6 |-> <<>>]

\* SetFor; NoSet stands for ok = false: no list, no data, too many rows, none of the countries.
SetFor(data, countries) ==
    IF Len(Picked(data.v4, countries)) + Len(Picked(data.v6, countries)) > MaxRanges THEN NoSet
    ELSE [f \in Families |->
            FoldLeft(LAMBDA out, r : Merge(f, out, r), <<>>, Picked(data[f], countries))]

-----------------------------------------------------------------------------
(* geo.lua *)

\* in_v4, in_v6: binary search.
InList(list, n) ==
    LET search[w \in (1..(Len(list) + 1)) \X (0..Len(list))] ==
            LET lo == w[1]  hi == w[2]  mid == (lo + hi) \div 2
            IN  IF lo > hi THEN FALSE
                ELSE IF n < list[mid].lo THEN search[<<lo, mid - 1>>]
                ELSE IF n > list[mid].hi THEN search[<<mid + 1, hi>>]
                ELSE TRUE
    IN  search[<<1, Len(list)>>]

\* contains: "nil" if the set says nothing about the family of the address.
GeoContains(set, a) ==
    IF set[a.fam] = <<>> THEN "nil" ELSE IF InList(set[a.fam], a.n) THEN "in" ELSE "out"

Refuses(mode, set, a) ==
    \/ mode = "block" /\ GeoContains(set, a) = "in"
    \/ mode = "allow" /\ GeoContains(set, a) = "out"
=============================================================================

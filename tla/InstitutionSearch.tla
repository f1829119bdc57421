------------------------- MODULE InstitutionSearch -------------------------
(***************************************************************************)
(* The search over the sites of a snapshot (app/institutions/store.py,     *)
(* behind GET /institutions and /institutions/facets): filters, ranks,     *)
(* pages, and the counts shown beside the filters.                         *)
(*                                                                         *)
(* How well a query fits a site is given by a table, from 0, equal, to 2,  *)
(* contained: the comparison of letters is left out.                       *)
(***************************************************************************)
EXTENDS InstitutionSnapshots

CONSTANTS
    Blank,  \* the query without letters
    Ranks   \* for each other query, the rank of each site it fits

ASSUME RanksAssumption ==
    \A query \in DOMAIN Ranks : \A place \in DOMAIN Ranks[query] : Ranks[query][place] \in Nat

\* A filter says of four fields which value they must have, or None.
Fields == {"type", "foundation", "office", "district"}

\* What a search item shows of its site; of the office the stable value.
ItemOf(pair) ==
    [institution |-> pair[1].id, code |-> pair[2].code, name |-> pair[1].name,
     type |-> pair[1].type, foundation |-> pair[1].foundation,
     office |-> pair[1].office.of, district |-> pair[2].district]
Items(snapshot) == {ItemOf(p) : p \in ServedSites(snapshot)}

\* The office may be asked for in any spelling it is known by; an unknown one
\* fits nothing.
Fits(item, filter) ==
    /\ filter.type \in {None, item.type}
    /\ filter.foundation \in {None, item.foundation}
    /\ filter.office # None => IsKnownOffice(filter.office) /\ filter.office.of = item.office
    /\ filter.district \in {None, item.district}

\* A blank query fits every site equally well.
FitsQuery(query, item) == query = Blank \/ <<item.institution, item.code>> \in DOMAIN Ranks[query]
Rank(query, item) == IF query = Blank THEN 0 ELSE Ranks[query][<<item.institution, item.code>>]

\* By rank, then by name, then by the id of the site.
Before(query, one, other) ==
    LET KeyOf(item) == <<Rank(query, item), item.name, item.institution, item.code>>
        a == KeyOf(one)
        b == KeyOf(other)
    IN \E i \in 1..4 : a[i] < b[i] /\ \A j \in 1..(i - 1) : a[j] = b[j]
Matches(snapshot, query, filter) ==
    LET found == {item \in Items(snapshot) : Fits(item, filter) /\ FitsQuery(query, item)}
    IN [i \in 1..Cardinality(found) |->
          CHOOSE item \in found :
            Cardinality({other \in found : Before(query, other, item)}) = i - 1]

SearchPage_oneBack(snapshot, query, filter, limit, offset) ==
    LET matches == Matches(snapshot, query, filter)
        items == SubSeq(matches, offset + 1,
                        IF offset + limit < Len(matches) THEN offset + limit ELSE Len(matches))
        next == offset + Len(items)
    IN [items |-> items, total |-> Len(matches), snapshot |-> snapshot.id,
        next |-> IF next < Len(matches) - 1 THEN next ELSE None]
SearchPage(snapshot, query, filter, limit, offset) ==
    LET matches == Matches(snapshot, query, filter)
        items == SubSeq(matches, offset + 1,
                        IF offset + limit < Len(matches) THEN offset + limit ELSE Len(matches))
        next == offset + Len(items)
    IN [items |-> items, total |-> Len(matches), snapshot |-> snapshot.id,
        next |-> IF next < Len(matches) THEN next ELSE None]

\* The options beside a field: each value with the number of its sites.
Facet(snapshot, field) == CountsOf(Items(snapshot), LAMBDA item : item[field])
=============================================================================

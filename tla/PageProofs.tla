------------------------------ MODULE PageProofs ------------------------------
(***************************************************************************)
(* What holds of HistoryPanel and TripPage for any number of rows, pages,  *)
(* calls, previews, institutions, places and settings.                     *)
(*                                                                         *)
(* First the panel, whose handlers are operators from a panel to a panel:  *)
(* the invariant is a predicate on a panel and on the rows of the world    *)
(* around it.  Then the page: what it does to the panel is what the panel  *)
(* may do, so the panel's theorems are the page's too; and its own.        *)
(***************************************************************************)
EXTENDS TripPage, SequenceTheorems, TLAPS

-----------------------------------------------------------------------------
(* The invariant of the panel *)

Descending(rows) == \A i, j \in DOMAIN rows : i < j => rows[i] > rows[j]

\* What is listed: of the rows st that are stored and were when the list was
\* begun, with be the newest, none is missing down to the next cursor; and none
\* of the rows go, whose deletion was answered.
ListFits(p, st, go, be) ==
    /\ ~p.authenticated =>
         ~p.loadedOnce /\ p.activeDetail = 0 /\ ~p.listOpen /\ ~p.detailOpen
    /\ ~p.loadedOnce => p.nextCursor = 0 /\ p.rows = <<>>
    /\ p.nextCursor <= be
    /\ Descending(p.rows)
    /\ \A x \in Range(p.rows) : x >= p.nextCursor
    /\ p.loadedOnce => st \cap (p.nextCursor .. be) \subseteq Range(p.rows)
    /\ go \cap Range(p.rows) = {}

\* What is on its way: a page that counts continues the list, and one that does
\* not came to a list that is to be started afresh.
LoadFits(p, st, go, be) ==
    LET load == p.loading
    IN /\ p.refreshPending => p.authenticated /\ load # Idle
       /\ load # Idle /\ ~load.current => ~p.loadedOnce
       /\ load # Idle /\ load.current =>
            /\ p.authenticated /\ load.cursor = p.nextCursor
            /\ p.loadedOnce <=> p.nextCursor # 0
       /\ load.stage = "read" /\ load.current =>
            /\ Descending(load.items)
            /\ \A x \in Range(load.items) :
                 x >= load.next /\ (load.cursor # 0 => x < load.cursor)
            /\ load.next <= be /\ (load.cursor # 0 => load.next < load.cursor)
            /\ st \cap (load.next .. IF load.cursor = 0 THEN be ELSE load.cursor - 1)
                 \subseteq Range(load.items)
            /\ go \cap Range(load.items) = {}

Good(p, st, go, be) == p \in Panel /\ ListFits(p, st, go, be) /\ LoadFits(p, st, go, be)

\* The rows, and the calls that deleted some.
World ==
    /\ calls \in [Call -> {Idle} \cup Working]
    /\ newest \in Row \cup {0} /\ begun \in 0..newest
    /\ stored \subseteq 1..newest /\ saved \subseteq stored /\ gone \subseteq 1..newest
    /\ gone \cap stored = {}
    /\ \A c \in Call :
         /\ IsDone(c, {"deleteOne", "deleteAll"}) => calls[c].rows \subseteq (1..newest) \ stored
         /\ calls[c] # Idle /\ calls[c].kind # "deleteAll" => \E x \in Row : calls[c].rows = {x}

Unknown == session = "asked" => ~panel.authenticated /\ panel.loading = Idle

IInv ==
    /\ session \in {"asked", "answered"}
    /\ Good(panel, stored, gone, begun) /\ World /\ Unknown

-----------------------------------------------------------------------------
(* Pages on their way *)

LEMMA LoadCases ==
    ASSUME NEW load \in Load
    PROVE  /\ load = Idle <=> load.stage = "idle"
           /\ load # Idle => /\ load.stage \in {"asked", "read"}
                             /\ load.cursor \in Row \cup {0} /\ load.current \in BOOLEAN
           /\ load.stage = "read" => load.items \in Seq(Row) /\ load.next \in Row \cup {0}
BY DEF Load, Idle

LEMMA AskedFacts ==
    ASSUME NEW cursor \in Row \cup {0}
    PROVE  /\ Asked(cursor) \in Load /\ Asked(cursor) # Idle
           /\ Asked(cursor).stage = "asked" /\ Asked(cursor).cursor = cursor
           /\ Asked(cursor).current
BY DEF Asked, Load, Idle

LEMMA OutdatedFacts ==
    ASSUME NEW load \in Load
    PROVE  /\ Outdated(load) \in Load
           /\ Outdated(load) = Idle <=> load = Idle
           /\ load # Idle => Outdated(load).current = FALSE
<1>1. CASE load = Idle
  BY <1>1 DEF Outdated
<1>2. CASE load \in [stage: {"asked"}, cursor: Row \cup {0}, current: BOOLEAN]
  BY <1>2 DEF Outdated, Load, Idle
<1>3. CASE load \in [stage: {"read"}, cursor: Row \cup {0}, current: BOOLEAN, items: Seq(Row),
                     next: Row \cup {0}]
  BY <1>3 DEF Outdated, Load, Idle
<1> QED BY <1>1, <1>2, <1>3 DEF Load

-----------------------------------------------------------------------------
(* The handlers of the panel *)

\* A list that is to be started afresh fits whatever the world is like.
Blank(p) ==
    /\ p \in Panel
    /\ ~p.loadedOnce /\ p.nextCursor = 0 /\ p.rows = <<>>
    /\ p.loading # Idle => ~p.loading.current
    /\ p.refreshPending => p.authenticated /\ p.loading # Idle
    /\ ~p.authenticated => p.activeDetail = 0 /\ ~p.listOpen /\ ~p.detailOpen

LEMMA BlankIsGood ==
    ASSUME NEW p, Blank(p), NEW st, NEW go, NEW be \in Nat
    PROVE  Good(p, st, go, be)
<1>1. Range(p.rows) = {} /\ Descending(p.rows)
  BY DEF Blank, Range, Descending
<1>2. ListFits(p, st, go, be)
  BY <1>1 DEF Blank, ListFits
<1>3. p.loading \in Load
  BY DEF Blank, Panel
<1>4. p.loading.stage = "read" => p.loading # Idle
  BY <1>3, LoadCases
<1>5. LoadFits(p, st, go, be)
  BY <1>4 DEF Blank, LoadFits
<1> QED BY <1>2, <1>5 DEF Good, Blank

\* Without a session, there is nothing to be started afresh.
LEMMA UnauthenticatedIsBlank ==
    ASSUME NEW p, NEW st, NEW go, NEW be, Good(p, st, go, be), ~p.authenticated
    PROVE  Blank(p)
BY DEF Good, ListFits, LoadFits, Blank

\* history.js, loadNext
LEMMA LoadNextGood ==
    ASSUME NEW p, NEW st, NEW go, NEW be, Good(p, st, go, be)
    PROVE  Good(LoadNext(p), st, go, be)
<1> DEFINE load == Asked(p.nextCursor)
           q == [p EXCEPT !.loading = load]
<1>1. p \in Panel /\ ListFits(p, st, go, be) /\ LoadFits(p, st, go, be)
  BY DEF Good
<1>2. CASE ~p.authenticated \/ p.loading # Idle \/ (p.loadedOnce /\ p.nextCursor = 0)
  BY <1>2 DEF LoadNext
<1>3. CASE p.authenticated /\ p.loading = Idle /\ ~(p.loadedOnce /\ p.nextCursor = 0)
  <2>1. LoadNext(p) = q
    BY <1>3 DEF LoadNext
  <2>2. p.nextCursor \in Row \cup {0}
    BY <1>1 DEF Panel
  <2>3. /\ load \in Load /\ load # Idle /\ load.stage = "asked"
        /\ load.cursor = p.nextCursor /\ load.current
    BY <2>2, AskedFacts
  <2> HIDE DEF load
  <2>4. /\ q \in Panel /\ q.loading = load /\ q.authenticated = p.authenticated
        /\ q.loadedOnce = p.loadedOnce /\ q.activeDetail = p.activeDetail
        /\ q.listOpen = p.listOpen /\ q.detailOpen = p.detailOpen
        /\ q.nextCursor = p.nextCursor /\ q.rows = p.rows
    BY <1>1, <2>3 DEF Panel
  <2> HIDE DEF q
  <2>5. ListFits(q, st, go, be)
    BY <1>1, <2>4 DEF ListFits
  <2>6. p.loadedOnce <=> p.nextCursor # 0
    BY <1>1, <1>3 DEF ListFits
  <2>7. LoadFits(q, st, go, be)
    BY <1>3, <2>3, <2>4, <2>6 DEF LoadFits
  <2> QED BY <2>1, <2>4, <2>5, <2>7 DEF Good
<1> QED BY <1>2, <1>3

\* history.js, refresh: whatever was listed or on its way does not count.
LEMMA RefreshGood ==
    ASSUME NEW p, NEW st, NEW go, NEW be \in Nat,
           p \in Panel, ~p.authenticated => Blank(p), p.refreshPending => p.loading # Idle
    PROVE  Good(Refresh(p), st, go, be)
<1> DEFINE fresh == [p EXCEPT !.activeDetail = 0, !.loadedOnce = FALSE, !.nextCursor = 0,
                              !.rows = <<>>, !.loadFailed = FALSE, !.loading = Outdated(@)]
           later == [fresh EXCEPT !.refreshPending = TRUE]
<1>1. p.loading \in Load
  BY DEF Panel
<1>2. /\ Outdated(p.loading) \in Load
      /\ Outdated(p.loading) = Idle <=> p.loading = Idle
      /\ p.loading # Idle => ~Outdated(p.loading).current
  BY <1>1, OutdatedFacts
<1>3. <<>> \in Seq(Row)
  BY EmptySeq
<1>4. /\ fresh \in Panel /\ fresh.loading = Outdated(p.loading)
      /\ fresh.loadedOnce = FALSE /\ fresh.nextCursor = 0 /\ fresh.rows = <<>>
      /\ fresh.authenticated = p.authenticated /\ fresh.refreshPending = p.refreshPending
  BY <1>2, <1>3 DEF Panel
<1> HIDE DEF fresh
<1>5. /\ later \in Panel /\ later.loading = fresh.loading
      /\ later.loadedOnce = FALSE /\ later.nextCursor = 0 /\ later.rows = <<>>
      /\ later.authenticated = fresh.authenticated
  BY <1>4 DEF Panel
<1> HIDE DEF later
<1>6. CASE ~p.authenticated
  BY <1>6, BlankIsGood DEF Refresh
<1>7. CASE p.authenticated /\ p.loading # Idle
  <2>1. Blank(later)
    BY <1>2, <1>4, <1>5, <1>7 DEF Blank
  <2>2. Refresh(p) = later
    BY <1>7 DEF Refresh, later, fresh
  <2> QED BY <2>1, <2>2, BlankIsGood
<1>8. CASE p.authenticated /\ p.loading = Idle /\ ~p.refreshPending
  <2>1. Blank(fresh)
    BY <1>2, <1>4, <1>8 DEF Blank
  <2>2. Refresh(p) = LoadNext(fresh)
    BY <1>8 DEF Refresh, fresh
  <2> QED BY <2>1, <2>2, BlankIsGood, LoadNextGood
<1> QED BY <1>6, <1>7, <1>8

\* What the dialogs leave alone.
SameList(p, q) ==
    /\ q.authenticated = p.authenticated /\ q.loadedOnce = p.loadedOnce
    /\ q.nextCursor = p.nextCursor /\ q.rows = p.rows
    /\ q.loading = p.loading /\ q.refreshPending = p.refreshPending

LEMMA DialogsKeepGood ==
    ASSUME NEW p, NEW st, NEW go, NEW be, Good(p, st, go, be),
           NEW q \in Panel, SameList(p, q),
           ~q.authenticated => q.activeDetail = 0 /\ ~q.listOpen /\ ~q.detailOpen
    PROVE  Good(q, st, go, be)
<1>1. ListFits(q, st, go, be)
  BY DEF Good, ListFits, SameList
<1>2. LoadFits(q, st, go, be)
  BY DEF Good, LoadFits, SameList
<1> QED BY <1>1, <1>2 DEF Good

LEMMA CloseDetailFacts ==
    ASSUME NEW p \in Panel
    PROVE  LET q == CloseDetail(p)
           IN /\ q \in Panel /\ SameList(p, q) /\ q.activeDetail = p.activeDetail
              /\ ~q.detailOpen
              /\ q.listOpen => p.listOpen \/ p.authenticated
<1>1. CASE ~p.detailOpen
  BY <1>1 DEF CloseDetail, SameList
<1>2. CASE p.detailOpen
  <2> DEFINE back == p.listOpen \/ (p.restoreListAfterDetail /\ p.authenticated)
             q == [p EXCEPT !.detailOpen = FALSE, !.restoreListAfterDetail = FALSE,
                            !.listOpen = back]
  <2>1. back \in BOOLEAN /\ (back => p.listOpen \/ p.authenticated)
    OBVIOUS
  <2>2. CloseDetail(p) = q
    BY <1>2 DEF CloseDetail
  <2> HIDE DEF back
  <2>3. /\ q \in Panel /\ SameList(p, q) /\ q.activeDetail = p.activeDetail
        /\ q.detailOpen = FALSE /\ q.listOpen = back
    BY <2>1 DEF Panel, SameList
  <2> HIDE DEF q
  <2> QED BY <2>1, <2>2, <2>3
<1> QED BY <1>1, <1>2

LEMMA LeaveDetailFacts ==
    ASSUME NEW p \in Panel
    PROVE  LET q == LeaveDetail(p)
           IN /\ q \in Panel /\ SameList(p, q) /\ q.activeDetail = p.activeDetail
              /\ ~q.detailOpen
              /\ q.listOpen => p.listOpen \/ p.authenticated
<1> DEFINE r == [p EXCEPT !.restoreListAfterDetail = FALSE]
<1>1. /\ r \in Panel /\ SameList(p, r) /\ r.activeDetail = p.activeDetail
      /\ r.listOpen = p.listOpen
  BY DEF Panel, SameList
<1> HIDE DEF r
<1>2. LET q == CloseDetail(r)
      IN /\ q \in Panel /\ SameList(r, q) /\ q.activeDetail = r.activeDetail
         /\ ~q.detailOpen
         /\ q.listOpen => r.listOpen \/ r.authenticated
  BY <1>1, CloseDetailFacts
<1> QED BY <1>1, <1>2 DEF LeaveDetail, SameList, r

\* The finally block of loadNext, when the list is as it is to be.
LEMMA LoadedGood ==
    ASSUME NEW p \in Panel, NEW st, NEW go, NEW be, ListFits(p, st, go, be),
           p.refreshPending => p.authenticated
    PROVE  Good(Loaded(p), st, go, be)
<1> DEFINE free == [p EXCEPT !.loading = Idle]
           calm == [free EXCEPT !.refreshPending = FALSE]
<1>1. Idle \in Load
  BY DEF Load
<1>2. /\ free \in Panel /\ free.loading = Idle /\ free.refreshPending = p.refreshPending
      /\ free.authenticated = p.authenticated
      /\ free.loadedOnce = p.loadedOnce /\ free.activeDetail = p.activeDetail
      /\ free.listOpen = p.listOpen /\ free.detailOpen = p.detailOpen
      /\ free.nextCursor = p.nextCursor /\ free.rows = p.rows
  BY <1>1 DEF Panel
<1>3. Loaded(p) = IF p.refreshPending /\ p.authenticated THEN LoadNext(calm) ELSE free
  BY DEF Loaded
<1> HIDE DEF free
<1>4. /\ calm \in Panel /\ calm.loading = Idle /\ ~calm.refreshPending
      /\ calm.authenticated = free.authenticated
      /\ calm.loadedOnce = free.loadedOnce /\ calm.activeDetail = free.activeDetail
      /\ calm.listOpen = free.listOpen /\ calm.detailOpen = free.detailOpen
      /\ calm.nextCursor = free.nextCursor /\ calm.rows = free.rows
  BY <1>2 DEF Panel
<1> HIDE DEF calm
<1>5. Idle.stage = "idle"
  BY DEF Idle
<1>6. ListFits(free, st, go, be) /\ ListFits(calm, st, go, be)
  BY <1>2, <1>4 DEF ListFits
<1>7. CASE p.refreshPending
  <2>1. LoadFits(calm, st, go, be)
    BY <1>4, <1>5 DEF LoadFits
  <2>2. Good(calm, st, go, be)
    BY <1>4, <1>6, <2>1 DEF Good
  <2> QED BY <1>3, <1>7, <2>2, LoadNextGood
<1>8. CASE ~p.refreshPending
  <2>1. LoadFits(free, st, go, be)
    BY <1>2, <1>5, <1>8 DEF LoadFits
  <2> QED BY <1>2, <1>3, <1>6, <1>8, <2>1 DEF Good
<1> QED BY <1>7, <1>8

\* history.js: nothing was listed before anybody was known.
LEMMA LoggedInGood ==
    ASSUME NEW p, Blank(p), p.loading = Idle, ~p.refreshPending, NEW st, NEW go, NEW be \in Nat
    PROVE  Good(LoggedIn(p), st, go, be)
<1> DEFINE in == [p EXCEPT !.authenticated = TRUE]
           again == [in EXCEPT !.refreshAfterSavedPreview = FALSE]
<1>1. /\ in \in Panel /\ in.authenticated = TRUE /\ in.loading = Idle
      /\ in.refreshPending = p.refreshPending
      /\ in.loadedOnce = p.loadedOnce /\ in.nextCursor = p.nextCursor /\ in.rows = p.rows
  BY DEF Blank, Panel
<1>2. LoggedIn(p) = IF p.refreshAfterSavedPreview THEN Refresh(again) ELSE in
  BY DEF LoggedIn
<1> HIDE DEF in
<1>3. again \in Panel /\ again.authenticated = TRUE /\ again.refreshPending = in.refreshPending
  BY <1>1 DEF Panel
<1> HIDE DEF again
<1>4. Blank(in)
  BY <1>1 DEF Blank
<1>5. Good(in, st, go, be)
  BY <1>4, BlankIsGood
<1>6. Good(Refresh(again), st, go, be)
  BY <1>1, <1>3, RefreshGood
<1> QED BY <1>2, <1>5, <1>6

LEMMA LoggedOutIsBlank ==
    ASSUME NEW p \in Panel
    PROVE  LET q == LoggedOut(p) IN Blank(q) /\ q.authenticated = FALSE
<1> DEFINE l == LeaveDetail(p)
           q == [l EXCEPT !.authenticated = FALSE,
                    !.loading = Outdated(@), !.refreshPending = FALSE,
                    !.refreshAfterSavedPreview = FALSE, !.listOpen = FALSE,
                    !.activeDetail = 0, !.loadedOnce = FALSE, !.nextCursor = 0,
                    !.rows = <<>>, !.loadFailed = FALSE]
<1>1. l \in Panel /\ l.detailOpen = FALSE
  BY LeaveDetailFacts DEF Panel
<1>2. LoggedOut(p) = q
  BY DEF LoggedOut
<1> HIDE DEF l
<1>3. l.loading \in Load
  BY <1>1 DEF Panel
<1>4. /\ Outdated(l.loading) \in Load
      /\ Outdated(l.loading) = Idle <=> l.loading = Idle
      /\ l.loading # Idle => ~Outdated(l.loading).current
  BY <1>3, OutdatedFacts
<1>5. <<>> \in Seq(Row)
  BY EmptySeq
<1>6. /\ q \in Panel /\ q.authenticated = FALSE /\ q.loading = Outdated(l.loading)
      /\ q.refreshPending = FALSE /\ q.listOpen = FALSE /\ q.activeDetail = 0
      /\ q.loadedOnce = FALSE /\ q.nextCursor = 0 /\ q.rows = <<>>
      /\ q.detailOpen = FALSE
  BY <1>1, <1>4, <1>5 DEF Panel
<1> HIDE DEF q
<1> QED BY <1>2, <1>4, <1>6 DEF Blank

-----------------------------------------------------------------------------
(* The list and its pages *)

\* Rows that are deleted, or saved after the list was begun, take nothing away
\* from what it shows.
LEMMA RowsComeAndGo ==
    ASSUME NEW p, NEW st, NEW go, NEW be \in Nat, Good(p, st, go, be),
           NEW st2, \A x \in st2 : x \in st \/ ~(x <= be)
    PROVE  Good(p, st2, go, be)
<1>1. p.loading \in Load /\ p.nextCursor \in Nat
  BY DEF Good, Panel, Row
<1>2. ListFits(p, st2, go, be)
  <2>1. st2 \cap (p.nextCursor .. be) \subseteq st \cap (p.nextCursor .. be)
    BY <1>1
  <2> QED BY <2>1 DEF Good, ListFits
<1>3. ASSUME p.loading.stage = "read", p.loading.current
      PROVE  st2 \cap (p.loading.next .. IF p.loading.cursor = 0 THEN be ELSE p.loading.cursor - 1)
               \subseteq st \cap (p.loading.next .. IF p.loading.cursor = 0 THEN be
                                                   ELSE p.loading.cursor - 1)
  <2>1. p.loading # Idle /\ p.loading.next \in Nat /\ p.loading.cursor \in Nat
    BY <1>1, <1>3, LoadCases DEF Row
  <2>2. p.loading.cursor <= be
    BY <1>1, <1>3, <2>1 DEF Good, LoadFits, ListFits
  <2> QED BY <2>1, <2>2
<1>4. LoadFits(p, st2, go, be)
  BY <1>3 DEF Good, LoadFits
<1> QED BY <1>2, <1>4 DEF Good

\* A step of the panel alone.
LEMMA PanelStep ==
    ASSUME IInv, Unchanged, UNCHANGED calls, Good(panel', stored, gone, begun),
           \/ panel.authenticated
           \/ panel.loading # Idle
           \/ panel'.authenticated = panel.authenticated /\ panel'.loading = panel.loading
    PROVE  IInv'
<1>1. /\ session' = session /\ stored' = stored /\ newest' = newest /\ gone' = gone
      /\ saved' = saved /\ begun' = begun /\ calls' = calls
  BY DEF Unchanged
<1>2. World'
  BY <1>1 DEF IInv, World, IsDone
<1>3. Unknown'
  BY <1>1 DEF IInv, Unknown
<1> QED BY <1>1, <1>2, <1>3 DEF IInv

\* A page of rows below a cursor leaves out none of them but at its end.
LEMMA PageFacts ==
    ASSUME NEW rows, rows \subseteq Row, NEW items \in SeqOf(rows, PageSize),
           IsPageOf(items, rows)
    PROVE  LET next == IF Range(items) = rows THEN 0 ELSE Last(items)
           IN /\ items \in Seq(Row) /\ Descending(items) /\ Range(items) \subseteq rows
              /\ next \in Row \cup {0} /\ (next # 0 => next \in rows)
              /\ \A x \in Range(items) : x >= next
              /\ \A x \in rows : x >= next => x \in Range(items)
<1>1. PICK n \in 0..PageSize : items \in [1..n -> rows]
  BY DEF SeqOf
<1>2. n \in Nat /\ PageSize \in Nat \ {0} /\ MaxRow \in Nat
  BY <1>1, PanelAssumption
<1>3. items \in Seq(rows) /\ Len(items) = n /\ DOMAIN items = 1..n
  BY <1>1, <1>2
<1>4. items \in Seq(Row)
  BY <1>3, SeqMonotonic
<1>5. Descending(items) /\ Range(items) \subseteq rows
  BY DEF IsPageOf, Descending
<1>0. \A x \in rows : x \in Nat /\ x # 0
  BY <1>2 DEF Row
<1>6. CASE Range(items) = rows
  <2>1. \A x \in Range(items) : x >= 0
    BY <1>0, <1>6
  <2> QED BY <1>4, <1>5, <1>6, <2>1
<1>7. CASE Range(items) # rows
  <2>1. PICK y \in rows : y \notin Range(items)
    BY <1>5, <1>7
  <2>2. n = PageSize /\ n \in 1..n
    BY <1>2, <1>3, <2>1 DEF IsPageOf
  <2>3. Last(items) = items[n] /\ items[n] \in rows /\ items[n] \in Row
    BY <1>1, <1>3, <2>2 DEF Last
  <2>4. ASSUME NEW x \in Range(items)
        PROVE  x >= Last(items)
    <3>1. PICK i \in 1..n : x = items[i]
      BY <1>3 DEF Range
    <3>2. i < n => items[i] > items[n]
      BY <1>3, <2>2 DEF IsPageOf
    <3>3. items[i] \in rows /\ items[n] \in rows
      BY <1>1, <2>2
    <3>4. items[i] \in Nat /\ items[n] \in Nat
      BY <1>0, <3>3
    <3> QED BY <1>2, <2>3, <3>1, <3>2, <3>4
  <2>5. ASSUME NEW x \in rows, x >= Last(items)
        PROVE  x \in Range(items)
    <3>1. x \in Nat /\ Last(items) \in Nat
      BY <1>2, <2>3 DEF Row
    <3> QED BY <2>5, <3>1 DEF IsPageOf
  <2>6. Last(items) # 0
    BY <1>2, <2>3 DEF Row
  <2> QED BY <1>4, <1>5, <1>7, <2>3, <2>4, <2>5, <2>6
<1> QED BY <1>6, <1>7

LEMMA ReadPageGood ==
    ASSUME IInv, ReadPage
    PROVE  IInv'
<1> DEFINE load == panel.loading
           below == {x \in stored : load.cursor = 0 \/ x < load.cursor}
<1>1. PICK items \in SeqOf(below, PageSize) :
        /\ IsPageOf(items, below)
        /\ panel' = [panel EXCEPT !.loading =
             [stage |-> "read", cursor |-> @.cursor, current |-> @.current, items |-> items,
              next |-> IF Range(items) = below THEN 0 ELSE Last(items)]]
  BY DEF ReadPage
<1>2. /\ load.stage = "asked"
      /\ begun' = IF load.cursor = 0 THEN newest ELSE begun
      /\ session' = session /\ stored' = stored /\ newest' = newest /\ gone' = gone
      /\ saved' = saved /\ calls' = calls
  BY DEF ReadPage
<1>3. /\ panel \in Panel /\ ListFits(panel, stored, gone, begun)
      /\ LoadFits(panel, stored, gone, begun) /\ load \in Load
      /\ stored \subseteq 1..newest /\ stored \subseteq Row /\ gone \cap stored = {}
      /\ newest \in Nat /\ begun \in Nat /\ begun <= newest /\ begun \in 0..newest
  BY PanelAssumption DEF IInv, Good, World, Panel, Row
<1>4. load # Idle /\ load.cursor \in Row \cup {0} /\ load.cursor \in Nat /\ load.current \in BOOLEAN
  BY <1>2, <1>3, LoadCases DEF Row
<1> DEFINE next == IF Range(items) = below THEN 0 ELSE Last(items)
           fetched == [stage |-> "read", cursor |-> load.cursor, current |-> load.current,
                       items |-> items, next |-> next]
<1>5. /\ items \in Seq(Row) /\ Descending(items) /\ Range(items) \subseteq below
      /\ next \in Row \cup {0} /\ (next # 0 => next \in below)
      /\ \A x \in Range(items) : x >= next
      /\ \A x \in below : x >= next => x \in Range(items)
  <2>1. below \subseteq Row
    BY <1>3
  <2> HIDE DEF below
  <2> QED BY <1>1, <2>1, PageFacts
<1>6. panel' = [panel EXCEPT !.loading = fetched]
  BY <1>1, <1>3 DEF Panel
<1> HIDE DEF next
<1>7. fetched \in Load /\ fetched # Idle
  BY <1>4, <1>5 DEF Load, Idle
<1>8. /\ fetched.stage = "read" /\ fetched.cursor = load.cursor /\ fetched.current = load.current
      /\ fetched.items = items /\ fetched.next = next
  OBVIOUS
<1> HIDE DEF fetched
<1>9. /\ panel' \in Panel /\ panel'.loading = fetched
      /\ panel'.authenticated = panel.authenticated
      /\ panel'.refreshPending = panel.refreshPending
      /\ panel'.loadedOnce = panel.loadedOnce /\ panel'.activeDetail = panel.activeDetail
      /\ panel'.listOpen = panel.listOpen /\ panel'.detailOpen = panel.detailOpen
      /\ panel'.nextCursor = panel.nextCursor /\ panel'.rows = panel.rows
  BY <1>3, <1>6, <1>7 DEF Panel
<1>10. begun' \in 0..newest /\ begun <= begun' /\ begun' \in Nat
  BY <1>2, <1>3
<1>11. load.cursor = 0 => ~panel.loadedOnce
  BY <1>3, <1>4 DEF LoadFits
<1>12. panel.nextCursor \in Nat
  BY <1>3 DEF Panel, Row
<1>13. ListFits(panel', stored, gone, begun')
  <2>1. panel.loadedOnce => begun' = begun
    BY <1>2, <1>11
  <2>2. panel.nextCursor <= begun'
    BY <1>3, <1>10, <1>12 DEF ListFits
  <2> QED BY <1>3, <1>9, <2>1, <2>2 DEF ListFits
<1>14. LoadFits(panel', stored, gone, begun')
  <2>1. \A x \in Range(items) : x \in stored /\ (load.cursor # 0 => x < load.cursor)
    BY <1>5
  <2>2. gone \cap Range(items) = {}
    BY <1>3, <2>1
  <2>3. load.cursor # 0 => next < load.cursor
    BY <1>4, <1>5
  <2>4. load.current => next <= begun'
    <3>1. CASE load.cursor = 0
      BY <1>2, <1>3, <1>5, <3>1
    <3>2. CASE load.cursor # 0 /\ load.current
      <4>1. load.cursor <= begun
        BY <1>3, <1>4, <3>2 DEF LoadFits, ListFits
      <4>2. next \in Nat
        BY <1>5 DEF Row
      <4> QED BY <1>2, <1>3, <1>4, <2>3, <3>2, <4>1, <4>2
    <3> QED BY <3>1, <3>2
  <2>5. stored \cap (next .. IF load.cursor = 0 THEN begun' ELSE load.cursor - 1)
          \subseteq Range(items)
    <3> SUFFICES ASSUME NEW x \in stored,
                        x \in next .. IF load.cursor = 0 THEN begun' ELSE load.cursor - 1
                 PROVE  x \in Range(items)
      OBVIOUS
    <3>1. next \in Nat /\ x \in Nat /\ x >= next
      BY <1>3, <1>4, <1>5, <1>10 DEF Row
    <3>2. x \in below
      BY <1>4, <3>1
    <3> QED BY <1>5, <3>1, <3>2
  <2>6. \A x \in Range(items) : x >= next
    BY <1>5
  <2>7. Descending(items)
    BY <1>5
  <2> HIDE DEF below
  <2>8. /\ load.cursor = panel'.nextCursor <=> load.cursor = panel.nextCursor
        /\ LET l == panel'.loading
           IN /\ l # Idle /\ l.stage = "read" /\ l.cursor = load.cursor
              /\ l.current = load.current /\ l.items = items /\ l.next = next
    BY <1>7, <1>8, <1>9
  <2> QED BY <1>3, <1>4, <1>9, <2>1, <2>2, <2>3, <2>4, <2>5, <2>6, <2>7, <2>8 DEF LoadFits
<1>15. World'
  BY <1>2, <1>10 DEF IInv, World, IsDone
<1>16. Unknown'
  BY <1>2, <1>4 DEF IInv, Unknown
<1>17. Good(panel', stored', gone', begun')
  BY <1>2, <1>9, <1>13, <1>14 DEF Good
<1> QED BY <1>2, <1>15, <1>16, <1>17 DEF IInv

LEMMA RangeOfRows ==
    ASSUME NEW rows \in Seq(Row), NEW x \in Range(rows)
    PROVE  x \in Row /\ x \in Nat
<1>1. PICK i \in 1..Len(rows) : x = rows[i]
  BY LenProperties DEF Range
<1>2. x \in Row
  BY <1>1, ElementOfSeq
<1> QED BY <1>2 DEF Row

\* Rows all of which are older than those listed go below them.
LEMMA JoinFacts ==
    ASSUME NEW a \in Seq(Row), NEW b \in Seq(Row), Descending(a), Descending(b),
           \A x \in Range(a), y \in Range(b) : x > y
    PROVE  /\ a \o b \in Seq(Row) /\ Descending(a \o b)
           /\ Range(a \o b) = Range(a) \cup Range(b)
<1>1. /\ a \o b \in Seq(Row) /\ Len(a \o b) = Len(a) + Len(b)
      /\ \A i \in 1 .. Len(a) + Len(b) :
           (a \o b)[i] = IF i <= Len(a) THEN a[i] ELSE b[i - Len(a)]
  BY ConcatProperties
<1>2. /\ DOMAIN a = 1..Len(a) /\ DOMAIN b = 1..Len(b) /\ DOMAIN (a \o b) = 1 .. Len(a) + Len(b)
      /\ Len(a) \in Nat /\ Len(b) \in Nat
  BY <1>1, LenProperties
<1> DEFINE c == a \o b
<1> HIDE DEF c
<1>3. ASSUME NEW i \in 1..Len(a)
      PROVE  c[i] = a[i] /\ a[i] \in Range(a) /\ i \in DOMAIN c
  <2>1. i \in 1 .. Len(a) + Len(b) /\ i <= Len(a)
    BY <1>2
  <2> QED BY <1>1, <1>2, <2>1 DEF c, Range
<1>4. ASSUME NEW j \in 1..Len(b)
      PROVE  c[Len(a) + j] = b[j] /\ b[j] \in Range(b) /\ Len(a) + j \in DOMAIN c
  <2>1. Len(a) + j \in 1 .. Len(a) + Len(b) /\ ~(Len(a) + j <= Len(a)) /\ Len(a) + j - Len(a) = j
    BY <1>2
  <2> QED BY <1>1, <1>2, <2>1 DEF c, Range
<1>5. ASSUME NEW i \in DOMAIN c
      PROVE  i \in 1..Len(a) \/ \E j \in 1..Len(b) : i = Len(a) + j
  <2>1. i \in 1 .. Len(a) + Len(b)
    BY <1>2 DEF c
  <2>2. CASE i > Len(a)
    <3>1. i - Len(a) \in 1..Len(b) /\ i = Len(a) + (i - Len(a))
      BY <1>2, <2>1, <2>2
    <3> QED BY <3>1
  <2> QED BY <1>2, <2>1, <2>2
<1>6. Range(c) = Range(a) \cup Range(b)
  <2>1. ASSUME NEW x \in Range(c)
        PROVE  x \in Range(a) \cup Range(b)
    <3>1. PICK i \in DOMAIN c : x = c[i]
      BY DEF Range
    <3> QED BY <1>3, <1>4, <1>5, <3>1
  <2>2. ASSUME NEW x \in Range(a)
        PROVE  x \in Range(c)
    <3>1. PICK i \in 1..Len(a) : x = a[i]
      BY <1>2 DEF Range
    <3> QED BY <1>3, <3>1 DEF Range
  <2>3. ASSUME NEW x \in Range(b)
        PROVE  x \in Range(c)
    <3>1. PICK j \in 1..Len(b) : x = b[j]
      BY <1>2 DEF Range
    <3> QED BY <1>4, <3>1 DEF Range
  <2> QED BY <2>1, <2>2, <2>3
<1>7. ASSUME NEW i \in DOMAIN c, NEW j \in DOMAIN c, i < j
      PROVE  c[i] > c[j]
  <2>1. CASE i \in 1..Len(a) /\ j \in 1..Len(a)
    BY <1>2, <1>3, <1>7, <2>1 DEF Descending
  <2>2. CASE i \in 1..Len(a) /\ \E k \in 1..Len(b) : j = Len(a) + k
    BY <1>3, <1>4, <2>2
  <2>3. CASE (\E k \in 1..Len(b) : i = Len(a) + k) /\ j \in 1..Len(a)
    BY <1>2, <1>7, <2>3
  <2>4. CASE (\E k \in 1..Len(b) : i = Len(a) + k) /\ (\E k \in 1..Len(b) : j = Len(a) + k)
    <3>1. PICK k \in 1..Len(b), l \in 1..Len(b) : i = Len(a) + k /\ j = Len(a) + l
      BY <2>4
    <3>2. k < l
      BY <1>2, <1>7, <3>1
    <3>3. b[k] > b[l]
      BY <1>2, <3>2 DEF Descending
    <3> QED BY <1>4, <3>1, <3>3
  <2> QED BY <1>5, <2>1, <2>2, <2>3, <2>4
<1> QED BY <1>1, <1>6, <1>7 DEF Descending, c

LEMMA ShowPageGood ==
    ASSUME IInv, ShowPage
    PROVE  IInv'
<1> DEFINE load == panel.loading
           rows == panel.rows \o load.items
           shown == [panel EXCEPT !.rows = rows, !.nextCursor = load.next,
                                  !.loadedOnce = TRUE, !.loadFailed = FALSE]
<1>1. /\ load.stage = "read" /\ panel.authenticated /\ load.current
      /\ UNCHANGED calls /\ Unchanged
  BY DEF ShowPage
<1>2. panel \in Panel /\ ListFits(panel, stored, gone, begun) /\ LoadFits(panel, stored, gone, begun)
      /\ load \in Load /\ panel.rows \in Seq(Row) /\ panel.nextCursor \in Nat
  BY PanelAssumption DEF IInv, Good, Panel, Row
<1>3. /\ load # Idle /\ load.cursor \in Nat /\ load.items \in Seq(Row)
      /\ load.next \in Row \cup {0} /\ load.next \in Nat
  BY <1>1, <1>2, LoadCases DEF Row
<1>4. panel' = Loaded(shown)
  BY <1>2 DEF ShowPage, Panel
<1>5. /\ load.cursor = panel.nextCursor
      /\ panel.loadedOnce <=> panel.nextCursor # 0
      /\ Descending(load.items)
      /\ \A x \in Range(load.items) : x >= load.next /\ (load.cursor # 0 => x < load.cursor)
      /\ load.next <= begun /\ (load.cursor # 0 => load.next < load.cursor)
      /\ stored \cap (load.next .. IF load.cursor = 0 THEN begun ELSE load.cursor - 1)
           \subseteq Range(load.items)
      /\ gone \cap Range(load.items) = {}
  BY <1>1, <1>2, <1>3 DEF LoadFits
<1>6. /\ panel.nextCursor = 0 => panel.rows = <<>>
      /\ Descending(panel.rows) /\ \A x \in Range(panel.rows) : x >= panel.nextCursor
      /\ panel.nextCursor # 0 => stored \cap (panel.nextCursor .. begun) \subseteq Range(panel.rows)
      /\ gone \cap Range(panel.rows) = {}
  BY <1>2, <1>5 DEF ListFits
<1>7. /\ \A x \in Range(panel.rows) : x \in Nat
      /\ \A x \in Range(load.items) : x \in Nat
  BY <1>2, <1>3, RangeOfRows
<1>8. panel.nextCursor = 0 => Range(panel.rows) = {}
  BY <1>6 DEF Range
<1>9. \A x \in Range(panel.rows), y \in Range(load.items) : x > y
  BY <1>2, <1>5, <1>6, <1>7, <1>8
<1>10. /\ rows \in Seq(Row) /\ Descending(rows)
       /\ Range(rows) = Range(panel.rows) \cup Range(load.items)
  BY <1>2, <1>3, <1>5, <1>6, <1>9, JoinFacts
<1> HIDE DEF rows
<1>11. /\ shown \in Panel /\ shown.rows = rows /\ shown.nextCursor = load.next
       /\ shown.loadedOnce = TRUE /\ shown.authenticated = panel.authenticated
       /\ shown.refreshPending = panel.refreshPending
  BY <1>2, <1>3, <1>10 DEF Panel
<1> HIDE DEF shown
<1>12. \A x \in Range(rows) : x >= load.next
  <2>1. \A x \in Range(panel.rows) : x >= load.next
    BY <1>2, <1>3, <1>5, <1>6, <1>7, <1>8
  <2> QED BY <1>5, <1>10, <2>1
<1>13. stored \cap (load.next .. begun) \subseteq Range(rows)
  <2> SUFFICES ASSUME NEW x \in stored, x \in load.next .. begun
               PROVE  x \in Range(rows)
    OBVIOUS
  <2>1. begun \in Nat /\ x \in Nat
    BY <1>3, PanelAssumption DEF IInv, World, Row
  <2>2. CASE load.cursor = 0 \/ x < load.cursor
    <3>1. x \in load.next .. IF load.cursor = 0 THEN begun ELSE load.cursor - 1
      BY <1>3, <2>1, <2>2
    <3> QED BY <1>5, <1>10, <3>1
  <2>3. CASE load.cursor # 0 /\ ~(x < load.cursor)
    <3>1. x \in panel.nextCursor .. begun
      BY <1>3, <1>5, <2>1, <2>3
    <3> QED BY <1>5, <1>6, <1>10, <2>3, <3>1
  <2> QED BY <2>2, <2>3
<1>14. ListFits(shown, stored, gone, begun)
  BY <1>1, <1>5, <1>6, <1>10, <1>11, <1>12, <1>13 DEF ListFits
<1>15. Good(panel', stored, gone, begun)
  BY <1>1, <1>4, <1>11, <1>14, LoadedGood
<1> QED BY <1>1, <1>15, PanelStep

LEMMA LoadEndsGood ==
    ASSUME IInv, DropPage \/ FailPage
    PROVE  IInv'
<1> DEFINE failed == [panel EXCEPT !.loadFailed = TRUE]
<1>1. /\ panel.loading # Idle /\ UNCHANGED calls /\ Unchanged
      /\ panel' = Loaded(panel) \/ panel' = Loaded(failed)
  BY DEF DropPage, FailPage
<1>2. /\ panel \in Panel /\ ListFits(panel, stored, gone, begun)
      /\ panel.refreshPending => panel.authenticated
  BY DEF IInv, Good, LoadFits
<1>3. /\ failed \in Panel /\ failed.authenticated = panel.authenticated
      /\ failed.refreshPending = panel.refreshPending
      /\ failed.loadedOnce = panel.loadedOnce /\ failed.activeDetail = panel.activeDetail
      /\ failed.listOpen = panel.listOpen /\ failed.detailOpen = panel.detailOpen
      /\ failed.nextCursor = panel.nextCursor /\ failed.rows = panel.rows
  BY <1>2 DEF Panel
<1> HIDE DEF failed
<1>4. ListFits(failed, stored, gone, begun)
  BY <1>2, <1>3 DEF ListFits
<1>5. Good(Loaded(panel), stored, gone, begun)
  BY <1>2, LoadedGood
<1>6. Good(Loaded(failed), stored, gone, begun)
  BY <1>2, <1>3, <1>4, LoadedGood
<1> QED BY <1>1, <1>5, <1>6, PanelStep

LEMMA ShowListGood ==
    ASSUME IInv, ShowList
    PROVE  IInv'
<1> DEFINE shown == [panel EXCEPT !.listOpen = TRUE]
<1>1. /\ panel.authenticated /\ panel' = Refresh(shown) /\ UNCHANGED calls /\ Unchanged
  BY DEF ShowList
<1>2. panel \in Panel /\ (panel.refreshPending => panel.loading # Idle) /\ begun \in Nat
  BY PanelAssumption DEF IInv, Good, LoadFits, World, Row
<1>3. /\ shown \in Panel /\ shown.authenticated = panel.authenticated
      /\ shown.refreshPending = panel.refreshPending /\ shown.loading = panel.loading
  BY <1>2 DEF Panel
<1> HIDE DEF shown
<1>4. Good(Refresh(shown), stored, gone, begun)
  BY <1>1, <1>2, <1>3, RefreshGood
<1> QED BY <1>1, <1>4, PanelStep

LEMMA CloseListGood ==
    ASSUME IInv, CloseList
    PROVE  IInv'
<1> DEFINE q == [panel EXCEPT !.listOpen = FALSE]
<1>1. panel' = q /\ UNCHANGED calls /\ Unchanged
  BY DEF CloseList
<1>2. panel \in Panel /\ Good(panel, stored, gone, begun)
      /\ (~panel.authenticated => panel.activeDetail = 0 /\ ~panel.detailOpen)
  BY DEF IInv, Good, ListFits
<1>3. /\ q \in Panel /\ SameList(panel, q) /\ q.listOpen = FALSE
      /\ q.activeDetail = panel.activeDetail /\ q.detailOpen = panel.detailOpen
  BY <1>2 DEF Panel, SameList
<1> HIDE DEF q
<1>4. ~q.authenticated => q.activeDetail = 0 /\ ~q.listOpen /\ ~q.detailOpen
  BY <1>2, <1>3 DEF SameList
<1>5. Good(q, stored, gone, begun)
  BY <1>2, <1>3, <1>4, DialogsKeepGood
<1> QED BY <1>1, <1>3, <1>5, PanelStep DEF SameList

LEMMA LoadMoreGood ==
    ASSUME IInv, LoadMore
    PROVE  IInv'
<1>1. panel.listOpen /\ panel' = LoadNext(panel) /\ UNCHANGED calls /\ Unchanged
  BY DEF LoadMore
<1>2. Good(panel, stored, gone, begun) /\ panel.authenticated
  BY <1>1 DEF IInv, Good, ListFits
<1>3. Good(LoadNext(panel), stored, gone, begun)
  BY <1>2, LoadNextGood
<1> QED BY <1>1, <1>2, <1>3, PanelStep

LEMMA LeaveDetailGood ==
    ASSUME NEW p, NEW st, NEW go, NEW be, Good(p, st, go, be)
    PROVE  /\ Good(LeaveDetail(p), st, go, be) /\ SameList(p, LeaveDetail(p))
           /\ Good(CloseDetail(p), st, go, be) /\ SameList(p, CloseDetail(p))
<1>1. p \in Panel /\ (~p.authenticated => p.activeDetail = 0 /\ ~p.listOpen)
  BY DEF Good, ListFits
<1> DEFINE l == LeaveDetail(p)
           c == CloseDetail(p)
<1>2. /\ l \in Panel /\ SameList(p, l) /\ l.activeDetail = p.activeDetail /\ ~l.detailOpen
      /\ l.listOpen => p.listOpen \/ p.authenticated
  BY <1>1, LeaveDetailFacts
<1>3. /\ c \in Panel /\ SameList(p, c) /\ c.activeDetail = p.activeDetail /\ ~c.detailOpen
      /\ c.listOpen => p.listOpen \/ p.authenticated
  BY <1>1, CloseDetailFacts
<1> HIDE DEF l, c
<1>4. Good(l, st, go, be)
  <2>1. ~l.authenticated => l.activeDetail = 0 /\ ~l.listOpen /\ ~l.detailOpen
    BY <1>1, <1>2 DEF SameList
  <2> QED BY <1>2, <2>1, DialogsKeepGood
<1>5. Good(c, st, go, be)
  <2>1. ~c.authenticated => c.activeDetail = 0 /\ ~c.listOpen /\ ~c.detailOpen
    BY <1>1, <1>3 DEF SameList
  <2> QED BY <1>3, <2>1, DialogsKeepGood
<1> QED BY <1>2, <1>3, <1>4, <1>5 DEF l, c

LEMMA CloseDetailClickedGood ==
    ASSUME IInv, CloseDetailClicked
    PROVE  IInv'
<1>1. panel' = CloseDetail(panel) /\ UNCHANGED calls /\ Unchanged
  BY DEF CloseDetailClicked
<1>2. Good(CloseDetail(panel), stored, gone, begun) /\ SameList(panel, CloseDetail(panel))
  BY LeaveDetailGood DEF IInv
<1> QED BY <1>1, <1>2, PanelStep DEF SameList

LEMMA LogOutGood ==
    ASSUME IInv, LogOut
    PROVE  IInv'
<1>1. panel.authenticated /\ panel' = LoggedOut(panel) /\ UNCHANGED calls /\ Unchanged
  BY DEF LogOut
<1>2. panel \in Panel /\ begun \in Nat
  BY PanelAssumption DEF IInv, Good, World, Row
<1>3. Blank(LoggedOut(panel))
  BY <1>2, LoggedOutIsBlank
<1>4. Good(LoggedOut(panel), stored, gone, begun)
  BY <1>2, <1>3, BlankIsGood
<1> QED BY <1>1, <1>4, PanelStep

LEMMA SessionAnsweredGood ==
    ASSUME IInv, SessionAnswered
    PROVE  IInv'
<1>1. /\ session = "asked" /\ session' = "answered"
      /\ panel' \in {LoggedIn(panel), LoggedOut(panel)}
      /\ UNCHANGED <<calls, stored, newest, gone, saved, begun>>
  BY DEF SessionAnswered
<1>2. /\ panel \in Panel /\ begun \in Nat /\ Good(panel, stored, gone, begun)
      /\ ~panel.authenticated /\ panel.loading = Idle
  BY <1>1, PanelAssumption DEF IInv, Good, World, Row, Unknown
<1>3. Blank(panel) /\ ~panel.refreshPending
  BY <1>2, UnauthenticatedIsBlank DEF Blank
<1>4. Good(LoggedIn(panel), stored, gone, begun)
  BY <1>2, <1>3, LoggedInGood
<1>5. Blank(LoggedOut(panel))
  BY <1>2, LoggedOutIsBlank
<1>6. Good(LoggedOut(panel), stored, gone, begun)
  BY <1>2, <1>5, BlankIsGood
<1>7. World'
  BY <1>1 DEF IInv, World, IsDone
<1>8. Unknown' /\ session' \in {"asked", "answered"}
  BY <1>1 DEF Unknown
<1> QED BY <1>1, <1>4, <1>6, <1>7, <1>8 DEF IInv

-----------------------------------------------------------------------------
(* The buttons *)

LEMMA CallStarts ==
    ASSUME IInv, NEW c \in Call, NEW k \in Kind, NEW rows \in SUBSET Row, Start(c, k, rows),
           k # "deleteAll" => \E x \in Row : rows = {x}
    PROVE  IInv'
<1> DEFINE call == [stage |-> "asked", kind |-> k, rows |-> rows]
<1>1. /\ calls' = [calls EXCEPT ![c] = call] /\ panel' = panel
      /\ session' = session /\ stored' = stored /\ newest' = newest /\ gone' = gone
      /\ saved' = saved /\ begun' = begun
  BY DEF Start, Unchanged
<1>2. call \in Working /\ call # Idle /\ call.stage = "asked" /\ call.kind = k /\ call.rows = rows
  BY DEF Working, Idle
<1> HIDE DEF call
<1>3. calls \in [Call -> {Idle} \cup Working]
  BY DEF IInv, World
<1>4. /\ calls' \in [Call -> {Idle} \cup Working] /\ calls'[c] = call
      /\ \A d \in Call \ {c} : calls'[d] = calls[d]
  BY <1>1, <1>2, <1>3
<1>5. World'
  BY <1>1, <1>2, <1>4 DEF IInv, World, IsDone
<1>6. Unknown'
  BY <1>1 DEF IInv, Unknown
<1> QED BY <1>1, <1>5, <1>6 DEF IInv

LEMMA ClicksGood ==
    ASSUME IInv, NEW c \in Call, ClickRow(c) \/ ClickDeleteAll(c)
    PROVE  IInv'
<1>1. panel.rows \in Seq(Row) /\ panel.activeDetail \in Row \cup {0}
  BY DEF IInv, Good, Panel
<1>2. CASE ClickDeleteAll(c)
  <2>1. Start(c, "deleteAll", {})
    BY <1>2 DEF ClickDeleteAll
  <2> QED BY <2>1, CallStarts DEF Kind
<1>3. ASSUME NEW x \in Row, NEW k \in Kind, Start(c, k, {x})
      PROVE  IInv'
  BY <1>3, CallStarts
<1>4. CASE \E x \in Range(panel.rows), k \in Kind \ {"deleteAll"} : Start(c, k, {x})
  BY <1>1, <1>3, <1>4, RangeOfRows
<1>5. CASE panel.activeDetail # 0 /\ \E k \in {"draft", "deleteOne"} : Start(c, k, {panel.activeDetail})
  BY <1>1, <1>3, <1>5 DEF Kind
<1> QED BY <1>2, <1>4, <1>5 DEF ClickRow

\* A call ends, and its rows may be known to be deleted by then.
LEMMA CallEnds ==
    ASSUME IInv, NEW c \in Call, Ends(c),
           UNCHANGED <<session, stored, newest, saved, begun>>,
           gone' \subseteq 1..newest, gone' \cap stored = {},
           Good(panel', stored, gone', begun),
           \/ panel.authenticated
           \/ panel'.authenticated = panel.authenticated /\ panel'.loading = panel.loading
    PROVE  IInv'
<1>1. calls \in [Call -> {Idle} \cup Working]
  BY DEF IInv, World
<1>2. /\ calls' \in [Call -> {Idle} \cup Working] /\ calls'[c] = Idle
      /\ \A d \in Call \ {c} : calls'[d] = calls[d]
  BY <1>1 DEF Ends
<1>3. Idle.stage = "idle"
  BY DEF Idle
<1>4. World'
  BY <1>2, <1>3 DEF IInv, World, IsDone
<1>5. Unknown'
  BY DEF IInv, Unknown
<1> QED BY <1>4, <1>5 DEF IInv

LEMMA OpenDetailGood ==
    ASSUME IInv, NEW c \in Call, OpenDetail(c)
    PROVE  IInv'
<1> DEFINE row == CHOOSE x \in calls[c].rows : TRUE
           shown == [panel EXCEPT !.activeDetail = row, !.restoreListAfterDetail = TRUE,
                                  !.listOpen = FALSE, !.detailOpen = TRUE]
<1>1. /\ IsDone(c, {"detail"}) /\ Ends(c) /\ Unchanged
      /\ panel' = IF ~panel.authenticated THEN panel ELSE shown
  BY DEF OpenDetail
<1>2. calls[c] # Idle /\ calls[c].kind # "deleteAll"
  BY <1>1 DEF IsDone, Idle
<1>3. PICK x \in Row : calls[c].rows = {x}
  BY <1>2 DEF IInv, World
<1>4. row \in Row
  BY <1>3
<1> HIDE DEF row
<1>5. panel \in Panel /\ Good(panel, stored, gone, begun)
  BY DEF IInv, Good
<1>6. shown \in Panel /\ SameList(panel, shown)
  BY <1>4, <1>5 DEF Panel, SameList
<1> HIDE DEF shown
<1>7. Good(panel', stored, gone, begun)
  BY <1>1, <1>5, <1>6, DialogsKeepGood DEF SameList
<1>8. gone \subseteq 1..newest /\ gone \cap stored = {}
  BY DEF IInv, World
<1> QED BY <1>1, <1>7, <1>8, CallEnds DEF Unchanged

LEMMA ApplyDraftGood ==
    ASSUME IInv, NEW c \in Call, ApplyDraft(c)
    PROVE  IInv'
<1> DEFINE l == LeaveDetail(panel)
           q == [l EXCEPT !.listOpen = FALSE]
<1>1. /\ Ends(c) /\ Unchanged
      /\ panel' = IF ~panel.authenticated THEN panel ELSE q
  BY DEF ApplyDraft
<1>2. Good(panel, stored, gone, begun) /\ Good(l, stored, gone, begun) /\ SameList(panel, l)
      /\ l \in Panel
  BY LeaveDetailGood DEF IInv, Good
<1> HIDE DEF l
<1>3. q \in Panel /\ SameList(l, q)
  BY <1>2 DEF Panel, SameList
<1> HIDE DEF q
<1>4. Good(panel', stored, gone, begun)
  BY <1>1, <1>2, <1>3, DialogsKeepGood DEF SameList
<1>5. gone \subseteq 1..newest /\ gone \cap stored = {}
  BY DEF IInv, World
<1> QED BY <1>1, <1>4, <1>5, CallEnds DEF Unchanged

LEMMA DeletedGood ==
    ASSUME IInv, NEW c \in Call, Deleted(c)
    PROVE  IInv'
<1> DEFINE l == LeaveDetail(panel)
<1>1. /\ IsDone(c, {"deleteOne", "deleteAll"}) /\ Ends(c) /\ panel' = Refresh(l)
      /\ gone' = gone \cup calls[c].rows
      /\ UNCHANGED <<session, stored, newest, saved, begun>>
  BY DEF Deleted
<1>2. /\ Good(l, stored, gone, begun) /\ SameList(panel, l) /\ begun \in Nat
      /\ gone \subseteq 1..newest /\ gone \cap stored = {}
      /\ calls[c].rows \subseteq (1..newest) \ stored
  BY <1>1, LeaveDetailGood, PanelAssumption DEF IInv, World, Row
<1> HIDE DEF l
<1>3. /\ l \in Panel /\ (l.refreshPending => l.loading # Idle)
      /\ ~l.authenticated => Blank(l)
  BY <1>2, UnauthenticatedIsBlank DEF Good, LoadFits
<1>4. Good(Refresh(l), stored, gone', begun)
  BY <1>2, <1>3, RefreshGood
<1>5. ~l.authenticated => Refresh(l) = l
  BY DEF Refresh
<1>6. gone' \subseteq 1..newest /\ gone' \cap stored = {}
  BY <1>1, <1>2
<1>7. \/ panel.authenticated
      \/ panel'.authenticated = panel.authenticated /\ panel'.loading = panel.loading
  BY <1>1, <1>2, <1>5 DEF SameList
<1> QED BY <1>1, <1>4, <1>6, <1>7, CallEnds

LEMMA CallFailsGood ==
    ASSUME IInv, NEW c \in Call, CallFails(c)
    PROVE  IInv'
<1>1. Ends(c) /\ panel' = panel /\ Unchanged
  BY DEF CallFails
<1>2. gone \subseteq 1..newest /\ gone \cap stored = {} /\ Good(panel, stored, gone, begun)
  BY DEF IInv, World
<1> QED BY <1>1, <1>2, CallEnds DEF Unchanged

\* Rows leave the database, or one comes that is newer than all.
LEMMA ServeGood ==
    ASSUME IInv, NEW c \in Call, Serve(c)
    PROVE  IInv'
<1>1. /\ session' = session /\ panel' = panel /\ newest' = newest /\ gone' = gone
      /\ begun' = begun
  BY DEF Serve, Unchanged
<1>2. /\ calls[c].stage = "asked" /\ stored' \subseteq stored /\ saved' \subseteq stored'
      /\ saved' \subseteq saved
      /\ \/ /\ calls[c].kind # "deleteAll" /\ calls' = [calls EXCEPT ![c].stage = "done"]
            /\ IsDone(c, {"deleteOne", "deleteAll"})' => calls[c].rows \subseteq stored \ stored'
         \/ /\ calls[c].kind = "deleteAll" /\ stored' = {}
            /\ calls' = [calls EXCEPT ![c].stage = "done", ![c].rows = stored]
  <2>1. saved \subseteq stored /\ calls \in [Call -> {Idle} \cup Working]
    BY DEF IInv, World
  <2>2. CASE /\ IsAsked(c, {"detail", "draft"}) /\ calls' = [calls EXCEPT ![c].stage = "done"]
             /\ UNCHANGED panel /\ Unchanged
    <3>1. calls'[c].kind = calls[c].kind
      BY <2>1, <2>2
    <3>2. ~IsDone(c, {"deleteOne", "deleteAll"})'
      BY <2>2, <3>1 DEF IsAsked, IsDone
    <3> QED BY <2>1, <2>2, <3>2 DEF IsAsked, Unchanged
  <2>3. CASE /\ IsAsked(c, {"deleteOne"}) /\ calls[c].rows \subseteq stored
             /\ Drop(calls[c].rows) /\ calls' = [calls EXCEPT ![c].stage = "done"]
    BY <2>1, <2>3 DEF IsAsked, Drop
  <2>4. CASE /\ IsAsked(c, {"deleteAll"}) /\ Drop(stored)
             /\ calls' = [calls EXCEPT ![c].stage = "done", ![c].rows = stored]
    BY <2>1, <2>4 DEF IsAsked, Drop
  <2> QED BY <2>2, <2>3, <2>4 DEF Serve
<1>3. /\ calls \in [Call -> {Idle} \cup Working] /\ stored \subseteq 1..newest
      /\ newest \in Nat /\ 1..newest \subseteq Row
      /\ gone \cap stored = {} /\ gone \subseteq 1..newest
      /\ calls[c] # Idle /\ calls[c].kind # "deleteAll" => \E x \in Row : calls[c].rows = {x}
  BY PanelAssumption DEF IInv, World, Row
<1>4. calls[c] \in Working /\ calls[c] # Idle
  BY <1>2, <1>3 DEF Idle
<1>5. /\ calls'[c] \in Working /\ calls'[c] # Idle /\ calls'[c].kind = calls[c].kind
      /\ calls' \in [Call -> {Idle} \cup Working]
      /\ \A d \in Call \ {c} : calls'[d] = calls[d]
      /\ calls'[c].kind # "deleteAll" => calls'[c].rows = calls[c].rows
      /\ calls'[c].kind = "deleteAll" => calls'[c].rows = stored
  <2>1. CASE calls' = [calls EXCEPT ![c].stage = "done"] /\ calls[c].kind # "deleteAll"
    <3> DEFINE call == [calls[c] EXCEPT !.stage = "done"]
    <3>1. call \in Working /\ call # Idle /\ call.kind = calls[c].kind /\ call.rows = calls[c].rows
      BY <1>4 DEF Working, Idle
    <3>2. calls' = [calls EXCEPT ![c] = call]
      BY <1>3, <2>1
    <3> HIDE DEF call
    <3> QED BY <1>3, <2>1, <3>1, <3>2
  <2>2. CASE /\ calls' = [calls EXCEPT ![c].stage = "done", ![c].rows = stored]
             /\ calls[c].kind = "deleteAll"
    <3> DEFINE call == [calls[c] EXCEPT !.stage = "done", !.rows = stored]
    <3>0. stored \in SUBSET Row
      BY <1>3
    <3>1. call \in Working /\ call # Idle /\ call.kind = calls[c].kind /\ call.rows = stored
      BY <1>4, <3>0 DEF Working, Idle
    <3>2. calls' = [calls EXCEPT ![c] = call]
      BY <1>3, <2>2
    <3> HIDE DEF call
    <3> QED BY <1>3, <2>2, <3>1, <3>2
  <2> QED BY <1>2, <2>1, <2>2
<1>6. IsDone(c, {"deleteOne", "deleteAll"})' => calls'[c].rows \subseteq (1..newest) \ stored'
  BY <1>2, <1>3, <1>5
<1>7. World'
  <2>1. \A d \in Call \ {c} :
          IsDone(d, {"deleteOne", "deleteAll"})' => calls'[d].rows \subseteq (1..newest) \ stored'
    BY <1>2, <1>5 DEF IInv, World, IsDone
  <2>2. \A d \in Call : calls'[d] # Idle /\ calls'[d].kind # "deleteAll"
                          => \E x \in Row : calls'[d].rows = {x}
    BY <1>3, <1>4, <1>5 DEF IInv, World
  <2> QED BY <1>1, <1>2, <1>3, <1>5, <1>6, <2>1, <2>2 DEF IInv, World, IsDone
<1>8. begun \in Nat /\ Good(panel, stored, gone, begun)
  BY <1>3 DEF IInv, World
<1>9. Good(panel, stored', gone, begun)
  BY <1>2, <1>8, RowsComeAndGo
<1>10. Unknown'
  BY <1>1 DEF IInv, Unknown
<1> QED BY <1>1, <1>7, <1>9, <1>10 DEF IInv

LEMMA SaveGood ==
    ASSUME IInv, Save
    PROVE  IInv'
<1>1. /\ newest < MaxRow /\ newest' = newest + 1 /\ stored' = stored \cup {newest'}
      /\ session' = session /\ panel' = panel /\ calls' = calls /\ gone' = gone
      /\ saved' = saved /\ begun' = begun
  BY DEF Save
<1>2. /\ newest \in Nat /\ MaxRow \in Nat /\ begun \in 0..newest /\ begun \in Nat
      /\ stored \subseteq 1..newest /\ gone \subseteq 1..newest /\ saved \subseteq stored
      /\ gone \cap stored = {}
  BY PanelAssumption DEF IInv, World, Row
<1>3. newest' \in Row /\ begun' \in 0..newest' /\ newest' > newest
  BY <1>1, <1>2 DEF Row
<1>4. 1..newest \subseteq 1..newest' /\ newest' \notin 1..newest /\ newest' \in 1..newest'
  BY <1>1, <1>2
<1>5. World'
  BY <1>1, <1>2, <1>3, <1>4 DEF IInv, World, IsDone
<1>6. \A x \in stored' : x \in stored \/ ~(x <= begun)
  BY <1>1, <1>2
<1>7. Good(panel, stored, gone, begun)
  BY DEF IInv
<1>8. Good(panel, stored', gone, begun)
  BY <1>2, <1>6, <1>7, RowsComeAndGo
<1>9. Unknown'
  BY <1>1 DEF IInv, Unknown
<1> QED BY <1>1, <1>5, <1>8, <1>9 DEF IInv

LEMMA VanishGood ==
    ASSUME IInv, NEW x \in Row, Vanish(x)
    PROVE  IInv'
<1>1. /\ stored' = stored \ {x} /\ saved' = saved \ {x}
      /\ session' = session /\ panel' = panel /\ calls' = calls /\ gone' = gone
      /\ newest' = newest /\ begun' = begun
  BY DEF Vanish, Drop
<1>2. begun \in Nat /\ Good(panel, stored, gone, begun)
  BY PanelAssumption DEF IInv, World, Row
<1>3. World'
  BY <1>1 DEF IInv, World, IsDone
<1>4. Good(panel, stored', gone, begun)
  BY <1>1, <1>2, RowsComeAndGo
<1>5. Unknown'
  BY <1>1 DEF IInv, Unknown
<1> QED BY <1>1, <1>3, <1>4, <1>5 DEF IInv

LEMMA PreviewAnsweredGood ==
    ASSUME IInv, PreviewAnswered
    PROVE  IInv'
<1> DEFINE told == [panel EXCEPT !.refreshAfterSavedPreview = TRUE]
<1>1. /\ saved' \subseteq stored /\ panel' = IF panel.authenticated THEN Refresh(panel) ELSE told
      /\ session' = session /\ stored' = stored /\ calls' = calls /\ gone' = gone
      /\ newest' = newest /\ begun' = begun
  BY DEF PreviewAnswered, RefreshForSavedPreview, IInv, World
<1>2. /\ begun \in Nat /\ panel \in Panel /\ Good(panel, stored, gone, begun)
      /\ panel.refreshPending => panel.loading # Idle
      /\ ~panel.authenticated => panel.activeDetail = 0 /\ ~panel.listOpen /\ ~panel.detailOpen
  BY PanelAssumption DEF IInv, World, Row, Good, LoadFits, ListFits
<1>3. /\ told \in Panel /\ SameList(panel, told) /\ told.activeDetail = panel.activeDetail
      /\ told.listOpen = panel.listOpen /\ told.detailOpen = panel.detailOpen
  BY <1>2 DEF Panel, SameList
<1> HIDE DEF told
<1>4. Good(told, stored, gone, begun)
  BY <1>2, <1>3, DialogsKeepGood DEF SameList
<1>5. panel.authenticated => Good(Refresh(panel), stored, gone, begun)
  BY <1>2, RefreshGood
<1>6. World'
  BY <1>1 DEF IInv, World, IsDone
<1>7. Unknown'
  BY <1>1, <1>3 DEF IInv, Unknown, SameList
<1> QED BY <1>1, <1>4, <1>5, <1>6, <1>7 DEF IInv

-----------------------------------------------------------------------------
(* The panel's theorems *)

LEMMA PanelStarts == Init => IInv
<1> SUFFICES ASSUME Init PROVE IInv
  OBVIOUS
<1>1. /\ panel = FirstPanel /\ session = "asked" /\ begun = 0 /\ gone = {} /\ saved = {}
      /\ newest \in Row \cup {0} /\ stored = 1..newest /\ calls = [c \in Call |-> Idle]
  BY DEF Init
<1>2. Idle \in Load /\ <<>> \in Seq(Row) /\ Idle.stage = "idle"
  BY EmptySeq DEF Load, Idle
<1>3. FirstPanel \in Panel
  BY <1>2 DEF FirstPanel, Panel
<1>4. Blank(FirstPanel)
  BY <1>3 DEF Blank, FirstPanel
<1>5. newest \in Nat
  BY <1>1, PanelAssumption DEF Row
<1>6. Good(panel, stored, gone, begun)
  BY <1>1, <1>4, BlankIsGood
<1>7. World
  BY <1>1, <1>2, <1>5 DEF World, IsDone
<1>8. Unknown
  BY <1>1 DEF Unknown, FirstPanel
<1> QED BY <1>1, <1>6, <1>7, <1>8 DEF IInv

LEMMA PanelKeeps == IInv /\ [Next]_vars => IInv'
<1> SUFFICES ASSUME IInv, [Next]_vars PROVE IInv'
  OBVIOUS
<1>1. CASE UNCHANGED vars
  BY <1>1 DEF vars, IInv, World, Unknown, IsDone
<1>2. CASE ReadPage \/ ShowPage \/ DropPage \/ FailPage
  BY <1>2, ReadPageGood, ShowPageGood, LoadEndsGood
<1>3. CASE ShowList \/ CloseList \/ LoadMore \/ CloseDetailClicked
  BY <1>3, ShowListGood, CloseListGood, LoadMoreGood, CloseDetailClickedGood
<1>4. ASSUME NEW c \in Call,
             \/ ClickRow(c) \/ ClickDeleteAll(c) \/ Serve(c)
             \/ OpenDetail(c) \/ ApplyDraft(c) \/ Deleted(c) \/ CallFails(c)
      PROVE  IInv'
  BY <1>4, ClicksGood, ServeGood, OpenDetailGood, ApplyDraftGood, DeletedGood, CallFailsGood
<1>5. CASE Save
  BY <1>5, SaveGood
<1>6. ASSUME NEW x \in Row, Vanish(x)
      PROVE  IInv'
  BY <1>6, VanishGood
<1>7. CASE PreviewAnswered
  BY <1>7, PreviewAnsweredGood
<1>8. CASE SessionAnswered \/ LogOut
  BY <1>8, SessionAnsweredGood, LogOutGood
<1> QED BY <1>1, <1>2, <1>3, <1>4, <1>5, <1>6, <1>7, <1>8 DEF Next

LEMMA PanelInvariant == Spec => []IInv
BY PanelStarts, PanelKeeps, PTL DEF Spec

\* Every variable of the panel and of its world keeps its type, and a refresh
\* that waits always waits for a page on its way (refreshPending, history.js).
THEOREM PanelTypeCorrect == Spec => []TypeOK
<1>1. IInv => TypeOK
  BY DEF IInv, Good, LoadFits, World, TypeOK
<1> QED BY <1>1, PanelInvariant, PTL

\* The pages of the list fit together whatever is saved, deleted, begun afresh
\* or answered out of order (loadNext and refresh, history.js).
THEOREM PagesAlwaysFit == Spec => []PagesFitTogether
<1>1. IInv => PagesFitTogether
  BY DEF IInv, Good, ListFits, Descending, PagesFitTogether
<1> QED BY <1>1, PanelInvariant, PTL

\* A row whose deletion was answered never comes back to the list
\* (historyGeneration, history.js).
THEOREM DeletedRowsAreGone == Spec => []DeletedRowsStayAway
<1>1. IInv => DeletedRowsStayAway
  BY DEF IInv, Good, ListFits, DeletedRowsStayAway
<1> QED BY <1>1, PanelInvariant, PTL

\* Without a session the panel shows no row and no dialog, in whatever order
\* answers and the log-out come (setAuthenticated, history.js).
THEOREM NothingIsShownToNobody == Spec => []LoggedOutShowsNothing
<1>1. IInv => LoggedOutShowsNothing
  BY DEF IInv, Good, ListFits, LoggedOutShowsNothing
<1> QED BY <1>1, PanelInvariant, PTL

-----------------------------------------------------------------------------
(* The page does to the panel what the panel may do *)

LEMMA PageStepsAreThePanels ==
    [FormNext \/ ListNext]_<<vars, pageVars>> => [Next]_vars
<1> SUFFICES ASSUME [FormNext \/ ListNext]_<<vars, pageVars>> PROVE [Next]_vars
  OBVIOUS
<1>1. CASE UNCHANGED <<vars, pageVars>>
  BY <1>1
<1>2. CASE ListNext
  BY <1>2 DEF ListNext, Next
<1>3. ASSUME NEW p, Edits(p)
      PROVE  UNCHANGED vars
  BY <1>3 DEF Edits
<1>4. CASE ChangeSelection \/ ChangeSchedule \/ ChangeNumbers \/ SortResults
  BY <1>3, <1>4 DEF ChangeSelection, ChangeSchedule, ChangeNumbers, SortResults
<1>5. ASSUME NEW q \in Preview,
             Calculate(q) \/ PreviewArrives(q) \/ PreviewFails(q) \/ PreviewIsStale(q)
      PROVE  PreviewAnswered \/ UNCHANGED vars
  BY <1>3, <1>5 DEF Calculate, PreviewArrives, PreviewFails, PreviewIsStale
<1>6. CASE \/ ReadSettings \/ SettingsArrive \/ SettingsFail
           \/ StoreSettings \/ SettingsSaved \/ SettingsNotSaved
  BY <1>6 DEF ReadSettings, SettingsArrive, SettingsFail, StoreSettings, SettingsSaved,
              SettingsNotSaved
<1>7. ASSUME NEW s \in Settings, SaveSettings(s)
      PROVE  UNCHANGED vars
  BY <1>3, <1>7 DEF SaveSettings
<1>8. CASE PageSessionAnswered \/ PageLogOut \/ \E c \in Call : PageApplyDraft(c)
  BY <1>8 DEF PageSessionAnswered, PageLogOut, PageApplyDraft, Next
<1>9. PreviewAnswered => Next
  BY DEF Next
<1> QED BY <1>1, <1>2, <1>4, <1>5, <1>6, <1>7, <1>8, <1>9 DEF FormNext

\* The page with its form only does to the history panel what the panel by
\* itself may do (app.js calls createHistoryPanel's handlers and nothing else of
\* it), so what holds of the panel holds of it on the page.
THEOREM PageImplementsPanel == PageSpec => Spec
BY PageStepsAreThePanels, PTL DEF PageSpec, Spec

\* The history's invariants for the whole page (app.js, history.js).
THEOREM PagePanelSafe ==
    PageSpec => [](TypeOK /\ PagesFitTogether /\ DeletedRowsStayAway /\ LoggedOutShowsNothing)
BY PageImplementsPanel, PanelTypeCorrect, PagesAlwaysFit, DeletedRowsAreGone,
   NothingIsShownToNobody, PTL

-----------------------------------------------------------------------------
(* The handlers of the form *)

\* What a handler leaves alone of the form, of the answers, of the settings.
SameForm(p, q) ==
    /\ q.origin = p.origin /\ q.destination = p.destination /\ q.schedule = p.schedule
    /\ q.car = p.car /\ q.allowanceFits = p.allowanceFits /\ q.sort = p.sort
SameAnswers(p, q) == q.results = p.results /\ q.busy = p.busy /\ q.previews = p.previews
SameSettings(p, q) ==
    /\ q.applied = p.applied /\ q.dialog = p.dialog
    /\ q.settingsLoad = p.settingsLoad /\ q.settingsSave = p.settingsSave

\* No answer is shown or counts when it comes.
Abandoned(p) ==
    /\ p.results = None /\ ~p.busy
    /\ \A q \in Preview : p.previews[q] # Idle => ~p.previews[q].current
ButtonIsRight(p) == p.enabled <=> Valid(p)

LEMMA ValidIsBoolean ==
    ASSUME NEW p PROVE Valid(p) \in BOOLEAN
BY DEF Valid

LEMMA UpdateFacts ==
    ASSUME NEW p \in Page
    PROVE  LET q == UpdateCalculateAvailability(p)
           IN /\ q \in Page /\ SameForm(p, q) /\ SameAnswers(p, q) /\ SameSettings(p, q)
              /\ ButtonIsRight(q)
<1> DEFINE v == Valid(p)
           q == [p EXCEPT !.enabled = v, !.unheard = FALSE]
<1>1. v \in BOOLEAN
  BY ValidIsBoolean
<1>2. UpdateCalculateAvailability(p) = q
  BY DEF UpdateCalculateAvailability
<1> HIDE DEF v
<1>3. /\ q \in Page /\ SameForm(p, q) /\ SameAnswers(p, q) /\ SameSettings(p, q)
      /\ q.enabled = v
  <2>1. q \in Page
    BY <1>1 DEF Page
  <2> QED BY <1>1, <2>1 DEF Page, SameForm, SameAnswers, SameSettings
<1> HIDE DEF q
<1>4. Valid(q) = Valid(p)
  BY <1>3 DEF SameForm, Valid
<1> QED BY <1>1, <1>2, <1>3, <1>4 DEF v, ButtonIsRight

LEMMA SelectionChangedFacts ==
    ASSUME NEW p \in Page
    PROVE  LET q == SelectionChanged(p)
           IN /\ q \in Page /\ SameForm(p, q) /\ SameSettings(p, q)
              /\ Abandoned(q) /\ ButtonIsRight(q)
<1> DEFINE calls2 == [q \in Preview |->
               IF p.previews[q] = Idle THEN Idle ELSE [p.previews[q] EXCEPT !.current = FALSE]]
           r == [p EXCEPT !.results = None, !.busy = FALSE, !.previews = calls2]
           u == UpdateCalculateAvailability(r)
<1>1. p.previews \in [Preview -> {Idle} \cup Asking]
  BY DEF Page
<1>2. ASSUME NEW q \in Preview
      PROVE  /\ calls2[q] \in {Idle} \cup Asking
             /\ calls2[q] # Idle => ~calls2[q].current
  <2>1. CASE p.previews[q] = Idle
    BY <2>1
  <2>2. CASE p.previews[q] # Idle
    <3>1. p.previews[q] \in Asking
      BY <1>1, <2>2
    <3> QED BY <2>2, <3>1 DEF Asking
  <2> QED BY <2>1, <2>2
<1>3. calls2 \in [Preview -> {Idle} \cup Asking]
  BY <1>2
<1>4. SelectionChanged(p) = u
  BY DEF SelectionChanged, InvalidatePreview, Page
<1> HIDE DEF calls2
<1>5. /\ r \in Page /\ SameForm(p, r) /\ SameSettings(p, r)
      /\ r.results = None /\ r.busy = FALSE /\ r.previews = calls2
  BY <1>3 DEF Page, SameForm, SameSettings
<1> HIDE DEF r
<1>6. /\ u \in Page /\ SameForm(r, u) /\ SameAnswers(r, u) /\ SameSettings(r, u)
      /\ ButtonIsRight(u)
  BY <1>5, UpdateFacts
<1> HIDE DEF u
<1>7. Abandoned(u)
  BY <1>2, <1>5, <1>6 DEF SameAnswers, Abandoned
<1> QED BY <1>4, <1>5, <1>6, <1>7 DEF SameForm, SameSettings

LEMMA ChooseFacts ==
    ASSUME NEW p \in Page, NEW site \in Site \cup {None}, NEW from \in Source
    PROVE  LET q == SelectionChanged([p EXCEPT !.origin = [site |-> site, from |-> from]])
           IN /\ q \in Page /\ SameSettings(p, q) /\ Abandoned(q) /\ ButtonIsRight(q)
              /\ q.origin.from = from /\ q.schedule = p.schedule /\ q.car = p.car
              /\ q.sort = p.sort
<1> DEFINE o == [site |-> site, from |-> from]
           r == [p EXCEPT !.origin = o]
           q == SelectionChanged(r)
<1>1. o \in Origin /\ o.from = from
  BY DEF Origin
<1> HIDE DEF o
<1>2. /\ r \in Page /\ r.origin = o /\ r.schedule = p.schedule /\ r.car = p.car
      /\ r.sort = p.sort /\ SameSettings(p, r)
  BY <1>1 DEF Page, SameSettings
<1> HIDE DEF r
<1>3. /\ q \in Page /\ SameForm(r, q) /\ SameSettings(r, q)
      /\ Abandoned(q) /\ ButtonIsRight(q)
  BY <1>2, SelectionChangedFacts
<1> HIDE DEF q
<1>4. /\ q \in Page /\ SameSettings(p, q) /\ Abandoned(q) /\ ButtonIsRight(q)
      /\ q.origin.from = from /\ q.schedule = p.schedule /\ q.car = p.car
      /\ q.sort = p.sort
  BY <1>1, <1>2, <1>3 DEF SameForm, SameSettings
<1> QED BY <1>4 DEF q, r, o

LEMMA FillInFacts ==
    ASSUME NEW p \in Page, NEW s \in Source, NEW fits \in BOOLEAN,
           NEW origin \in Site \cup {None}
    PROVE  LET q == FillIn(p, s, fits, origin)
           IN /\ q \in Page /\ SameSettings(p, q) /\ q.sort = p.sort
              /\ q.car.from = s /\ q.schedule.from = s /\ q.origin.from \in {p.origin.from, s}
<1> DEFINE car == [from |-> s, fits |-> fits]
           schedule == [from |-> s, start |-> p.schedule.start, length |-> TRUE]
           r == [p EXCEPT !.car = car, !.schedule = schedule]
           filled == UpdateCalculateAvailability(r)
<1>1. p.schedule \in Schedule /\ p.origin \in Origin
  BY DEF Page
<1>2. /\ car \in Car /\ car.from = s /\ schedule \in Schedule /\ schedule.from = s
  BY <1>1 DEF Car, Schedule
<1>3. FillIn(p, s, fits, origin) = IF origin = None THEN filled ELSE Choose(filled, origin, s)
  BY DEF FillIn, Page
<1> HIDE DEF car, schedule
<1>4. /\ r \in Page /\ SameSettings(p, r) /\ r.sort = p.sort /\ r.car = car
      /\ r.schedule = schedule /\ r.origin = p.origin
  BY <1>2 DEF Page, SameSettings
<1> HIDE DEF r
<1>5. filled \in Page /\ SameForm(r, filled) /\ SameSettings(r, filled)
  BY <1>4, UpdateFacts
<1> HIDE DEF filled
<1>6. LET q == Choose(filled, origin, s)
      IN /\ q \in Page /\ SameSettings(filled, q) /\ q.origin.from = s
         /\ q.schedule = filled.schedule /\ q.car = filled.car /\ q.sort = filled.sort
  BY <1>5, ChooseFacts DEF Choose
<1> QED BY <1>2, <1>3, <1>4, <1>5, <1>6 DEF SameForm, SameSettings

\* settings.js, apply: whatever was worked out before is given up.
LEMMA ApplyFacts ==
    ASSUME NEW p \in Page, NEW s \in Settings, NEW origin \in Site \cup {None}
    PROVE  LET q == Apply(p, s, origin)
           IN /\ q \in Page /\ q.applied = TRUE /\ Abandoned(q) /\ ButtonIsRight(q)
              /\ q.settingsLoad = p.settingsLoad /\ q.settingsSave = p.settingsSave
<1> DEFINE a == [p EXCEPT !.dialog = s, !.applied = TRUE]
           filled == FillIn(a, s, Fits(s), origin)
           b == [filled EXCEPT !.sort = s]
           q == SelectionChanged(b)
<1>1. s \in Source /\ Fits(s) \in BOOLEAN
  BY PageAssumption DEF Source
<1>2. /\ a \in Page /\ a.applied = TRUE
      /\ a.settingsLoad = p.settingsLoad /\ a.settingsSave = p.settingsSave
  BY DEF Page
<1> HIDE DEF a
<1>3. filled \in Page /\ SameSettings(a, filled)
  BY <1>1, <1>2, FillInFacts
<1> HIDE DEF filled
<1>4. b \in Page /\ SameSettings(filled, b)
  BY <1>1, <1>3 DEF Page, SameSettings
<1> HIDE DEF b
<1>5. q \in Page /\ SameSettings(b, q) /\ Abandoned(q) /\ ButtonIsRight(q)
  BY <1>4, SelectionChangedFacts
<1> HIDE DEF q
<1>6. /\ q \in Page /\ q.applied = TRUE /\ Abandoned(q) /\ ButtonIsRight(q)
      /\ q.settingsLoad = p.settingsLoad /\ q.settingsSave = p.settingsSave
  BY <1>2, <1>3, <1>4, <1>5 DEF SameSettings
<1> QED BY <1>6 DEF Apply, SelectionChanged, q, b, filled, a

\* app.js, resetAnonymousPublicSettings: nothing of the settings is left.
LEMMA ResetFacts ==
    ASSUME NEW p \in Page
    PROVE  LET q == ResetAnonymousPublicSettings(p)
           IN /\ q \in Page /\ q.applied = FALSE /\ q.dialog = p.dialog
              /\ Abandoned(q) /\ ButtonIsRight(q)
              /\ q.origin.from \in {"typed", "public"} /\ q.schedule.from = "public"
              /\ q.car.from = "public" /\ q.sort = "public"
<1> DEFINE c == Clear(p)
           filled == FillIn(c, "public", TRUE, None)
           b == [filled EXCEPT !.sort = "public", !.applied = FALSE]
           q == SelectionChanged(b)
<1>1. "typed" \in Source /\ "public" \in Source /\ None \in Site \cup {None}
  BY DEF Source
<1>2. c \in Page /\ SameSettings(p, c) /\ c.origin.from = "typed"
  BY <1>1, ChooseFacts DEF Clear, NoOrigin
<1> HIDE DEF c
<1>3. /\ filled \in Page /\ SameSettings(c, filled) /\ filled.car.from = "public"
      /\ filled.schedule.from = "public" /\ filled.origin.from \in {"typed", "public"}
  <2>1. ASSUME NEW fits \in BOOLEAN
        PROVE  LET f == FillIn(c, "public", fits, None)
               IN /\ f \in Page /\ SameSettings(c, f)
                  /\ f.car.from = "public" /\ f.schedule.from = "public"
                  /\ f.origin.from \in {"typed", "public"}
    BY <1>1, <1>2, FillInFacts
  <2>2. TRUE \in BOOLEAN
    OBVIOUS
  <2> QED BY <2>1, <2>2
<1> HIDE DEF filled
<1>4. /\ b \in Page /\ b.applied = FALSE /\ b.dialog = filled.dialog /\ b.sort = "public"
      /\ b.car = filled.car /\ b.schedule = filled.schedule /\ b.origin = filled.origin
  BY <1>1, <1>3 DEF Page
<1> HIDE DEF b
<1>5. q \in Page /\ SameForm(b, q) /\ SameSettings(b, q) /\ Abandoned(q) /\ ButtonIsRight(q)
  BY <1>4, SelectionChangedFacts
<1> HIDE DEF q
<1>6. /\ q \in Page /\ q.applied = FALSE /\ q.dialog = p.dialog
      /\ Abandoned(q) /\ ButtonIsRight(q)
      /\ q.origin.from \in {"typed", "public"} /\ q.schedule.from = "public"
      /\ q.car.from = "public" /\ q.sort = "public"
  BY <1>2, <1>3, <1>4, <1>5 DEF SameForm, SameSettings
<1> QED BY <1>6 DEF ResetAnonymousPublicSettings, SelectionChanged, q, b, filled, c

\* trip-form.js, applyRecalculationDraft.
LEMMA TakeDraftFacts ==
    ASSUME NEW p \in Page, NEW origin \in Site \cup {None}
    PROVE  LET q == TakeDraft(p, origin)
           IN /\ q \in Page /\ SameSettings(p, q) /\ Abandoned(q) /\ ButtonIsRight(q)
              /\ q.origin.from \in {"typed", "draft"} /\ q.schedule.from = "draft"
              /\ q.car = p.car /\ q.sort = p.sort
<1> DEFINE c == Clear(p)
           d == [c EXCEPT !.destination = None]
           cleared == SelectionChanged(d)
           schedule == [from |-> "draft", start |-> TRUE, length |-> TRUE]
           e == [cleared EXCEPT !.schedule = schedule]
           dated == UpdateCalculateAvailability(e)
           chosen == IF origin = None THEN dated ELSE Choose(dated, origin, "draft")
           q == SelectionChanged(chosen)
<1>1. "typed" \in Source /\ "draft" \in Source /\ None \in Site \cup {None}
  BY DEF Source
<1>2. /\ c \in Page /\ SameSettings(p, c) /\ c.origin.from = "typed"
      /\ c.car = p.car /\ c.sort = p.sort
  BY <1>1, ChooseFacts DEF Clear, NoOrigin
<1> HIDE DEF c
<1>3. d \in Page /\ SameSettings(c, d) /\ d.origin = c.origin /\ d.car = c.car /\ d.sort = c.sort
  BY <1>2 DEF Page, SameSettings
<1> HIDE DEF d
<1>4. cleared \in Page /\ SameForm(d, cleared) /\ SameSettings(d, cleared)
  BY <1>3, SelectionChangedFacts
<1> HIDE DEF cleared
<1>5. schedule \in Schedule /\ schedule.from = "draft"
  BY <1>1 DEF Schedule
<1> HIDE DEF schedule
<1>6. /\ e \in Page /\ SameSettings(cleared, e) /\ e.schedule = schedule
      /\ e.origin = cleared.origin /\ e.car = cleared.car /\ e.sort = cleared.sort
  BY <1>4, <1>5 DEF Page, SameSettings
<1> HIDE DEF e
<1>7. dated \in Page /\ SameForm(e, dated) /\ SameSettings(e, dated)
  BY <1>6, UpdateFacts
<1> HIDE DEF dated
<1>8. LET r == Choose(dated, origin, "draft")
      IN /\ r \in Page /\ SameSettings(dated, r) /\ r.origin.from = "draft"
         /\ r.schedule = dated.schedule /\ r.car = dated.car /\ r.sort = dated.sort
  BY <1>1, <1>7, ChooseFacts DEF Choose
<1>9. /\ chosen \in Page /\ SameSettings(dated, chosen)
      /\ chosen.origin.from \in {dated.origin.from, "draft"}
      /\ chosen.schedule = dated.schedule /\ chosen.car = dated.car /\ chosen.sort = dated.sort
  BY <1>7, <1>8 DEF SameSettings
<1> HIDE DEF chosen
<1>10. q \in Page /\ SameForm(chosen, q) /\ SameSettings(chosen, q) /\ Abandoned(q) /\ ButtonIsRight(q)
  BY <1>9, SelectionChangedFacts
<1> HIDE DEF q
<1>11. /\ q \in Page /\ SameSettings(p, q) /\ Abandoned(q) /\ ButtonIsRight(q)
       /\ q.origin.from \in {"typed", "draft"} /\ q.schedule.from = "draft"
       /\ q.car = p.car /\ q.sort = p.sort
  BY <1>2, <1>3, <1>4, <1>5, <1>6, <1>7, <1>9, <1>10 DEF SameForm, SameSettings
<1> QED BY <1>11 DEF TakeDraft, SelectionChanged, q, chosen, dated, e, schedule, cleared, d, c

-----------------------------------------------------------------------------
(* The invariant of the page *)

\* Nothing in the form comes from the visitor's settings.
OwnForm(p) == {p.origin.from, p.schedule.from, p.car.from, p.sort} \cap Settings = {}

\* The form has, but for what was typed, what these questions have, and these
\* come from the visitor's settings only while they are applied.
AnswerFits(p, asks) ==
    /\ p.schedule.from \in {asks.schedule, "typed"} /\ p.car.from \in {asks.car, "typed"}
    /\ ~p.applied => asks.schedule \notin Settings /\ asks.car \notin Settings

UnderWay(p) ==
    \E q \in Preview :
       /\ p.previews[q] # Idle /\ p.previews[q].current
       /\ p.previews[q].asks.origin = p.origin.site
       /\ p.previews[q].asks.destination = p.destination

\* All that does not depend on the button: known is whether there is a session.
FormFits(p, known) ==
    /\ p \in Page
    /\ ~known => ~p.applied /\ p.dialog = None
    /\ ~p.applied => OwnForm(p)
    /\ p.results # None =>
         /\ p.results.origin = p.origin.site /\ p.results.destination = p.destination
         /\ AnswerFits(p, p.results)
    /\ \A q \in Preview : p.previews[q] # Idle /\ p.previews[q].current
                            => AnswerFits(p, p.previews[q].asks)
    /\ p.busy => UnderWay(p)

PageFits(p, known) ==
    FormFits(p, known) /\ (~p.enabled /\ Valid(p) => UnderWay(p) \/ p.unheard)

PageIInv ==
    IInv /\ PageFits(page, panel.authenticated) /\ kept \in Settings /\ edits \in 0..MaxEdits

LEMMA AbandonedFits ==
    ASSUME NEW p \in Page, NEW known, Abandoned(p), ButtonIsRight(p),
           ~known => ~p.applied /\ p.dialog = None, ~p.applied => OwnForm(p)
    PROVE  PageFits(p, known)
<1>1. FormFits(p, known)
  BY DEF Abandoned, FormFits
<1> QED BY <1>1 DEF ButtonIsRight, PageFits

LEMMA UpdateFits ==
    ASSUME NEW p, NEW known, FormFits(p, known)
    PROVE  PageFits(UpdateCalculateAvailability(p), known)
<1> DEFINE q == UpdateCalculateAvailability(p)
<1>1. p \in Page
  BY DEF FormFits
<1>2. /\ q \in Page /\ SameForm(p, q) /\ SameAnswers(p, q) /\ SameSettings(p, q)
      /\ ButtonIsRight(q)
  BY <1>1, UpdateFacts
<1> HIDE DEF q
<1>3. UnderWay(q) <=> UnderWay(p)
  BY <1>2 DEF SameForm, SameAnswers, UnderWay
<1>4. \A asks : AnswerFits(p, asks) => AnswerFits(q, asks)
  BY <1>2 DEF SameForm, SameSettings, AnswerFits
<1>5. OwnForm(p) => OwnForm(q)
  BY <1>2 DEF SameForm, OwnForm
<1>6. FormFits(q, known)
  BY <1>2, <1>3, <1>4, <1>5 DEF FormFits, SameForm, SameAnswers, SameSettings
<1>7. PageFits(q, known)
  BY <1>2, <1>6 DEF PageFits, ButtonIsRight
<1> QED BY <1>7 DEF q

\* A step that leaves form, answers and button as they are.
LEMMA KeepsFits ==
    ASSUME NEW p, NEW known, PageFits(p, known), NEW q \in Page, NEW known2,
           SameForm(p, q), SameAnswers(p, q), q.enabled = p.enabled, q.unheard = p.unheard,
           q.applied = p.applied, ~known2 => ~q.applied /\ q.dialog = None
    PROVE  PageFits(q, known2)
<1>1. UnderWay(q) <=> UnderWay(p)
  BY DEF SameForm, SameAnswers, UnderWay
<1>2. \A asks : AnswerFits(p, asks) => AnswerFits(q, asks)
  BY DEF SameForm, AnswerFits
<1>3. OwnForm(p) => OwnForm(q)
  BY DEF SameForm, OwnForm
<1>4. FormFits(q, known2)
  BY <1>1, <1>2, <1>3 DEF PageFits, FormFits, SameForm, SameAnswers
<1>5. Valid(q) = Valid(p)
  BY DEF SameForm, Valid
<1> QED BY <1>1, <1>4, <1>5 DEF PageFits

-----------------------------------------------------------------------------
(* What the visitor does with the form *)

LEMMA TypedIsOwn == "typed" \in Source \ Settings /\ "public" \in Source \ Settings
                      /\ "draft" \in Source \ Settings
BY PageAssumption DEF Source

LEMMA ChooseTypedFits ==
    ASSUME NEW p, NEW known, PageFits(p, known), NEW site \in Site \cup {None}
    PROVE  PageFits(SelectionChanged([p EXCEPT !.origin = [site |-> site, from |-> "typed"]]),
                    known)
<1> DEFINE q == SelectionChanged([p EXCEPT !.origin = [site |-> site, from |-> "typed"]])
<1>1. p \in Page
  BY DEF PageFits, FormFits
<1>2. /\ q \in Page /\ SameSettings(p, q) /\ Abandoned(q) /\ ButtonIsRight(q)
      /\ q.origin.from = "typed" /\ q.schedule = p.schedule /\ q.car = p.car
      /\ q.sort = p.sort
  BY <1>1, TypedIsOwn, ChooseFacts
<1> HIDE DEF q
<1>3. ~q.applied => OwnForm(q)
  BY <1>2, TypedIsOwn DEF PageFits, FormFits, OwnForm, SameSettings
<1>4. ~known => ~q.applied /\ q.dialog = None
  BY <1>2 DEF PageFits, FormFits, SameSettings
<1>5. PageFits(q, known)
  BY <1>2, <1>3, <1>4, AbandonedFits
<1> QED BY <1>5 DEF q

LEMMA ChangeSelectionFits ==
    ASSUME PageIInv, ChangeSelection
    PROVE  PageFits(page', panel.authenticated)
<1> DEFINE known == panel.authenticated
<1>1. PageFits(page, known) /\ page \in Page
  BY DEF PageIInv, PageFits, FormFits
<1>2. CASE \E site \in Site : Edits(Choose(page, site, "typed"))
  BY <1>1, <1>2, ChooseTypedFits DEF Edits, Choose
<1>3. CASE Edits(Clear(page))
  BY <1>1, <1>3, ChooseTypedFits DEF Edits, Clear, NoOrigin
<1>4. CASE \E place \in Place \cup {None} :
             Edits(SelectionChanged([page EXCEPT !.destination = place]))
  <2>1. PICK place \in Place \cup {None} :
          page' = SelectionChanged([page EXCEPT !.destination = place])
    BY <1>4 DEF Edits
  <2> DEFINE r == [page EXCEPT !.destination = place]
             q == SelectionChanged(r)
  <2>2. /\ r \in Page /\ SameSettings(page, r) /\ r.origin = page.origin
        /\ r.schedule = page.schedule /\ r.car = page.car /\ r.sort = page.sort
    BY <1>1 DEF Page, SameSettings
  <2> HIDE DEF r
  <2>3. /\ q \in Page /\ SameForm(r, q) /\ SameSettings(r, q)
        /\ Abandoned(q) /\ ButtonIsRight(q)
    BY <2>2, SelectionChangedFacts
  <2> HIDE DEF q
  <2>4. ~q.applied => OwnForm(q)
    BY <1>1, <2>2, <2>3 DEF PageFits, FormFits, OwnForm, SameForm, SameSettings
  <2>5. ~known => ~q.applied /\ q.dialog = None
    BY <1>1, <2>2, <2>3 DEF PageFits, FormFits, SameSettings
  <2>6. PageFits(q, known)
    BY <2>3, <2>4, <2>5, AbandonedFits
  <2> QED BY <2>1, <2>6 DEF q, r
<1> QED BY <1>2, <1>3, <1>4 DEF ChangeSelection

LEMMA ChangeScheduleFits ==
    ASSUME PageIInv, ChangeSchedule
    PROVE  PageFits(page', panel.authenticated)
<1> DEFINE known == panel.authenticated
<1>1. FormFits(page, known) /\ page \in Page
  BY DEF PageIInv, PageFits, FormFits
<1>2. PICK start \in BOOLEAN, length \in BOOLEAN :
        page' = UpdateCalculateAvailability(
          [page EXCEPT !.schedule = [from |-> "typed", start |-> start, length |-> length]])
  BY DEF ChangeSchedule, Edits
<1> DEFINE schedule == [from |-> "typed", start |-> start, length |-> length]
           r == [page EXCEPT !.schedule = schedule]
<1>3. schedule \in Schedule /\ schedule.from = "typed"
  BY TypedIsOwn DEF Schedule
<1> HIDE DEF schedule
<1>4. /\ r \in Page /\ r.schedule = schedule /\ SameSettings(page, r) /\ SameAnswers(page, r)
      /\ r.origin = page.origin /\ r.destination = page.destination
      /\ r.car = page.car /\ r.sort = page.sort
  BY <1>1, <1>3 DEF Page, SameSettings, SameAnswers
<1> HIDE DEF r
<1>5. \A asks : AnswerFits(page, asks) => AnswerFits(r, asks)
  BY <1>3, <1>4 DEF AnswerFits, SameSettings
<1>6. OwnForm(page) => OwnForm(r)
  BY <1>3, <1>4, TypedIsOwn DEF OwnForm
<1>7. UnderWay(page) <=> UnderWay(r)
  BY <1>4 DEF UnderWay, SameAnswers
<1>8. FormFits(r, known)
  BY <1>1, <1>4, <1>5, <1>6, <1>7 DEF FormFits, SameSettings, SameAnswers
<1> QED BY <1>2, <1>8, UpdateFits DEF r, schedule

LEMMA ChangeNumbersFits ==
    ASSUME PageIInv, ChangeNumbers
    PROVE  PageFits(page', panel.authenticated)
<1> DEFINE known == panel.authenticated
<1>1. FormFits(page, known) /\ page \in Page
  BY DEF PageIInv, PageFits, FormFits
<1>2. ASSUME NEW r \in Page, r.unheard, SameSettings(page, r), SameAnswers(page, r),
             r.origin = page.origin, r.destination = page.destination,
             r.schedule = page.schedule, r.sort = page.sort, r.car.from \in {page.car.from, "typed"}
      PROVE  PageFits(r, known)
  <2>1. \A asks : AnswerFits(page, asks) => AnswerFits(r, asks)
    BY <1>2 DEF AnswerFits, SameSettings
  <2>2. OwnForm(page) => OwnForm(r)
    BY <1>2, TypedIsOwn DEF OwnForm
  <2>3. UnderWay(page) <=> UnderWay(r)
    BY <1>2 DEF UnderWay, SameAnswers
  <2>4. FormFits(r, known)
    BY <1>1, <1>2, <2>1, <2>2, <2>3 DEF FormFits, SameSettings, SameAnswers
  <2> QED BY <1>2, <2>4 DEF PageFits
<1>3. CASE \E fits \in BOOLEAN :
             Edits([page EXCEPT !.car = [from |-> "typed", fits |-> fits], !.unheard = TRUE])
  <2>1. PICK fits \in BOOLEAN :
          page' = [page EXCEPT !.car = [from |-> "typed", fits |-> fits], !.unheard = TRUE]
    BY <1>3 DEF Edits
  <2> DEFINE car == [from |-> "typed", fits |-> fits]
             r == [page EXCEPT !.car = car, !.unheard = TRUE]
  <2>2. car \in Car /\ car.from = "typed"
    BY TypedIsOwn DEF Car
  <2> HIDE DEF car
  <2>3. /\ r \in Page /\ r.unheard = TRUE /\ SameSettings(page, r) /\ SameAnswers(page, r)
        /\ r.origin = page.origin /\ r.destination = page.destination
        /\ r.schedule = page.schedule /\ r.sort = page.sort /\ r.car = car
    BY <1>1, <2>2 DEF Page, SameSettings, SameAnswers
  <2> HIDE DEF r
  <2>4. PageFits(r, known)
    BY <1>2, <2>2, <2>3
  <2> QED BY <2>1, <2>4 DEF r, car
<1>4. CASE Edits([page EXCEPT !.allowanceFits = ~@, !.unheard = TRUE])
  <2> DEFINE fits == ~page.allowanceFits
             r == [page EXCEPT !.allowanceFits = fits, !.unheard = TRUE]
  <2>1. fits \in BOOLEAN
    OBVIOUS
  <2>2. page' = r
    BY <1>1, <1>4 DEF Edits, Page
  <2> HIDE DEF fits
  <2>3. /\ r \in Page /\ r.unheard = TRUE /\ SameSettings(page, r) /\ SameAnswers(page, r)
        /\ r.origin = page.origin /\ r.destination = page.destination
        /\ r.schedule = page.schedule /\ r.sort = page.sort /\ r.car = page.car
    BY <1>1, <2>1 DEF Page, SameSettings, SameAnswers
  <2> HIDE DEF r
  <2> QED BY <1>2, <2>2, <2>3
<1> QED BY <1>3, <1>4 DEF ChangeNumbers

LEMMA SortResultsFits ==
    ASSUME PageIInv, SortResults
    PROVE  PageFits(page', panel.authenticated)
<1> DEFINE known == panel.authenticated
           r == [page EXCEPT !.sort = "typed"]
<1>1. PageFits(page, known) /\ FormFits(page, known) /\ page \in Page /\ page' = r
  BY DEF PageIInv, PageFits, FormFits, SortResults, Edits
<1>2. /\ r \in Page /\ SameSettings(page, r) /\ SameAnswers(page, r) /\ r.sort = "typed"
      /\ r.origin = page.origin /\ r.destination = page.destination
      /\ r.schedule = page.schedule /\ r.car = page.car /\ r.allowanceFits = page.allowanceFits
      /\ r.enabled = page.enabled /\ r.unheard = page.unheard
  BY <1>1, TypedIsOwn DEF Page, SameSettings, SameAnswers
<1> HIDE DEF r
<1>3. \A asks : AnswerFits(page, asks) => AnswerFits(r, asks)
  BY <1>2 DEF AnswerFits, SameSettings
<1>4. OwnForm(page) => OwnForm(r)
  BY <1>2, TypedIsOwn DEF OwnForm
<1>5. UnderWay(page) <=> UnderWay(r)
  BY <1>2 DEF UnderWay, SameAnswers
<1>6. Valid(r) = Valid(page)
  BY <1>2 DEF Valid
<1>7. FormFits(r, known)
  BY <1>1, <1>2, <1>3, <1>4, <1>5 DEF FormFits, SameSettings, SameAnswers
<1> QED BY <1>1, <1>2, <1>5, <1>6, <1>7 DEF PageFits

LEMMA CalculateFits ==
    ASSUME PageIInv, NEW q \in Preview, Calculate(q)
    PROVE  PageFits(page', panel.authenticated)
<1> DEFINE known == panel.authenticated
           asks == [origin |-> page.origin.site, destination |-> page.destination,
                    schedule |-> page.schedule.from, car |-> page.car.from]
           call == [asks |-> asks, current |-> TRUE]
           previews == [page.previews EXCEPT ![q] = call]
           r == [page EXCEPT !.enabled = FALSE, !.busy = TRUE, !.previews = previews]
<1>1. /\ PageFits(page, known) /\ FormFits(page, known) /\ page \in Page
      /\ page.previews[q] = Idle
  BY DEF PageIInv, PageFits, FormFits, Calculate
<1>2. page' = IF ~Valid(page) THEN UpdateCalculateAvailability(page) ELSE r
  BY <1>1 DEF Calculate, Edits, Page
<1>3. CASE ~Valid(page)
  BY <1>1, <1>2, <1>3, UpdateFits
<1>4. CASE Valid(page)
  <2>1. /\ page.origin \in Origin /\ page.schedule \in Schedule /\ page.car \in Car
        /\ page.destination \in Place /\ page.origin.site \in Site
        /\ page.previews \in [Preview -> {Idle} \cup Asking]
    BY <1>1, <1>4 DEF Valid, Page, Origin
  <2>2. /\ asks \in Questions /\ asks.origin = page.origin.site
        /\ asks.destination = page.destination
        /\ asks.schedule = page.schedule.from /\ asks.car = page.car.from
    BY <2>1 DEF Questions, Schedule, Car
  <2> HIDE DEF asks
  <2>3. call \in Asking /\ call # Idle /\ call.asks = asks /\ call.current
    BY <2>2 DEF Asking, Idle
  <2> HIDE DEF call
  <2>4. /\ previews \in [Preview -> {Idle} \cup Asking] /\ previews[q] = call
        /\ \A o \in Preview \ {q} : previews[o] = page.previews[o]
    BY <2>1, <2>3
  <2> HIDE DEF previews
  <2>5. /\ r \in Page /\ SameForm(page, r) /\ SameSettings(page, r) /\ r.previews = previews
        /\ r.results = page.results
    BY <1>1, <2>4 DEF Page, SameForm, SameSettings
  <2> HIDE DEF r
  <2>6. UnderWay(r)
    BY <2>2, <2>3, <2>4, <2>5 DEF UnderWay, SameForm
  <2>7. \A a : AnswerFits(page, a) => AnswerFits(r, a)
    BY <2>5 DEF AnswerFits, SameForm, SameSettings
  <2>8. OwnForm(page) => OwnForm(r)
    BY <2>5 DEF OwnForm, SameForm
  <2>9. AnswerFits(r, asks)
    BY <1>1, <2>2, <2>5 DEF FormFits, OwnForm, AnswerFits, SameForm, SameSettings
  <2>10. \A o \in Preview : r.previews[o] # Idle /\ r.previews[o].current
                              => AnswerFits(r, r.previews[o].asks)
    BY <1>1, <2>3, <2>4, <2>5, <2>7, <2>9 DEF FormFits
  <2>11. FormFits(r, known)
    BY <1>1, <2>5, <2>6, <2>7, <2>8, <2>10 DEF FormFits, SameForm, SameSettings
  <2> QED BY <1>2, <1>4, <2>6, <2>11 DEF PageFits
<1> QED BY <1>3, <1>4

-----------------------------------------------------------------------------
(* The answers *)

LEMMA OverFacts ==
    ASSUME page \in Page, NEW q \in Preview
    PROVE  /\ Over(q) \in Page /\ SameForm(page, Over(q)) /\ SameSettings(page, Over(q))
           /\ Over(q).results = page.results /\ Over(q).busy = page.busy
           /\ Over(q).enabled = page.enabled /\ Over(q).unheard = page.unheard
           /\ Over(q).previews[q] = Idle
           /\ \A o \in Preview \ {q} : Over(q).previews[o] = page.previews[o]
<1> DEFINE previews == [page.previews EXCEPT ![q] = Idle]
           r == [page EXCEPT !.previews = previews]
<1>1. page.previews \in [Preview -> {Idle} \cup Asking]
  BY DEF Page
<1>2. /\ previews \in [Preview -> {Idle} \cup Asking] /\ previews[q] = Idle
      /\ \A o \in Preview \ {q} : previews[o] = page.previews[o]
  BY <1>1
<1>3. Over(q) = r
  BY DEF Over, Page
<1> HIDE DEF previews
<1>4. /\ r \in Page /\ SameForm(page, r) /\ SameSettings(page, r) /\ r.previews = previews
      /\ r.results = page.results /\ r.busy = page.busy
      /\ r.enabled = page.enabled /\ r.unheard = page.unheard
  BY <1>2 DEF Page, SameForm, SameSettings
<1> HIDE DEF r
<1> QED BY <1>2, <1>3, <1>4

\* The finally block of calculate, whatever result was put on screen.
LEMMA ReadyFits ==
    ASSUME PageIInv, NEW q \in Preview, page.previews[q] # Idle, RequestIsCurrent(q),
           NEW results \in {page.results, page.previews[q].asks},
           page' = Ready([Over(q) EXCEPT !.results = results])
    PROVE  PageFits(page', panel.authenticated)
<1> DEFINE known == panel.authenticated
           r == [Over(q) EXCEPT !.results = results]
           u == UpdateCalculateAvailability(r)
           f == [u EXCEPT !.busy = FALSE]
<1>1. FormFits(page, known) /\ page \in Page
  BY DEF PageIInv, PageFits, FormFits
<1>2. /\ Over(q) \in Page /\ SameForm(page, Over(q)) /\ SameSettings(page, Over(q))
      /\ Over(q).results = page.results
      /\ Over(q).previews[q] = Idle
      /\ \A o \in Preview \ {q} : Over(q).previews[o] = page.previews[o]
  BY <1>1, OverFacts
<1>3. /\ page.previews[q] \in Asking /\ page.results \in Questions \cup {None}
      /\ page.previews[q].asks \in Questions /\ page.previews[q].current
      /\ page.previews[q].asks.origin = page.origin.site
      /\ page.previews[q].asks.destination = page.destination
  BY <1>1 DEF Page, Asking, RequestIsCurrent
<1>4. /\ results \in Questions \cup {None}
      /\ results # None => /\ results.origin = page.origin.site
                           /\ results.destination = page.destination
                           /\ AnswerFits(page, results)
  BY <1>1, <1>3 DEF FormFits
<1>5. /\ r \in Page /\ SameForm(Over(q), r) /\ SameSettings(Over(q), r)
      /\ r.previews = Over(q).previews /\ r.results = results
  BY <1>2, <1>4 DEF Page, SameForm, SameSettings
<1> HIDE DEF r
<1>6. u \in Page /\ SameForm(r, u) /\ SameAnswers(r, u) /\ SameSettings(r, u) /\ ButtonIsRight(u)
  BY <1>5, UpdateFacts
<1> HIDE DEF u
<1>7. /\ f \in Page /\ SameForm(u, f) /\ SameSettings(u, f) /\ f.busy = FALSE
      /\ f.enabled = u.enabled /\ f.previews = u.previews /\ f.results = u.results
  BY <1>6 DEF Page, SameForm, SameSettings
<1>8. page' = f
  BY DEF Ready, f, u, r
<1> HIDE DEF f
<1>9. SameForm(page, f) /\ f.applied = page.applied /\ f.dialog = page.dialog
  BY <1>2, <1>5, <1>6, <1>7 DEF SameForm, SameSettings
<1>10. \A a : AnswerFits(page, a) => AnswerFits(f, a)
  BY <1>9 DEF AnswerFits, SameForm
<1>11. OwnForm(page) => OwnForm(f)
  BY <1>9 DEF OwnForm, SameForm
<1>12. \A o \in Preview : f.previews[o] = Idle \/ f.previews[o] = page.previews[o]
  BY <1>2, <1>5, <1>6, <1>7 DEF SameAnswers
<1>13. f.results = results
  BY <1>5, <1>6, <1>7 DEF SameAnswers
<1>14. FormFits(f, known)
  BY <1>1, <1>4, <1>7, <1>9, <1>10, <1>11, <1>12, <1>13 DEF FormFits, SameForm
<1>15. f.enabled <=> Valid(f)
  BY <1>6, <1>7 DEF ButtonIsRight, SameForm, Valid
<1> QED BY <1>8, <1>14, <1>15 DEF PageFits

LEMMA PreviewEndsFits ==
    ASSUME PageIInv, NEW q \in Preview,
           PreviewArrives(q) \/ PreviewFails(q) \/ PreviewIsStale(q)
    PROVE  PageFits(page', panel.authenticated)
<1> DEFINE known == panel.authenticated
<1>1. PageFits(page, known) /\ FormFits(page, known) /\ page \in Page
  BY DEF PageIInv, PageFits, FormFits
<1>2. CASE PreviewArrives(q)
  BY <1>2, ReadyFits DEF PreviewArrives
<1>3. CASE PreviewFails(q)
  <2>1. [Over(q) EXCEPT !.results = page.results] = Over(q)
    BY <1>1, OverFacts DEF Page
  <2> QED BY <1>3, <2>1, ReadyFits DEF PreviewFails
<1>4. CASE PreviewIsStale(q)
  <2> DEFINE r == Over(q)
  <2>1. page' = r /\ page.previews[q] # Idle /\ ~RequestIsCurrent(q)
    BY <1>4 DEF PreviewIsStale
  <2>2. /\ r \in Page /\ SameForm(page, r) /\ SameSettings(page, r)
        /\ r.results = page.results /\ r.busy = page.busy
        /\ r.enabled = page.enabled /\ r.unheard = page.unheard
        /\ r.previews[q] = Idle
        /\ \A o \in Preview \ {q} : r.previews[o] = page.previews[o]
    BY <1>1, OverFacts
  <2> HIDE DEF r
  <2>3. UnderWay(page) => UnderWay(r)
    BY <2>1, <2>2 DEF UnderWay, SameForm, RequestIsCurrent
  <2>4. \A a : AnswerFits(page, a) => AnswerFits(r, a)
    BY <2>2 DEF AnswerFits, SameForm, SameSettings
  <2>5. OwnForm(page) => OwnForm(r)
    BY <2>2 DEF OwnForm, SameForm
  <2>6. FormFits(r, known)
    <3>1. \A o \in Preview : r.previews[o] # Idle /\ r.previews[o].current
                               => AnswerFits(r, r.previews[o].asks)
      BY <1>1, <2>2, <2>4 DEF FormFits
    <3> QED BY <1>1, <2>2, <2>3, <2>4, <2>5, <3>1 DEF FormFits, SameForm, SameSettings
  <2>7. Valid(r) = Valid(page)
    BY <2>2 DEF Valid, SameForm
  <2> QED BY <1>1, <2>1, <2>2, <2>3, <2>6, <2>7 DEF PageFits
<1> QED BY <1>2, <1>3, <1>4

-----------------------------------------------------------------------------
(* The visitor's settings *)

LEMMA SettingsCalls ==
    ASSUME NEW p \in Page
    PROVE  /\ p.settingsLoad.stage = "read" =>
                p.settingsLoad.settings \in Settings /\ p.settingsLoad.origin \in Site \cup {None}
           /\ p.settingsSave.stage \in {"asked", "stored"} => p.settingsSave.settings \in Settings
<1>1. p.settingsLoad \in Loading /\ p.settingsSave \in Saving
  BY DEF Page
<1>2. ASSUME NEW load \in Loading, load.stage = "read"
      PROVE  load.settings \in Settings /\ load.origin \in Site \cup {None}
  BY <1>2 DEF Loading, Idle
<1>3. ASSUME NEW save \in Saving, save.stage \in {"asked", "stored"}
      PROVE  save.settings \in Settings
  BY <1>3 DEF Saving, Idle
<1> QED BY <1>1, <1>2, <1>3

\* A call for the settings begins, goes on or ends.
LEMMA SettingsCallFits ==
    ASSUME NEW p, NEW known, PageFits(p, known)
    PROVE  /\ \A load \in Loading : PageFits([p EXCEPT !.settingsLoad = load], known)
           /\ \A save \in Saving : PageFits([p EXCEPT !.settingsSave = save], known)
<1>1. p \in Page /\ (~known => ~p.applied /\ p.dialog = None)
  BY DEF PageFits, FormFits
<1>2. ASSUME NEW load \in Loading
      PROVE  PageFits([p EXCEPT !.settingsLoad = load], known)
  <2> DEFINE q == [p EXCEPT !.settingsLoad = load]
  <2>1. /\ q \in Page /\ SameForm(p, q) /\ SameAnswers(p, q)
        /\ q.enabled = p.enabled /\ q.unheard = p.unheard
        /\ q.applied = p.applied /\ q.dialog = p.dialog
    BY <1>1 DEF Page, SameForm, SameAnswers
  <2> HIDE DEF q
  <2>2. PageFits(q, known)
    BY <1>1, <2>1, KeepsFits
  <2> QED BY <2>2 DEF q
<1>3. ASSUME NEW save \in Saving
      PROVE  PageFits([p EXCEPT !.settingsSave = save], known)
  <2> DEFINE q == [p EXCEPT !.settingsSave = save]
  <2>1. /\ q \in Page /\ SameForm(p, q) /\ SameAnswers(p, q)
        /\ q.enabled = p.enabled /\ q.unheard = p.unheard
        /\ q.applied = p.applied /\ q.dialog = p.dialog
    BY <1>1 DEF Page, SameForm, SameAnswers
  <2> HIDE DEF q
  <2>2. PageFits(q, known)
    BY <1>1, <2>1, KeepsFits
  <2> QED BY <2>2 DEF q
<1> QED BY <1>2, <1>3

LEMMA SettingsLoadEndsFits ==
    ASSUME NEW p, NEW known, PageFits(p, known)
    PROVE  LET q == SettingsLoadEnds(p)
           IN /\ PageFits(q, known) /\ q \in Page /\ SameForm(p, q) /\ SameAnswers(p, q)
              /\ q.enabled = p.enabled /\ q.unheard = p.unheard
              /\ q.applied = p.applied /\ q.dialog = p.dialog
<1> DEFINE save == IF p.settingsSave.stage = "loading" THEN Idle ELSE p.settingsSave
           q == [p EXCEPT !.settingsLoad = Idle, !.settingsSave = save]
<1>1. p \in Page /\ p.settingsSave \in Saving /\ (~known => ~p.applied /\ p.dialog = None)
  BY DEF PageFits, FormFits, Page
<1>2. save \in Saving /\ Idle \in Loading
  BY <1>1 DEF Saving, Loading
<1>3. SettingsLoadEnds(p) = q
  BY <1>1 DEF SettingsLoadEnds, Page
<1> HIDE DEF save
<1>4. /\ q \in Page /\ SameForm(p, q) /\ SameAnswers(p, q)
      /\ q.enabled = p.enabled /\ q.unheard = p.unheard
      /\ q.applied = p.applied /\ q.dialog = p.dialog
  BY <1>1, <1>2 DEF Page, SameForm, SameAnswers
<1> HIDE DEF q
<1>5. PageFits(q, known)
  BY <1>1, <1>4, KeepsFits
<1> QED BY <1>3, <1>4, <1>5

LEMMA ApplyFits ==
    ASSUME NEW p \in Page, NEW s \in Settings, NEW origin \in Site \cup {None}
    PROVE  PageFits(Apply(p, s, origin), TRUE)
<1> DEFINE q == Apply(p, s, origin)
<1>1. q \in Page /\ q.applied = TRUE /\ Abandoned(q) /\ ButtonIsRight(q)
  BY ApplyFacts
<1> HIDE DEF q
<1>2. PageFits(q, TRUE)
  BY <1>1, AbandonedFits
<1> QED BY <1>2 DEF q

LEMMA LoadStepsFit ==
    ASSUME PageIInv, ReadSettings \/ SettingsArrive \/ SettingsFail
    PROVE  PageFits(page', panel.authenticated) /\ kept' \in Settings
<1> DEFINE known == panel.authenticated
<1>1. PageFits(page, known) /\ page \in Page /\ kept \in Settings
  BY DEF PageIInv, PageFits, FormFits
<1>2. kept' \in Settings
  BY <1>1 DEF ReadSettings, SettingsArrive, SettingsFail
<1>3. CASE ReadSettings
  <2>1. PICK origin \in {None, DefaultOrigin(kept)} :
          page' = [page EXCEPT !.settingsLoad =
                     [stage |-> "read", settings |-> kept, origin |-> origin]]
    BY <1>3 DEF ReadSettings
  <2>2. origin \in Site \cup {None}
    BY <1>1, PageAssumption
  <2>3. [stage |-> "read", settings |-> kept, origin |-> origin] \in Loading
    BY <1>1, <2>2 DEF Loading
  <2> QED BY <1>1, <1>2, <2>1, <2>3, SettingsCallFits
<1>4. CASE SettingsArrive
  <2>1. /\ page.settingsLoad.stage = "read" /\ panel.authenticated
        /\ page' = Apply(SettingsLoadEnds(page), page.settingsLoad.settings,
                         page.settingsLoad.origin)
    BY <1>4 DEF SettingsArrive
  <2>2. SettingsLoadEnds(page) \in Page
    BY <1>1, SettingsLoadEndsFits
  <2>3. PageFits(page', TRUE)
    BY <1>1, <2>1, <2>2, SettingsCalls, ApplyFits
  <2> QED BY <1>2, <2>1, <2>3 DEF PageFits, FormFits
<1>5. CASE SettingsFail
  BY <1>1, <1>2, <1>5, SettingsLoadEndsFits DEF SettingsFail
<1> QED BY <1>3, <1>4, <1>5

LEMMA SaveStepsFit ==
    ASSUME PageIInv,
           \/ \E s \in Settings : SaveSettings(s)
           \/ StoreSettings \/ SettingsSaved \/ SettingsNotSaved
    PROVE  PageFits(page', panel.authenticated) /\ kept' \in Settings
<1> DEFINE known == panel.authenticated
<1>1. PageFits(page, known) /\ page \in Page /\ kept \in Settings /\ page.settingsSave \in Saving
  BY DEF PageIInv, PageFits, FormFits, Page
<1>2. Idle \in Saving /\ [stage |-> "loading"] \in Saving /\ [stage |-> "asked"] \in Loading
  BY DEF Saving, Loading
<1>3. CASE \E s \in Settings : SaveSettings(s)
  <2>1. PICK s \in Settings :
          /\ page' = [page EXCEPT !.settingsSave = [stage |-> "asked", settings |-> s]]
          /\ kept' = kept
    BY <1>3 DEF SaveSettings, Edits
  <2>2. [stage |-> "asked", settings |-> s] \in Saving
    BY DEF Saving
  <2> QED BY <1>1, <2>1, <2>2, SettingsCallFits
<1>4. CASE StoreSettings
  <2> DEFINE s == page.settingsSave.settings
             save == [page.settingsSave EXCEPT !.stage = "stored"]
  <2>1. /\ page.settingsSave.stage = "asked" /\ kept' = s
        /\ page' = [page EXCEPT !.settingsSave = save]
    BY <1>1, <1>4 DEF StoreSettings, Page
  <2>2. s \in Settings
    BY <1>1, <2>1, SettingsCalls
  <2>3. page.settingsSave \in [stage: {"asked", "stored"}, settings: Settings]
    BY <1>1, <2>1 DEF Saving, Idle
  <2>4. save \in Saving
    BY <2>3 DEF Saving
  <2> QED BY <1>1, <2>1, <2>2, <2>4, SettingsCallFits
<1>5. CASE SettingsSaved /\ ~panel.authenticated
  <2>1. page' = [page EXCEPT !.settingsSave = Idle] /\ kept' = kept
    BY <1>5 DEF SettingsSaved
  <2> QED BY <1>1, <1>2, <2>1, SettingsCallFits
<1>6. CASE SettingsSaved /\ panel.authenticated
  <2> DEFINE s == page.settingsSave.settings
             a == [page EXCEPT !.settingsSave = [stage |-> "loading"]]
             b == Apply(a, s, DefaultOrigin(s))
  <2>1. /\ page.settingsSave.stage = "stored" /\ kept' = kept
        /\ page' = [b EXCEPT !.settingsLoad = [stage |-> "asked"]]
    BY <1>6 DEF SettingsSaved, LoadSettings
  <2>2. s \in Settings /\ DefaultOrigin(s) \in Site \cup {None}
    BY <1>1, <2>1, SettingsCalls, PageAssumption
  <2>3. PageFits(a, known)
    BY <1>1, <1>2, SettingsCallFits
  <2>4. a \in Page
    BY <2>3 DEF PageFits, FormFits
  <2> HIDE DEF s, a
  <2>5. PageFits(b, TRUE)
    BY <2>2, <2>4, ApplyFits
  <2> HIDE DEF b
  <2>6. PageFits(page', TRUE)
    BY <1>2, <2>1, <2>5, SettingsCallFits
  <2> QED BY <1>1, <1>6, <2>1, <2>6 DEF PageFits, FormFits
<1>7. CASE SettingsNotSaved
  <2>1. page' = [page EXCEPT !.settingsSave = Idle] /\ kept' = kept
    BY <1>7 DEF SettingsNotSaved
  <2> QED BY <1>1, <1>2, <2>1, SettingsCallFits
<1> QED BY <1>3, <1>4, <1>5, <1>6, <1>7

-----------------------------------------------------------------------------
(* The session and the drafts *)

LEMMA SessionEndsFits ==
    ASSUME NEW p, NEW known, PageFits(p, known)
    PROVE  PageFits(SessionEnds(p), FALSE)
<1> DEFINE e == SettingsLoadEnds(p)
           left == [e EXCEPT !.dialog = None]
<1>1. /\ PageFits(e, known) /\ e \in Page /\ e.applied = p.applied
  BY SettingsLoadEndsFits
<1> HIDE DEF e
<1>2. /\ left \in Page /\ SameForm(e, left) /\ SameAnswers(e, left)
      /\ left.enabled = e.enabled /\ left.unheard = e.unheard
      /\ left.applied = e.applied /\ left.dialog = None
  BY <1>1 DEF Page, SameForm, SameAnswers
<1>3. SessionEnds(p) = IF p.applied THEN ResetAnonymousPublicSettings(left) ELSE left
  BY DEF SessionEnds, left, e
<1> HIDE DEF left
<1>4. CASE p.applied
  <2> DEFINE q == ResetAnonymousPublicSettings(left)
  <2>1. /\ q \in Page /\ q.applied = FALSE /\ q.dialog = left.dialog
        /\ Abandoned(q) /\ ButtonIsRight(q)
        /\ q.origin.from \in {"typed", "public"} /\ q.schedule.from = "public"
        /\ q.car.from = "public" /\ q.sort = "public"
    BY <1>2, ResetFacts
  <2> HIDE DEF q
  <2>2. OwnForm(q)
    BY <2>1, TypedIsOwn DEF OwnForm
  <2>3. PageFits(q, FALSE)
    BY <1>2, <2>1, <2>2, AbandonedFits
  <2> QED BY <1>3, <1>4, <2>3 DEF q
<1>5. CASE ~p.applied
  <2>1. PageFits(left, FALSE)
    BY <1>1, <1>2, <1>5, KeepsFits
  <2> QED BY <1>3, <1>5, <2>1
<1> QED BY <1>4, <1>5

LEMMA TakeDraftFits ==
    ASSUME NEW p, NEW known, PageFits(p, known), NEW origin \in Site \cup {None}
    PROVE  PageFits(TakeDraft(p, origin), known)
<1> DEFINE q == TakeDraft(p, origin)
<1>1. p \in Page /\ (~known => ~p.applied /\ p.dialog = None) /\ (~p.applied => OwnForm(p))
  BY DEF PageFits, FormFits
<1>2. /\ q \in Page /\ SameSettings(p, q) /\ Abandoned(q) /\ ButtonIsRight(q)
      /\ q.origin.from \in {"typed", "draft"} /\ q.schedule.from = "draft"
      /\ q.car = p.car /\ q.sort = p.sort
  BY <1>1, TakeDraftFacts
<1> HIDE DEF q
<1>3. ~q.applied => OwnForm(q)
  BY <1>1, <1>2, TypedIsOwn DEF OwnForm, SameSettings
<1>4. PageFits(q, known)
  BY <1>1, <1>2, <1>3, AbandonedFits DEF SameSettings
<1> QED BY <1>4 DEF q

\* The panel's handlers do not change who is logged in.
LEMMA HandlersKeepSession ==
    ASSUME NEW p, "authenticated" \in DOMAIN p
    PROVE  /\ LoadNext(p).authenticated = p.authenticated
           /\ Refresh(p).authenticated = p.authenticated
           /\ Loaded(p).authenticated = p.authenticated
<1>1. LoadNext(p).authenticated = p.authenticated
  BY DEF LoadNext
<1>2. Refresh(p).authenticated = p.authenticated
  <2> DEFINE fresh == [p EXCEPT !.activeDetail = 0, !.loadedOnce = FALSE, !.nextCursor = 0,
                                !.rows = <<>>, !.loadFailed = FALSE, !.loading = Outdated(@)]
             later == [fresh EXCEPT !.refreshPending = TRUE]
             asked == [fresh EXCEPT !.loading = Asked(fresh.nextCursor)]
  <2>1. /\ fresh.authenticated = p.authenticated /\ later.authenticated = p.authenticated
        /\ asked.authenticated = p.authenticated
    OBVIOUS
  <2>2. Refresh(p) \in {p, later, LoadNext(fresh)}
    BY DEF Refresh
  <2>3. LoadNext(fresh) \in {fresh, asked}
    BY DEF LoadNext
  <2> HIDE DEF fresh, later, asked
  <2> QED BY <2>1, <2>2, <2>3
<1>3. Loaded(p).authenticated = p.authenticated
  <2> DEFINE free == [p EXCEPT !.loading = Idle]
             calm == [free EXCEPT !.refreshPending = FALSE]
             asked == [calm EXCEPT !.loading = Asked(calm.nextCursor)]
  <2>1. /\ free.authenticated = p.authenticated /\ calm.authenticated = p.authenticated
        /\ asked.authenticated = p.authenticated
    OBVIOUS
  <2>2. Loaded(p) \in {free, LoadNext(calm)}
    BY DEF Loaded
  <2>3. LoadNext(calm) \in {calm, asked}
    BY DEF LoadNext
  <2> HIDE DEF free, calm, asked
  <2> QED BY <2>1, <2>2, <2>3
<1> QED BY <1>1, <1>2, <1>3

LEMMA SessionKept ==
    ASSUME IInv, ListNext \/ PreviewAnswered
    PROVE  panel'.authenticated = panel.authenticated
<1>1. panel \in Panel /\ "authenticated" \in DOMAIN panel
  BY DEF IInv, Good, Panel
<1>2. CASE PreviewAnswered
  <2> DEFINE told == [panel EXCEPT !.refreshAfterSavedPreview = TRUE]
  <2>1. told.authenticated = panel.authenticated
    BY <1>1 DEF Panel
  <2>2. panel' \in {Refresh(panel), told}
    BY <1>2 DEF PreviewAnswered, RefreshForSavedPreview
  <2> HIDE DEF told
  <2> QED BY <1>1, <2>1, <2>2, HandlersKeepSession
<1>3. CASE ReadPage \/ Save \/ \E x \in Row : Vanish(x)
  BY <1>1, <1>3 DEF ReadPage, Save, Vanish, Panel
<1>4. CASE ShowPage \/ DropPage \/ FailPage
  <2> DEFINE shown == [panel EXCEPT !.rows = @ \o panel.loading.items,
                                    !.nextCursor = panel.loading.next,
                                    !.loadedOnce = TRUE, !.loadFailed = FALSE]
             failed == [panel EXCEPT !.loadFailed = TRUE]
  <2>1. PICK p \in {shown, failed, panel} : panel' = Loaded(p)
    BY <1>4 DEF ShowPage, DropPage, FailPage
  <2>2. p.authenticated = panel.authenticated
    BY <1>1, <2>1 DEF Panel
  <2>3. "authenticated" \in DOMAIN p
    BY <1>1, <2>1 DEF Panel
  <2> QED BY <2>1, <2>2, <2>3, HandlersKeepSession
<1>5. CASE ShowList \/ CloseList \/ LoadMore
  <2> DEFINE open == [panel EXCEPT !.listOpen = TRUE]
             closed == [panel EXCEPT !.listOpen = FALSE]
  <2>1. /\ "authenticated" \in DOMAIN open /\ open.authenticated = panel.authenticated
        /\ closed.authenticated = panel.authenticated
    BY <1>1 DEF Panel
  <2>2. panel' \in {Refresh(open), closed, LoadNext(panel)}
    BY <1>5 DEF ShowList, CloseList, LoadMore
  <2> HIDE DEF open, closed
  <2> QED BY <1>1, <2>1, <2>2, HandlersKeepSession
<1>6. CASE CloseDetailClicked
  BY <1>1, <1>6, CloseDetailFacts DEF CloseDetailClicked, SameList
<1>7. ASSUME NEW c \in Call, ClickRow(c) \/ ClickDeleteAll(c) \/ Serve(c) \/ CallFails(c)
      PROVE  panel' = panel
  BY <1>7 DEF ClickRow, ClickDeleteAll, Start, Serve, CallFails
<1>8. ASSUME NEW c \in Call, OpenDetail(c)
      PROVE  panel'.authenticated = panel.authenticated
  BY <1>1, <1>8 DEF OpenDetail, Panel
<1>9. ASSUME NEW c \in Call, Deleted(c)
      PROVE  panel'.authenticated = panel.authenticated
  <2> DEFINE l == LeaveDetail(panel)
  <2>1. "authenticated" \in DOMAIN l /\ l.authenticated = panel.authenticated
    BY <1>1, LeaveDetailFacts DEF SameList, Panel
  <2>2. panel' = Refresh(l)
    BY <1>9 DEF Deleted
  <2> HIDE DEF l
  <2> QED BY <2>1, <2>2, HandlersKeepSession
<1> QED BY <1>2, <1>3, <1>4, <1>5, <1>6, <1>7, <1>8, <1>9 DEF ListNext

LEMMA SessionStepsFit ==
    ASSUME PageIInv,
           PageSessionAnswered \/ PageLogOut \/ \E c \in Call : PageApplyDraft(c)
    PROVE  PageFits(page', panel'.authenticated)
<1>1. /\ PageFits(page, panel.authenticated) /\ panel \in Panel
      /\ panel.authenticated \in BOOLEAN
  BY DEF PageIInv, IInv, Good, Panel
<1>2. LoggedOut(panel).authenticated = FALSE
  BY <1>1, LoggedOutIsBlank
<1>3. PageFits(SessionEnds(page), FALSE)
  BY <1>1, SessionEndsFits
<1>4. CASE PageLogOut
  BY <1>2, <1>3, <1>4 DEF PageLogOut, LogOut
<1>5. CASE PageSessionAnswered
  <2>1. /\ panel' \in {LoggedIn(panel), LoggedOut(panel)}
        /\ page' = IF panel'.authenticated THEN SessionBegins(page) ELSE SessionEnds(page)
    BY <1>5 DEF PageSessionAnswered, SessionAnswered
  <2>2. CASE panel'.authenticated
    <3>1. [stage |-> "asked"] \in Loading
      BY DEF Loading
    <3>2. PageFits(SessionBegins(page), panel.authenticated)
      BY <1>1, <3>1, SettingsCallFits DEF SessionBegins, LoadSettings
    <3> QED BY <2>1, <2>2, <3>2 DEF PageFits, FormFits
  <2>3. CASE ~panel'.authenticated
    BY <1>3, <2>1, <2>3 DEF PageFits, FormFits
  <2> QED BY <2>2, <2>3
<1>6. ASSUME NEW c \in Call, PageApplyDraft(c)
      PROVE  PageFits(page', panel'.authenticated)
  <2> DEFINE l == LeaveDetail(panel)
             closed == [l EXCEPT !.listOpen = FALSE]
  <2>1. l \in Panel /\ l.authenticated = panel.authenticated
    BY <1>1, LeaveDetailFacts DEF SameList
  <2>2. panel' \in {panel, closed}
    BY <1>6 DEF PageApplyDraft, ApplyDraft
  <2> HIDE DEF l
  <2>3. closed.authenticated = l.authenticated
    BY <2>1 DEF Panel
  <2> HIDE DEF closed
  <2>4. panel'.authenticated = panel.authenticated
    BY <2>1, <2>2, <2>3
  <2>5. page' = page \/ \E origin \in Site \cup {None} : page' = TakeDraft(page, origin)
    BY <1>6 DEF PageApplyDraft
  <2> QED BY <1>1, <2>4, <2>5, TakeDraftFits
<1> QED BY <1>4, <1>5, <1>6

-----------------------------------------------------------------------------
(* The page's theorems *)

LEMMA PageStarts == Init /\ PageInit => PageIInv
<1> SUFFICES ASSUME Init, PageInit PROVE PageIInv
  OBVIOUS
<1>1. IInv /\ page = FirstPage /\ kept \in Settings /\ edits = 0
  BY PanelStarts DEF PageInit
<1> DEFINE schedule == [from |-> "public", start |-> TRUE, length |-> TRUE]
           car == [from |-> "public", fits |-> TRUE]
           previews == [q \in Preview |-> Idle]
           first == [origin |-> NoOrigin, destination |-> None,
                     schedule |-> schedule, car |-> car, allowanceFits |-> TRUE,
                     sort |-> "public", enabled |-> FALSE, busy |-> FALSE, unheard |-> FALSE,
                     results |-> None, applied |-> FALSE, dialog |-> None,
                     previews |-> previews, settingsLoad |-> Idle, settingsSave |-> Idle]
<1>2. /\ NoOrigin \in Origin /\ NoOrigin.from = "typed" /\ NoOrigin.site = None
      /\ schedule \in Schedule /\ schedule.from = "public"
      /\ car \in Car /\ car.from = "public"
      /\ previews \in [Preview -> {Idle} \cup Asking] /\ \A q \in Preview : previews[q] = Idle
      /\ Idle \in Loading /\ Idle \in Saving /\ "public" \in Source
  BY TypedIsOwn DEF NoOrigin, Origin, Schedule, Car, Loading, Saving
<1>3. page = first
  BY <1>1 DEF FirstPage
<1> HIDE DEF schedule, car, previews
<1>4. /\ first \in Page /\ first.origin = NoOrigin /\ first.schedule = schedule
      /\ first.car = car /\ first.sort = "public" /\ first.enabled = FALSE
      /\ first.busy = FALSE /\ first.results = None /\ first.applied = FALSE
      /\ first.dialog = None /\ first.previews = previews
  BY <1>2 DEF Page
<1> HIDE DEF first
<1>5. Abandoned(first) /\ ButtonIsRight(first) /\ OwnForm(first)
  BY <1>2, <1>4, TypedIsOwn DEF Abandoned, ButtonIsRight, Valid, OwnForm
<1>6. PageFits(first, panel.authenticated)
  BY <1>4, <1>5, AbandonedFits
<1>7. edits \in 0..MaxEdits
  BY <1>1, PageAssumption
<1> QED BY <1>1, <1>3, <1>6, <1>7 DEF PageIInv

LEMMA PageKeeps == PageIInv /\ [FormNext \/ ListNext]_<<vars, pageVars>> => PageIInv'
<1> SUFFICES ASSUME PageIInv, [FormNext \/ ListNext]_<<vars, pageVars>> PROVE PageIInv'
  OBVIOUS
<1>1. IInv'
  BY PageStepsAreThePanels, PanelKeeps DEF PageIInv
<1>2. /\ PageFits(page, panel.authenticated) /\ kept \in Settings
      /\ edits \in 0..MaxEdits /\ MaxEdits \in Nat
  BY PageAssumption DEF PageIInv
<1>3. UNCHANGED vars => panel'.authenticated = panel.authenticated
  BY DEF vars
<1>4. ASSUME NEW p, Edits(p)
      PROVE  /\ UNCHANGED vars /\ kept' = kept /\ edits' \in 0..MaxEdits
  BY <1>2, <1>4 DEF Edits
<1>5. CASE UNCHANGED <<vars, pageVars>>
  BY <1>1, <1>2, <1>3, <1>5 DEF pageVars, PageIInv
<1>6. CASE ListNext
  <2>1. page' = page /\ kept' = kept /\ edits' = edits
    BY <1>6 DEF ListNext, pageVars
  <2>2. panel'.authenticated = panel.authenticated
    BY <1>6, SessionKept DEF PageIInv
  <2> QED BY <1>1, <1>2, <2>1, <2>2 DEF PageIInv
<1>7. CASE ChangeSelection \/ ChangeSchedule \/ ChangeNumbers \/ SortResults
  <2>1. \E p : Edits(p)
    BY <1>7 DEF ChangeSelection, ChangeSchedule, ChangeNumbers, SortResults
  <2>2. PageFits(page', panel.authenticated)
    BY <1>7, ChangeSelectionFits, ChangeScheduleFits, ChangeNumbersFits, SortResultsFits
  <2> QED BY <1>1, <1>2, <1>3, <1>4, <2>1, <2>2 DEF PageIInv
<1>8. ASSUME NEW q \in Preview, Calculate(q)
      PROVE  PageIInv'
  <2>1. \E p : Edits(p)
    BY <1>8 DEF Calculate
  <2>2. PageFits(page', panel.authenticated)
    BY <1>8, CalculateFits
  <2> QED BY <1>1, <1>2, <1>3, <1>4, <2>1, <2>2 DEF PageIInv
<1>9. ASSUME NEW q \in Preview, PreviewArrives(q) \/ PreviewFails(q) \/ PreviewIsStale(q)
      PROVE  PageIInv'
  <2>1. PreviewAnswered \/ UNCHANGED vars
    BY <1>9 DEF PreviewArrives, PreviewFails, PreviewIsStale
  <2>2. panel'.authenticated = panel.authenticated
    BY <1>3, <2>1, SessionKept DEF PageIInv
  <2>3. kept' = kept /\ edits' = edits
    BY <1>9 DEF PreviewArrives, PreviewFails, PreviewIsStale
  <2>4. PageFits(page', panel.authenticated)
    BY <1>9, PreviewEndsFits
  <2> QED BY <1>1, <1>2, <2>2, <2>3, <2>4 DEF PageIInv
<1>10. CASE ReadSettings \/ SettingsArrive \/ SettingsFail
  <2>1. UNCHANGED vars /\ edits' = edits
    BY <1>10 DEF ReadSettings, SettingsArrive, SettingsFail
  <2>2. PageFits(page', panel.authenticated) /\ kept' \in Settings
    BY <1>10, LoadStepsFit
  <2> QED BY <1>1, <1>2, <1>3, <2>1, <2>2 DEF PageIInv
<1>11. CASE \/ \E s \in Settings : SaveSettings(s)
            \/ StoreSettings \/ SettingsSaved \/ SettingsNotSaved
  <2>1. UNCHANGED vars /\ edits' \in 0..MaxEdits
    BY <1>2, <1>4, <1>11 DEF SaveSettings, StoreSettings, SettingsSaved, SettingsNotSaved
  <2>2. PageFits(page', panel.authenticated) /\ kept' \in Settings
    BY <1>11, SaveStepsFit
  <2> QED BY <1>1, <1>3, <2>1, <2>2 DEF PageIInv
<1>12. CASE PageSessionAnswered \/ PageLogOut \/ \E c \in Call : PageApplyDraft(c)
  <2>1. kept' = kept /\ edits' = edits
    BY <1>12 DEF PageSessionAnswered, PageLogOut, PageApplyDraft
  <2>2. PageFits(page', panel'.authenticated)
    BY <1>12, SessionStepsFit
  <2> QED BY <1>1, <1>2, <2>1, <2>2 DEF PageIInv
<1> QED BY <1>5, <1>6, <1>7, <1>8, <1>9, <1>10, <1>11, <1>12 DEF FormNext

LEMMA PageInvariant == PageSpec => []PageIInv
BY PageStarts, PageKeeps, PTL DEF PageSpec

\* Every variable of the page keeps its type.
THEOREM PageTypeCorrect == PageSpec => []PageTypeOK
<1>1. PageIInv => PageTypeOK
  BY DEF PageIInv, PageFits, FormFits, PageTypeOK
<1> QED BY <1>1, PageInvariant, PTL

\* The result on screen is one for the form on screen, although answers come in
\* any order and settings and drafts change the form meanwhile (previewRevision
\* and requestIsCurrent, app.js).
THEOREM ResultsAreForThisForm == PageSpec => []ResultsFitTheForm
<1>1. PageIInv => ResultsFitTheForm
  BY DEF PageIInv, PageFits, FormFits, AnswerFits, ResultsFitTheForm
<1> QED BY <1>1, PageInvariant, PTL

\* When the session has ended, nothing of the visitor's settings is left, also
\* if they were still loading or being saved (settings.js, app.js).
THEOREM NothingOfTheSettingsStays == PageSpec => []SettingsLeaveWithTheSession
<1>1. PageIInv => SettingsLeaveWithTheSession
  BY DEF PageIInv, PageFits, FormFits, OwnForm, AnswerFits, SettingsLeaveWithTheSession
<1> QED BY <1>1, PageInvariant, PTL

\* The button is off for a form that could be calculated only while an answer
\* to it is to come, whatever way calculations before it were abandoned
\* (calculate and invalidatePreview, app.js).
THEOREM ButtonIsOffForACause == PageSpec => []ButtonFollowsTheForm
<1>1. UnderWay(page) <=> \E q \in Preview : page.previews[q] # Idle /\ RequestIsCurrent(q)
  BY DEF UnderWay, RequestIsCurrent
<1>2. PageIInv => ButtonFollowsTheForm
  BY <1>1 DEF PageIInv, PageFits, FormFits, ButtonFollowsTheForm
<1> QED BY <1>2, PageInvariant, PTL
===============================================================================

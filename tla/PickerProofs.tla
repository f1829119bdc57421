----------------------------- MODULE PickerProofs -----------------------------
(***************************************************************************)
(* What holds of Pickers for any places, texts, filters, snapshots, pages  *)
(* and numbers of calls on their way.                                      *)
(*                                                                         *)
(* The handlers are operators from a picker to a picker, so the invariant  *)
(* is a predicate on a picker, and a lemma for each handler says that it   *)
(* leads from one predicate to another.                                    *)
(***************************************************************************)
EXTENDS Pickers, SequenceTheorems, TLAPS

\* The calls whose answers still count.
Live(p) == {c \in p.calls : c.current}
LiveOf(p, kind) == {c \in Live(p) : c.kind = kind}

-----------------------------------------------------------------------------
(* The invariant *)

Formed(p) ==
    /\ p \in Picker
    /\ p.activeIndex <= Len(p.items)
    /\ p.kind = "institution" => LiveOf(p, "reverse") = {} /\ ~p.debounced
    /\ p.kind = "destination" =>
         p.pageState = NoPage /\ ~p.paginationLoading /\ LiveOf(p, "page") = {}

\* What options were found for: the address that a map click led to, or the
\* first of what a search finds in snapshot v.
FoundBySearch(options, t, f, v) ==
    /\ Len(options) <= Len(Found(t, f, v))
    /\ options = OptionsOf(SubSeq(Found(t, f, v), 1, Len(options)), t, f, v)

OptionsFit(p, options) ==
    \/ options = <<>>
    \/ /\ p.typed \in Site /\ p.kind = "destination"
       /\ options = OptionsOf(<<p.typed>>, p.typed, p.filter, 0)
    \/ \E v \in Version : FoundBySearch(options, p.typed, p.filter, v)

\* A selection is named by the input.
Named(p) == p.selectedItem # None => p.typed = p.selectedItem

\* A map click is looked up while the input is empty and nothing is selected.
ReverseFits(p) ==
    /\ \A c, d \in LiveOf(p, "reverse") : c = d
    /\ \A c \in LiveOf(p, "reverse") :
         p.typed = Blank /\ p.selectedItem = None /\ c.filter = p.filter

SearchFits(p) ==
    /\ \A c, d \in LiveOf(p, "search") : c = d
    /\ \A c \in LiveOf(p, "search") : c.text = p.typed /\ c.filter = p.filter
    /\ LiveOf(p, "search") # {} =>
         ~p.debounced /\ p.pageState.next = 0 /\ LiveOf(p, "reverse") = {}
    /\ p.debounced => LiveOf(p, "reverse") = {}

\* There is a next page only of the options there are, and a page on its way
\* is the next one.
PageFits(p) ==
    /\ \A c, d \in LiveOf(p, "page") : c = d
    /\ \A c \in LiveOf(p, "page") :
         /\ c.text = p.typed /\ c.filter = p.filter
         /\ p.pageState.next # 0
         /\ c.offset = p.pageState.next /\ c.snapshot = p.pageState.snapshot
    /\ p.paginationLoading <=> LiveOf(p, "page") # {}
    /\ p.pageState.next # 0 =>
         /\ p.items # <<>> /\ p.pageState.next = Len(p.items)
         /\ p.pageState.snapshot \in Version
         /\ FoundBySearch(p.items, p.typed, p.filter, p.pageState.snapshot)

Waiting(p) == p.waitForFreshOptions => p.debounced \/ LiveOf(p, "search") # {}

\* What a search may begin with: it outdates the search before it, and the page.
Searchable(p) == Formed(p) /\ OptionsFit(p, p.items) /\ Named(p) /\ ReverseFits(p)

Good(p) == Searchable(p) /\ SearchFits(p) /\ PageFits(p) /\ Waiting(p)

IInv == version \in Version /\ Good(picker)

-----------------------------------------------------------------------------
(* What handlers leave alone *)

SameInput(p, q) ==
    /\ q.kind = p.kind /\ q.typed = p.typed /\ q.filter = p.filter
    /\ q.selectedItem = p.selectedItem

SameList(p, q) == q.items = p.items /\ q.activeIndex = p.activeIndex /\ q.open = p.open

SameKeys(p, q) ==
    /\ q.pendingMove = p.pendingMove /\ q.pendingEnter = p.pendingEnter
    /\ q.waitForFreshOptions = p.waitForFreshOptions

SamePages(p, q) == q.pageState = p.pageState /\ q.paginationLoading = p.paginationLoading

-----------------------------------------------------------------------------
(* Calls *)

LEMMA CallsType ==
    ASSUME NEW p \in Picker
    PROVE  /\ p.calls \subseteq Call
           /\ \A c \in Live(p) : c \in Call /\ c.kind \in {"search", "page", "reverse"}
BY DEF Picker, Live, Call

\* A picker with other calls is a picker with these calls.
LEMMA WithCalls ==
    ASSUME NEW p \in Picker, NEW X, X \subseteq Call
    PROVE  LET q == [p EXCEPT !.calls = X]
           IN /\ q \in Picker /\ q.calls = X
              /\ SameInput(p, q) /\ SameList(p, q) /\ SameKeys(p, q) /\ SamePages(p, q)
              /\ q.debounced = p.debounced
BY DEF Picker, SameInput, SameList, SameKeys, SamePages

\* Outdating takes the calls of a kind out of those that count.
LEMMA OutdateFacts ==
    ASSUME NEW p \in Picker, NEW k \in {"search", "page", "reverse"}
    PROVE  LET q == Outdate(p, k)
           IN /\ q \in Picker
              /\ SameInput(p, q) /\ SameList(p, q) /\ SameKeys(p, q) /\ SamePages(p, q)
              /\ q.debounced = p.debounced
              /\ Live(q) = Live(p) \ LiveOf(p, k)
<1> DEFINE X == {IF c.kind = k THEN [c EXCEPT !.current = FALSE] ELSE c : c \in p.calls}
<1>1. p.calls \subseteq Call
  BY CallsType
<1>2. Outdate(p, k) = [p EXCEPT !.calls = X]
  BY DEF Outdate
<1>3. X \subseteq Call
  BY <1>1 DEF Call
<1>4. {c \in X : c.current} = Live(p) \ LiveOf(p, k)
  BY <1>1 DEF Live, LiveOf, Call
<1> HIDE DEF X
<1>5. LET q == [p EXCEPT !.calls = X]
      IN /\ q \in Picker /\ q.calls = X
         /\ SameInput(p, q) /\ SameList(p, q) /\ SameKeys(p, q) /\ SamePages(p, q)
         /\ q.debounced = p.debounced
  BY <1>3, WithCalls
<1> QED BY <1>2, <1>4, <1>5 DEF Live

\* A new call counts, and so do the ones that did.
LEMMA AskFacts ==
    ASSUME NEW p \in Picker, version \in Version, NEW k \in {"search", "page", "reverse"},
           NEW o \in Nat
    PROVE  LET q == Ask(p, k, o)
               new == [kind |-> k, text |-> p.typed, filter |-> p.filter, since |-> version,
                       offset |-> o, snapshot |-> p.pageState.snapshot, current |-> TRUE]
           IN /\ q \in Picker
              /\ SameInput(p, q) /\ SameList(p, q) /\ SameKeys(p, q) /\ SamePages(p, q)
              /\ q.debounced = p.debounced
              /\ Live(q) = Live(p) \cup {new}
<1> DEFINE new == [kind |-> k, text |-> p.typed, filter |-> p.filter, since |-> version,
                   offset |-> o, snapshot |-> p.pageState.snapshot, current |-> TRUE]
           few == IF Cardinality(p.calls) < MaxCalls THEN p.calls ELSE {c \in p.calls : c.current}
<1>1. p.calls \subseteq Call /\ new \in Call
  BY CallsType DEF Picker, Call
<1>2. Ask(p, k, o) = [p EXCEPT !.calls = few \cup {new}]
  BY DEF Ask
<1>3. few \subseteq p.calls /\ {c \in few : c.current} = Live(p) /\ new.current
  BY DEF Live
<1>4. {c \in few \cup {new} : c.current} = Live(p) \cup {new}
  BY <1>3
<1>5. few \cup {new} \subseteq Call
  BY <1>1, <1>3
<1> HIDE DEF few, new
<1> QED BY <1>2, <1>4, <1>5, WithCalls DEF Live, new

LEMMA CancelPendingFacts ==
    ASSUME NEW p \in Picker
    PROVE  LET q == CancelPending(p)
           IN /\ q \in Picker
              /\ SameInput(p, q) /\ SameList(p, q) /\ SameKeys(p, q) /\ SamePages(p, q)
              /\ q.debounced = FALSE
              /\ Live(q) = Live(p) \ LiveOf(p, "search")
<1> DEFINE o == Outdate(p, "search")
<1>1. /\ o \in Picker
      /\ SameInput(p, o) /\ SameList(p, o) /\ SameKeys(p, o) /\ SamePages(p, o)
      /\ Live(o) = Live(p) \ LiveOf(p, "search")
  BY OutdateFacts
<1>2. CancelPending(p) = [o EXCEPT !.debounced = FALSE]
  BY DEF CancelPending
<1> HIDE DEF o
<1>3. LET q == [o EXCEPT !.debounced = FALSE]
      IN /\ q \in Picker /\ q.calls = o.calls /\ q.debounced = FALSE
         /\ SameInput(o, q) /\ SameList(o, q) /\ SameKeys(o, q) /\ SamePages(o, q)
  BY <1>1 DEF Picker, SameInput, SameList, SameKeys, SamePages
<1> QED BY <1>1, <1>2, <1>3 DEF SameInput, SameList, SameKeys, SamePages, Live

\* institution-picker.js: no page is current, and none is loading.
LEMMA ResetFacts ==
    ASSUME NEW p \in Picker
    PROVE  LET q == ResetBaseSearchState(p)
           IN /\ q \in Picker
              /\ SameInput(p, q) /\ SameList(p, q) /\ SameKeys(p, q)
              /\ q.pageState = NoPage /\ q.paginationLoading = FALSE
              /\ q.debounced = p.debounced
              /\ Live(q) = Live(p) \ LiveOf(p, "page")
<1> DEFINE o == Outdate(p, "page")
<1>1. /\ o \in Picker
      /\ SameInput(p, o) /\ SameList(p, o) /\ SameKeys(p, o) /\ o.debounced = p.debounced
      /\ Live(o) = Live(p) \ LiveOf(p, "page")
  BY OutdateFacts
<1>2. ResetBaseSearchState(p) = [o EXCEPT !.pageState = NoPage, !.paginationLoading = FALSE]
  BY DEF ResetBaseSearchState
<1> HIDE DEF o
<1>3. LET q == [o EXCEPT !.pageState = NoPage, !.paginationLoading = FALSE]
      IN /\ q \in Picker /\ q.calls = o.calls /\ q.debounced = o.debounced
         /\ q.pageState = NoPage /\ q.paginationLoading = FALSE
         /\ SameInput(o, q) /\ SameList(o, q) /\ SameKeys(o, q)
  BY <1>1 DEF Picker, NoPage, SameInput, SameList, SameKeys
<1> QED BY <1>1, <1>2, <1>3 DEF SameInput, SameList, SameKeys, Live

\* A picker with other options.
LEMMA WithItems ==
    ASSUME NEW p \in Picker, NEW options \in Seq(Option)
    PROVE  LET q == [p EXCEPT !.items = options]
           IN /\ q \in Picker /\ q.items = options
              /\ q.activeIndex = p.activeIndex /\ q.open = p.open
              /\ SameInput(p, q) /\ SameKeys(p, q) /\ SamePages(p, q)
              /\ q.debounced = p.debounced /\ q.calls = p.calls
BY DEF Picker, SameInput, SameKeys, SamePages

\* combobox.js, clearList
LEMMA ClearListFacts ==
    ASSUME NEW p \in Picker
    PROVE  LET q == ClearList(p)
           IN /\ q \in Picker /\ q.items = <<>> /\ q.activeIndex = 0 /\ q.open = FALSE
              /\ SameInput(p, q) /\ SameKeys(p, q) /\ SamePages(p, q)
              /\ q.debounced = p.debounced /\ q.calls = p.calls /\ Live(q) = Live(p)
<1> DEFINE c == CloseList(p)
<1>1. /\ c \in Picker /\ c.activeIndex = 0 /\ c.open = FALSE
      /\ SameInput(p, c) /\ SameKeys(p, c) /\ SamePages(p, c)
      /\ c.debounced = p.debounced /\ c.calls = p.calls
  BY DEF CloseList, Picker, SameInput, SameKeys, SamePages
<1>2. ClearList(p) = [c EXCEPT !.items = <<>>]
  BY DEF ClearList
<1> HIDE DEF c
<1>3. LET q == [c EXCEPT !.items = <<>>]
      IN /\ q \in Picker /\ q.items = <<>> /\ q.activeIndex = c.activeIndex /\ q.open = c.open
         /\ SameInput(c, q) /\ SameKeys(c, q) /\ SamePages(c, q)
         /\ q.debounced = c.debounced /\ q.calls = c.calls
  <2>1. <<>> \in Seq(Option)
    OBVIOUS
  <2> QED BY <1>1, <2>1, WithItems
<1> QED BY <1>1, <1>2, <1>3 DEF SameInput, SameKeys, SamePages, Live

\* The button to try again is hidden.
LEMMA HideRetryFacts ==
    ASSUME NEW p \in Picker
    PROVE  LET q == [p EXCEPT !.retryVisible = FALSE]
           IN /\ q \in Picker
              /\ SameInput(p, q) /\ SameList(p, q) /\ SameKeys(p, q) /\ SamePages(p, q)
              /\ q.debounced = p.debounced /\ q.calls = p.calls /\ Live(q) = Live(p)
BY DEF Picker, SameInput, SameList, SameKeys, SamePages, Live

\* No key waits for options.
LEMMA NotWaitingFacts ==
    ASSUME NEW p \in Picker
    PROVE  LET q == [p EXCEPT !.waitForFreshOptions = FALSE]
           IN /\ q \in Picker /\ q.waitForFreshOptions = FALSE
              /\ SameInput(p, q) /\ SameList(p, q) /\ SamePages(p, q)
              /\ q.debounced = p.debounced /\ q.calls = p.calls /\ Live(q) = Live(p)
BY DEF Picker, SameInput, SameList, SamePages, Live

-----------------------------------------------------------------------------
(* Searches *)

LEMMA PerformSearchGood ==
    ASSUME version \in Version, NEW p, Searchable(p), ~p.debounced,
           LiveOf(p, "search") = {}, LiveOf(p, "reverse") = {}
    PROVE  Good(PerformSearch(p))
<1> DEFINE base == IF p.kind = "institution" THEN ResetBaseSearchState(p) ELSE p
           q == Ask(base, "search", 0)
           new == [kind |-> "search", text |-> p.typed, filter |-> p.filter,
                   since |-> version, offset |-> 0, snapshot |-> base.pageState.snapshot,
                   current |-> TRUE]
<1>1. p \in Picker /\ Formed(p) /\ p.debounced = FALSE
  BY DEF Searchable, Formed, Picker
<1>2. /\ base \in Picker
      /\ SameInput(p, base) /\ SameList(p, base) /\ base.debounced = FALSE
      /\ base.pageState = NoPage /\ base.paginationLoading = FALSE
      /\ Live(base) = {}
  <2>1. \A c \in Live(p) : c.kind = "page"
    BY <1>1, CallsType DEF LiveOf
  <2>2. CASE p.kind = "institution"
    BY <1>1, <2>1, <2>2, ResetFacts DEF LiveOf
  <2>3. CASE p.kind = "destination"
    BY <1>1, <2>1, <2>3 DEF Formed, LiveOf, SameInput, SameList
  <2> QED BY <1>1, <2>2, <2>3 DEF Picker
<1> HIDE DEF base
<1>3. /\ q \in Picker
      /\ SameInput(base, q) /\ SameList(base, q) /\ SamePages(base, q)
      /\ q.debounced = FALSE
      /\ Live(q) = {new}
  <2>1. "search" \in {"search", "page", "reverse"} /\ 0 \in Nat
    OBVIOUS
  <2>2. new.text = base.typed /\ new.filter = base.filter
    BY <1>2 DEF SameInput
  <2>3. new = [kind |-> "search", text |-> base.typed, filter |-> base.filter, since |-> version,
               offset |-> 0, snapshot |-> base.pageState.snapshot, current |-> TRUE]
    BY <2>2
  <2>4. /\ q \in Picker
        /\ SameInput(base, q) /\ SameList(base, q) /\ SamePages(base, q)
        /\ q.debounced = base.debounced
        /\ Live(q) = Live(base) \cup
              {[kind |-> "search", text |-> base.typed, filter |-> base.filter, since |-> version,
                offset |-> 0, snapshot |-> base.pageState.snapshot, current |-> TRUE]}
    BY <1>2, <2>1, AskFacts, SMTT(30)
  <2> HIDE DEF new, q
  <2> QED BY <1>2, <2>3, <2>4
<1>4. /\ SameInput(p, q) /\ SameList(p, q)
      /\ q.pageState = NoPage /\ q.paginationLoading = FALSE
  BY <1>2, <1>3 DEF SameInput, SameList, SamePages
<1>5. LiveOf(q, "search") = {new} /\ LiveOf(q, "page") = {} /\ LiveOf(q, "reverse") = {}
  BY <1>3 DEF LiveOf
<1>6. PerformSearch(p) = q
  BY DEF PerformSearch, base
<1> HIDE DEF q
<1>7. Searchable(q)
  BY <1>1, <1>3, <1>4, <1>5
     DEF Searchable, Formed, OptionsFit, Named, ReverseFits, SameInput, SameList
<1>8. SearchFits(q)
  <2>1. new.text = q.typed /\ new.filter = q.filter
    BY <1>4 DEF SameInput
  <2>2. q.pageState.next = 0 /\ q.debounced = FALSE
    BY <1>3, <1>4 DEF NoPage
  <2> HIDE DEF new
  <2> QED BY <1>5, <2>1, <2>2 DEF SearchFits
<1>9. PageFits(q)
  BY <1>4, <1>5 DEF PageFits, NoPage
<1>10. Waiting(q)
  BY <1>5 DEF Waiting
<1> QED BY <1>6, <1>7, <1>8, <1>9, <1>10 DEF Good

\* Nothing that a search may begin with depends on the search before it.
LEMMA SearchableKept ==
    ASSUME NEW p, Searchable(p), NEW q \in Picker, SameInput(p, q), SameList(p, q),
           SamePages(p, q), Live(q) \subseteq Live(p), q.debounced = FALSE
    PROVE  Searchable(q)
<1>1. \A k : LiveOf(q, k) \subseteq LiveOf(p, k)
  BY DEF LiveOf
<1>2. Formed(q)
  BY <1>1 DEF Searchable, Formed, SameInput, SameList, SamePages
<1>3. OptionsFit(q, q.items) /\ Named(q)
  BY DEF Searchable, OptionsFit, Named, SameInput, SameList
<1>4. ReverseFits(q)
  BY <1>1 DEF Searchable, ReverseFits, SameInput
<1> QED BY <1>2, <1>3, <1>4 DEF Searchable

\* A picker of destinations knows no pages.
LEMMA DestinationHasNoPages ==
    ASSUME NEW p, Formed(p), p.kind = "destination"
    PROVE  PageFits(p)
BY DEF Formed, PageFits, NoPage

\* combobox.js, beginSearch: the search before it is cancelled first.
LEMMA BeginSearchGood ==
    ASSUME version \in Version, NEW p, Searchable(p), NEW defer
    PROVE  Good(BeginSearch(p, defer))
<1> DEFINE q == [CancelPending(p) EXCEPT !.retryVisible = FALSE]
           short == ClearList([q EXCEPT !.waitForFreshOptions = FALSE])
           later == [q EXCEPT !.debounced = TRUE]
<1>1. p \in Picker /\ Formed(p)
  BY DEF Searchable, Formed
<1>2. /\ q \in Picker
      /\ SameInput(p, q) /\ SameList(p, q) /\ SamePages(p, q)
      /\ q.debounced = FALSE
      /\ Live(q) = Live(p) \ LiveOf(p, "search")
  <2>1. LET c == CancelPending(p)
        IN /\ c \in Picker
           /\ SameInput(p, c) /\ SameList(p, c) /\ SamePages(p, c)
           /\ c.debounced = FALSE
           /\ Live(c) = Live(p) \ LiveOf(p, "search")
    BY <1>1, CancelPendingFacts
  <2> QED BY <2>1, HideRetryFacts DEF SameInput, SameList, SamePages
<1> HIDE DEF q
<1>3. Searchable(q)
  BY <1>2, SearchableKept
<1>4. LiveOf(q, "search") = {} /\ \A k : LiveOf(q, k) \subseteq LiveOf(p, k)
  BY <1>2 DEF LiveOf
<1>5. ASSUME TooShort(q)
      PROVE  Good(short)
  <2> DEFINE calm == [q EXCEPT !.waitForFreshOptions = FALSE]
  <2>1. /\ calm \in Picker /\ calm.waitForFreshOptions = FALSE
        /\ SameInput(q, calm) /\ SamePages(q, calm)
        /\ calm.debounced = FALSE /\ Live(calm) = Live(q)
    BY <1>2, NotWaitingFacts
  <2> HIDE DEF calm
  <2>2. /\ short \in Picker /\ short.items = <<>> /\ short.activeIndex = 0
        /\ short.debounced = FALSE /\ short.waitForFreshOptions = FALSE
        /\ SameInput(q, short) /\ SamePages(q, short) /\ Live(short) = Live(q)
    BY <2>1, ClearListFacts DEF calm, SameInput, SameKeys, SamePages
  <2>3. \A k : LiveOf(short, k) = LiveOf(q, k)
    BY <2>2 DEF LiveOf
  <2> HIDE DEF short
  <2>4. Formed(short)
    BY <1>3, <2>2, <2>3 DEF Formed, Searchable, SameInput, SamePages
  <2>5. OptionsFit(short, short.items)
    BY <2>2 DEF OptionsFit
  <2>6. Named(short) /\ ReverseFits(short)
    BY <1>3, <2>2, <2>3 DEF Searchable, Named, ReverseFits, SameInput
  <2>7. SearchFits(short) /\ Waiting(short)
    BY <1>4, <2>2, <2>3 DEF SearchFits, Waiting
  <2>8. PageFits(short)
    BY <1>5, <2>2, <2>4, DestinationHasNoPages DEF TooShort, SameInput
  <2> QED BY <2>4, <2>5, <2>6, <2>7, <2>8 DEF Good, Searchable
<1>6. ASSUME ~TooShort(q)
      PROVE  LiveOf(q, "reverse") = {}
  BY <1>3, <1>6, <1>2 DEF TooShort, Searchable, ReverseFits, Formed, Picker
<1>7. ASSUME ~TooShort(q), q.kind = "destination"
      PROVE  Good(later)
  <2>1. /\ later \in Picker /\ later.calls = q.calls /\ later.debounced = TRUE
        /\ SameInput(q, later) /\ SameList(q, later) /\ SamePages(q, later)
    BY <1>2 DEF Picker, SameInput, SameList, SamePages
  <2>2. Live(later) = Live(q)
    BY <2>1 DEF Live
  <2>3. \A k : LiveOf(later, k) = LiveOf(q, k)
    BY <2>2 DEF LiveOf
  <2> HIDE DEF later
  <2>4. Formed(later)
    BY <1>3, <1>7, <2>1, <2>3 DEF Formed, Searchable, SameInput, SameList, SamePages
  <2>5. OptionsFit(later, later.items) /\ Named(later)
    BY <1>3, <2>1 DEF Searchable, OptionsFit, Named, SameInput, SameList
  <2>6. ReverseFits(later)
    BY <1>3, <2>1, <2>3 DEF Searchable, ReverseFits, SameInput
  <2>7. SearchFits(later) /\ Waiting(later)
    BY <1>4, <1>6, <1>7, <2>1, <2>3 DEF SearchFits, Waiting
  <2>8. PageFits(later)
    BY <1>7, <2>1, <2>4, DestinationHasNoPages DEF SameInput
  <2> QED BY <2>4, <2>5, <2>6, <2>7, <2>8 DEF Good, Searchable
<1>8. ASSUME ~TooShort(q)
      PROVE  Good(PerformSearch(q))
  BY <1>2, <1>3, <1>4, <1>6, <1>8, PerformSearchGood
<1>9. BeginSearch(p, defer) = IF TooShort(q) THEN short
                              ELSE IF defer /\ q.kind = "destination" THEN later
                              ELSE PerformSearch(q)
  BY DEF BeginSearch, q
<1> HIDE DEF short, later
<1> QED BY <1>5, <1>7, <1>8, <1>9

-----------------------------------------------------------------------------
(* What a selection leaves: nothing is listed, asked for or waited for *)

Quiet(p) ==
    /\ p \in Picker /\ Live(p) = {} /\ p.debounced = FALSE
    /\ p.items = <<>> /\ p.activeIndex = 0 /\ p.waitForFreshOptions = FALSE
    /\ p.pageState = NoPage /\ p.paginationLoading = FALSE
    /\ Named(p)

LEMMA QuietIsGood ==
    ASSUME NEW p, Quiet(p)
    PROVE  Good(p)
<1>1. \A k : LiveOf(p, k) = {}
  BY DEF Quiet, LiveOf
<1>2. Formed(p)
  BY <1>1 DEF Quiet, Formed
<1>3. OptionsFit(p, p.items) /\ Named(p) /\ ReverseFits(p)
  BY <1>1 DEF Quiet, OptionsFit, ReverseFits
<1>4. SearchFits(p) /\ Waiting(p)
  BY <1>1 DEF Quiet, SearchFits, Waiting
<1>5. PageFits(p)
  BY <1>1 DEF Quiet, PageFits, NoPage
<1> QED BY <1>2, <1>3, <1>4, <1>5 DEF Good, Searchable

LEMMA ForgetKeysFacts ==
    ASSUME NEW p \in Picker
    PROVE  LET q == ForgetKeys(p)
           IN /\ q \in Picker /\ q.waitForFreshOptions = FALSE
              /\ SameInput(p, q) /\ SameList(p, q) /\ SamePages(p, q)
              /\ q.debounced = p.debounced /\ q.calls = p.calls /\ Live(q) = Live(p)
BY DEF ForgetKeys, Picker, SameInput, SameList, SamePages, Live

\* The hooks onInput and onSelect leave no page and no look-up of a map click.
LEMMA CancelOthersFacts ==
    ASSUME NEW p, Formed(p)
    PROVE  LET q == CancelOthers(p)
           IN /\ q \in Picker /\ SameInput(p, q) /\ SameList(p, q) /\ SameKeys(p, q)
              /\ q.debounced = p.debounced
              /\ q.pageState = NoPage /\ q.paginationLoading = FALSE
              /\ Live(q) = LiveOf(p, "search")
<1>1. p \in Picker
  BY DEF Formed
<1>2. \A c \in Live(p) : c.kind \in {"search", "page", "reverse"}
  BY <1>1, CallsType
<1>3. CASE p.kind = "institution"
  <2>1. Live(p) \ LiveOf(p, "page") = LiveOf(p, "search")
    BY <1>2, <1>3 DEF Formed, LiveOf
  <2> QED BY <1>1, <1>3, <2>1, ResetFacts DEF CancelOthers
<1>4. CASE p.kind = "destination"
  <2>1. Live(p) \ LiveOf(p, "reverse") = LiveOf(p, "search")
    BY <1>2, <1>4 DEF Formed, LiveOf
  <2>2. p.pageState = NoPage /\ p.paginationLoading = FALSE
    BY <1>1, <1>4 DEF Formed, Picker
  <2>3. CancelOthers(p) = Outdate(p, "reverse")
    BY <1>4 DEF CancelOthers
  <2> QED BY <1>1, <2>1, <2>2, <2>3, OutdateFacts DEF SamePages
<1> QED BY <1>1, <1>3, <1>4 DEF Picker

\* How clear() and choose() begin.
LEMMA FreshStart ==
    ASSUME NEW p \in Picker
    PROVE  LET q == ClearList(CancelPending(ForgetKeys(p)))
           IN /\ q \in Picker
              /\ q.items = <<>> /\ q.activeIndex = 0 /\ q.waitForFreshOptions = FALSE
              /\ SameInput(p, q) /\ SamePages(p, q)
              /\ q.debounced = FALSE
              /\ Live(q) = Live(p) \ LiveOf(p, "search")
<1> DEFINE f == ForgetKeys(p)
           c == CancelPending(f)
<1>1. /\ f \in Picker /\ f.waitForFreshOptions = FALSE
      /\ SameInput(p, f) /\ SamePages(p, f) /\ Live(f) = Live(p)
  BY ForgetKeysFacts
<1> HIDE DEF f
<1>2. /\ c \in Picker /\ SameInput(f, c) /\ SameKeys(f, c) /\ SamePages(f, c)
      /\ c.debounced = FALSE /\ Live(c) = Live(f) \ LiveOf(f, "search")
  BY <1>1, CancelPendingFacts
<1> HIDE DEF c
<1>3. LET q == ClearList(c)
      IN /\ q \in Picker /\ q.items = <<>> /\ q.activeIndex = 0
         /\ SameInput(c, q) /\ SameKeys(c, q) /\ SamePages(c, q)
         /\ q.debounced = c.debounced /\ Live(q) = Live(c)
  BY <1>2, ClearListFacts
<1>4. Live(f) \ LiveOf(f, "search") = Live(p) \ LiveOf(p, "search")
  BY <1>1 DEF LiveOf
<1> QED BY <1>1, <1>2, <1>3, <1>4 DEF c, f, SameInput, SameKeys, SamePages

\* combobox.js, choose
LEMMA ChooseIsQuiet ==
    ASSUME NEW p, Formed(p), NEW site \in Site
    PROVE  Quiet(Choose(p, site))
<1> DEFINE start == ClearList(CancelPending(ForgetKeys(p)))
           q == CancelOthers(start)
<1>1. /\ p \in Picker
      /\ start \in Picker
      /\ start.items = <<>> /\ start.activeIndex = 0 /\ start.waitForFreshOptions = FALSE
      /\ SameInput(p, start) /\ SamePages(p, start)
      /\ start.debounced = FALSE
      /\ Live(start) = Live(p) \ LiveOf(p, "search")
  BY FreshStart DEF Formed
<1> HIDE DEF start
<1>2. LiveOf(start, "search") = {} /\ \A k : LiveOf(start, k) \subseteq LiveOf(p, k)
  BY <1>1 DEF LiveOf
<1>3. Formed(start)
  BY <1>1, <1>2 DEF Formed, SameInput, SamePages
<1>4. /\ q \in Picker /\ q.items = <<>> /\ q.activeIndex = 0 /\ q.waitForFreshOptions = FALSE
      /\ q.debounced = FALSE /\ q.pageState = NoPage /\ q.paginationLoading = FALSE
      /\ Live(q) = {}
  BY <1>1, <1>2, <1>3, CancelOthersFacts DEF SameList, SameKeys
<1> HIDE DEF q
<1> DEFINE r == [q EXCEPT !.selectedItem = site, !.retryVisible = FALSE, !.typed = site]
<1>5. /\ r \in Picker /\ r.items = q.items /\ r.activeIndex = q.activeIndex
      /\ r.waitForFreshOptions = q.waitForFreshOptions
      /\ r.debounced = q.debounced /\ r.pageState = q.pageState
      /\ r.paginationLoading = q.paginationLoading
      /\ r.calls = q.calls /\ r.typed = site /\ r.selectedItem = site
  <2>1. r \in Picker
    BY <1>4, ZenonT(40) DEF Picker, Text
  <2>2. DOMAIN q = DOMAIN r /\ {"typed", "selectedItem", "retryVisible"} \subseteq DOMAIN q
    BY <1>4 DEF Picker
  <2> QED BY <2>1, <2>2
<1>6. Choose(p, site) = r
  BY DEF Choose, q, start
<1> HIDE DEF r
<1> QED BY <1>4, <1>5, <1>6 DEF Quiet, Named, Live

\* combobox.js, clear
LEMMA ClearIsQuiet ==
    ASSUME NEW p \in Picker, NEW t \in Text, Live(p) \subseteq LiveOf(p, "search"),
           p.pageState = NoPage, p.paginationLoading = FALSE
    PROVE  LET q == Clear(p, t)
           IN /\ Quiet(q) /\ q.typed = t /\ q.selectedItem = None
              /\ q.kind = p.kind /\ q.filter = p.filter
<1> DEFINE start == ClearList(CancelPending(ForgetKeys(p)))
<1>1. /\ start \in Picker
      /\ start.items = <<>> /\ start.activeIndex = 0 /\ start.waitForFreshOptions = FALSE
      /\ SameInput(p, start) /\ SamePages(p, start)
      /\ start.debounced = FALSE
      /\ Live(start) = {}
  BY FreshStart
<1> HIDE DEF start
<1> DEFINE r == [start EXCEPT !.renderedQuery = None, !.selectedItem = None, !.typed = t,
                              !.retryVisible = FALSE]
<1>2. /\ r \in Picker /\ r.items = start.items /\ r.activeIndex = start.activeIndex
      /\ r.waitForFreshOptions = start.waitForFreshOptions
      /\ r.debounced = start.debounced /\ SamePages(start, r)
      /\ r.calls = start.calls /\ r.typed = t /\ r.selectedItem = None
      /\ r.kind = start.kind /\ r.filter = start.filter
  <2>1. r \in Picker
    BY <1>1, ZenonT(40) DEF Picker
  <2>2. {"renderedQuery", "selectedItem", "typed", "retryVisible"} \subseteq DOMAIN start
    BY <1>1 DEF Picker
  <2> QED BY <2>1, <2>2 DEF SamePages
<1>3. Clear(p, t) = r
  BY DEF Clear, start
<1> HIDE DEF r
<1> QED BY <1>1, <1>2, <1>3 DEF Quiet, Named, Live, SameInput, SamePages

-----------------------------------------------------------------------------
(* Keys and results *)

\* combobox.js, moveActive: the arrows stay on the list.
LEMMA MovedFacts ==
    ASSUME NEW p \in Picker, p.items # <<>>, NEW move \in {-1, 0, 1}
    PROVE  LET q == Moved(p, move)
           IN /\ q \in Picker /\ q.activeIndex \in 1..Len(p.items)
              /\ q.items = p.items /\ q.waitForFreshOptions = p.waitForFreshOptions
              /\ SameInput(p, q) /\ SamePages(p, q)
              /\ q.debounced = p.debounced /\ q.calls = p.calls /\ Live(q) = Live(p)
<1> DEFINE n == Len(p.items)
           place == ((p.activeIndex - 1 + move + n) % n) + 1
<1>1. n \in Nat \ {0} /\ p.activeIndex \in Nat
  <2>1. p.items \in Seq(Option)
    BY DEF Picker
  <2> QED BY <2>1, EmptySeq DEF Picker
<1>2. place \in 1..n
  <2> DEFINE x == p.activeIndex - 1 + move + n
  <2> HIDE DEF n
  <2>1. x \in Int
    BY <1>1
  <2> HIDE DEF x
  <2>2. x % n \in 0..(n - 1)
    BY <1>1, <2>1
  <2> QED BY <1>1, <2>2 DEF x
<1>3. Moved(p, move) = [p EXCEPT !.open = TRUE, !.activeIndex = place]
  BY DEF Moved, Picker
<1> HIDE DEF n, place
<1>4. place \in Nat
  BY <1>1, <1>2
<1>5. LET q == [p EXCEPT !.open = TRUE, !.activeIndex = place]
      IN /\ q \in Picker /\ q.activeIndex = place
         /\ q.items = p.items /\ q.waitForFreshOptions = p.waitForFreshOptions
         /\ SameInput(p, q) /\ SamePages(p, q)
         /\ q.debounced = p.debounced /\ q.calls = p.calls
  BY <1>4 DEF Picker, SameInput, SamePages
<1> QED BY <1>2, <1>3, <1>5 DEF n, Live

\* Options that may be shown: those that were found for what the input holds,
\* when nothing else is on its way.
Answered(p, options) ==
    /\ Formed(p) /\ Named(p) /\ Live(p) = {} /\ p.debounced = FALSE
    /\ p.paginationLoading = FALSE
    /\ options \in Seq(Option) /\ OptionsFit(p, options)
    /\ p.pageState.next # 0 =>
         /\ options # <<>> /\ p.pageState.next = Len(options)
         /\ p.pageState.snapshot \in Version
         /\ FoundBySearch(options, p.typed, p.filter, p.pageState.snapshot)

LEMMA ListedIsGood ==
    ASSUME NEW p, NEW options, Answered(p, options),
           NEW q \in Picker, SameInput(p, q), SamePages(p, q), q.items = options,
           q.activeIndex <= Len(options), q.waitForFreshOptions = FALSE,
           q.debounced = FALSE, Live(q) = {}
    PROVE  Good(q)
<1>1. \A k : LiveOf(q, k) = {}
  BY DEF LiveOf
<1>2. Formed(q)
  BY <1>1 DEF Answered, Formed, SameInput, SamePages
<1>3. OptionsFit(q, q.items) /\ Named(q)
  BY DEF Answered, OptionsFit, Named, SameInput
<1>4. ReverseFits(q) /\ SearchFits(q) /\ Waiting(q)
  BY <1>1 DEF ReverseFits, SearchFits, Waiting
<1>5. PageFits(q)
  BY <1>1 DEF Answered, PageFits, SameInput, SamePages
<1> QED BY <1>2, <1>3, <1>4, <1>5 DEF Good, Searchable

\* combobox.js, showResults
LEMMA ShowResultsGood ==
    ASSUME NEW p, NEW options, Answered(p, options)
    PROVE  Good(ShowResults(p, options))
<1> DEFINE q == [p EXCEPT !.waitForFreshOptions = FALSE, !.renderedQuery = p.typed,
                          !.items = options, !.activeIndex = 0, !.retryVisible = FALSE]
           opened == [q EXCEPT !.open = TRUE]
           turned == Moved(q, p.pendingMove)
           moved == [turned EXCEPT !.pendingMove = 0]
<1>1. p \in Picker /\ options \in Seq(Option)
  BY DEF Answered, Formed
<1>2. /\ q \in Picker /\ q.items = options /\ q.activeIndex = 0
      /\ q.waitForFreshOptions = FALSE
      /\ SameInput(p, q) /\ SamePages(p, q)
      /\ q.debounced = p.debounced /\ q.calls = p.calls
  BY <1>1 DEF Picker, SameInput, SamePages
<1>3. Live(q) = {} /\ q.debounced = FALSE
  BY <1>2 DEF Live, Answered
<1>4. Len(options) \in Nat
  BY <1>1
<1>5. ShowResults(p, options) =
        IF options = <<>> THEN ClearList(q)
        ELSE IF p.pendingMove = 0 THEN opened
        ELSE IF p.pendingEnter THEN Choose(moved, moved.items[moved.activeIndex].site)
        ELSE moved
  BY DEF ShowResults
<1> HIDE DEF q
<1>6. ASSUME options = <<>>
      PROVE  Good(ClearList(q))
  <2> DEFINE r == ClearList(q)
  <2>1. /\ r \in Picker /\ r.items = <<>> /\ r.activeIndex = 0
        /\ r.waitForFreshOptions = FALSE
        /\ SameInput(p, r) /\ SamePages(p, r)
        /\ r.debounced = FALSE /\ Live(r) = {}
    BY <1>2, <1>3, ClearListFacts DEF SameInput, SameKeys, SamePages
  <2> HIDE DEF r
  <2>2. r.activeIndex <= Len(options)
    BY <1>4, <2>1
  <2> QED BY <1>6, <2>1, <2>2, ListedIsGood DEF r
<1>7. Good(opened)
  <2>1. /\ opened \in Picker /\ opened.items = q.items /\ opened.activeIndex = q.activeIndex
        /\ opened.waitForFreshOptions = q.waitForFreshOptions
        /\ SameInput(q, opened) /\ SamePages(q, opened)
        /\ opened.debounced = q.debounced /\ opened.calls = q.calls
    BY <1>2 DEF Picker, SameInput, SamePages
  <2> HIDE DEF opened
  <2>2. SameInput(p, opened) /\ SamePages(p, opened) /\ Live(opened) = {}
    BY <1>2, <1>3, <2>1 DEF SameInput, SamePages, Live
  <2>3. opened.activeIndex <= Len(options)
    BY <1>2, <1>4, <2>1
  <2> QED BY <1>2, <1>3, <2>1, <2>2, <2>3, ListedIsGood
<1>8. ASSUME options # <<>>
      PROVE  /\ Good(moved)
             /\ moved.items[moved.activeIndex].site \in Site
  <2>1. p.pendingMove \in {-1, 0, 1}
    BY <1>1 DEF Picker
  <2>2. /\ turned \in Picker /\ turned.activeIndex \in 1..Len(options)
        /\ turned.items = options /\ turned.waitForFreshOptions = FALSE
        /\ SameInput(q, turned) /\ SamePages(q, turned)
        /\ turned.debounced = FALSE /\ Live(turned) = {}
    BY <1>2, <1>3, <1>8, <2>1, MovedFacts
  <2> HIDE DEF turned
  <2>3. /\ moved \in Picker /\ moved.activeIndex = turned.activeIndex
        /\ moved.items = turned.items
        /\ moved.waitForFreshOptions = turned.waitForFreshOptions
        /\ SameInput(turned, moved) /\ SamePages(turned, moved)
        /\ moved.debounced = turned.debounced /\ moved.calls = turned.calls
    BY <2>2 DEF Picker, SameInput, SamePages
  <2> HIDE DEF moved
  <2>4. SameInput(p, moved) /\ SamePages(p, moved) /\ Live(moved) = {}
    BY <1>2, <2>2, <2>3 DEF SameInput, SamePages, Live
  <2>5. moved.activeIndex \in 1..Len(options)
    BY <2>2, <2>3
  <2>6. Good(moved)
    <3>1. moved.activeIndex <= Len(options)
      BY <1>4, <2>5
    <3>2. moved.items = options /\ moved.waitForFreshOptions = FALSE /\ moved.debounced = FALSE
      BY <2>2, <2>3
    <3> QED BY <2>3, <2>4, <3>1, <3>2, ListedIsGood
  <2>7. options[moved.activeIndex] \in Option
    BY <1>1, <2>5, ElementOfSeq
  <2> QED BY <2>2, <2>3, <2>6, <2>7 DEF Option
<1> HIDE DEF opened, moved
<1>9. ASSUME options # <<>>
      PROVE  Good(Choose(moved, moved.items[moved.activeIndex].site))
  BY <1>8, <1>9, ChooseIsQuiet, QuietIsGood DEF Good, Searchable
<1> QED BY <1>5, <1>6, <1>7, <1>8, <1>9

\* combobox.js, moveActive
LEMMA MoveActiveGood ==
    ASSUME version \in Version, NEW p, Good(p), NEW move \in {-1, 1}
    PROVE  Good(MoveActive(p, move))
<1>1. p \in Picker
  BY DEF Good, Searchable, Formed
<1>2. CASE p.items # <<>>
  <2> DEFINE q == Moved(p, move)
  <2>1. /\ q \in Picker /\ q.activeIndex \in 1..Len(p.items)
        /\ q.items = p.items /\ q.waitForFreshOptions = p.waitForFreshOptions
        /\ SameInput(p, q) /\ SamePages(p, q)
        /\ q.debounced = p.debounced /\ q.calls = p.calls /\ Live(q) = Live(p)
    BY <1>1, <1>2, MovedFacts
  <2> HIDE DEF q
  <2>2. \A k : LiveOf(q, k) = LiveOf(p, k)
    BY <2>1 DEF LiveOf
  <2>3. Len(p.items) \in Nat
    BY <1>1 DEF Picker
  <2>4. Formed(q)
    BY <2>1, <2>2, <2>3 DEF Good, Searchable, Formed, SameInput, SamePages
  <2>5. Searchable(q)
    BY <2>1, <2>2, <2>4 DEF Good, Searchable, OptionsFit, Named, ReverseFits, SameInput
  <2>6. SearchFits(q) /\ Waiting(q)
    BY <2>1, <2>2 DEF Good, SearchFits, Waiting, SameInput, SamePages
  <2>7. PageFits(q)
    BY <2>1, <2>2 DEF Good, PageFits, SameInput, SamePages
  <2> QED BY <1>2, <2>5, <2>6, <2>7 DEF MoveActive, Good, q
<1>3. CASE p.items = <<>> /\ p.waitForFreshOptions
  BY <1>3 DEF MoveActive
<1>4. CASE p.items = <<>> /\ ~p.waitForFreshOptions
  <2> DEFINE q == [p EXCEPT !.pendingMove = move]
  <2>1. /\ q \in Picker /\ SameInput(p, q) /\ SameList(p, q) /\ SamePages(p, q)
        /\ q.debounced = p.debounced /\ q.calls = p.calls
    BY <1>1 DEF Picker, SameInput, SameList, SamePages
  <2>2. MoveActive(p, move) = BeginSearch(q, FALSE)
    BY <1>4 DEF MoveActive
  <2> HIDE DEF q
  <2>3. \A k : LiveOf(q, k) = LiveOf(p, k)
    BY <2>1 DEF LiveOf, Live
  <2>4. Formed(q)
    BY <2>1, <2>3 DEF Good, Searchable, Formed, SameInput, SameList, SamePages
  <2>5. Searchable(q)
    BY <2>1, <2>3, <2>4
       DEF Good, Searchable, OptionsFit, Named, ReverseFits, SameInput, SameList
  <2> QED BY <2>2, <2>5, BeginSearchGood
<1> QED BY <1>2, <1>3, <1>4

-----------------------------------------------------------------------------
(* The visitor *)

\* What the invariant does not mention may change; calls may cease to count,
\* but for the next page; and options may go, when there is no next page.
LEMMA GoodKept ==
    ASSUME NEW p, Good(p), NEW q \in Picker, SameInput(p, q), SamePages(p, q),
           q.items = p.items \/ (q.items = <<>> /\ p.pageState.next = 0),
           q.activeIndex <= Len(q.items), Live(q) \subseteq Live(p),
           LiveOf(q, "page") = LiveOf(p, "page"), q.debounced => p.debounced, Waiting(q)
    PROVE  Good(q)
<1>1. \A k : LiveOf(q, k) \subseteq LiveOf(p, k)
  BY DEF LiveOf
<1>2. Formed(q)
  BY <1>1 DEF Good, Searchable, Formed, SameInput, SamePages
<1>3. OptionsFit(q, q.items) /\ Named(q)
  BY DEF Good, Searchable, OptionsFit, Named, SameInput
<1>4. ReverseFits(q)
  BY <1>1 DEF Good, Searchable, ReverseFits, SameInput
<1>5. SearchFits(q)
  BY <1>1 DEF Good, SearchFits, SameInput, SamePages
<1>6. PageFits(q)
  BY DEF Good, PageFits, SameInput, SamePages
<1> QED BY <1>2, <1>3, <1>4, <1>5, <1>6 DEF Good, Searchable

\* An empty list is a place to start a search from.
LEMMA FreshIsSearchable ==
    ASSUME NEW p \in Picker, p.items = <<>>, p.activeIndex = 0,
           p.pageState = NoPage, p.paginationLoading = FALSE,
           Live(p) \subseteq LiveOf(p, "search"), Named(p),
           p.kind = "institution" => ~p.debounced
    PROVE  Searchable(p)
<1>1. LiveOf(p, "page") = {} /\ LiveOf(p, "reverse") = {}
  BY DEF LiveOf
<1>2. Formed(p)
  BY <1>1 DEF Formed
<1> QED BY <1>1, <1>2 DEF Searchable, OptionsFit, ReverseFits

LEMMA HandleInputGood ==
    ASSUME IInv, NEW t \in Text, HandleInput(t)
    PROVE  IInv'
<1> DEFINE stale == picker.items # <<>> /\ picker.renderedQuery # t
           f == ForgetKeys(picker)
           c == ClearList(f)
           q == [c EXCEPT !.typed = t, !.selectedItem = None,
                          !.renderedQuery = None, !.waitForFreshOptions = stale]
           r == CancelOthers(q)
<1>1. version \in Version /\ picker \in Picker /\ Formed(picker)
  BY DEF IInv, Good, Searchable, Formed
<1>2. /\ f \in Picker /\ SameInput(picker, f) /\ SamePages(picker, f)
      /\ f.debounced = picker.debounced /\ Live(f) = Live(picker)
  BY <1>1, ForgetKeysFacts
<1> HIDE DEF f
<1>3. /\ c \in Picker /\ c.items = <<>> /\ c.activeIndex = 0
      /\ SameInput(f, c) /\ SamePages(f, c)
      /\ c.debounced = f.debounced /\ Live(c) = Live(f)
  BY <1>2, ClearListFacts
<1>4. picker' = BeginSearch(r, TRUE) /\ version' = version
  BY DEF HandleInput, Becomes, f
<1>5. stale \in BOOLEAN
  OBVIOUS
<1> HIDE DEF c, stale
<1>6. /\ q \in Picker /\ q.items = c.items /\ q.activeIndex = c.activeIndex
      /\ SamePages(c, q) /\ q.kind = c.kind /\ q.selectedItem = None
      /\ q.debounced = c.debounced /\ q.calls = c.calls
  <2>1. q \in Picker
    BY <1>3, <1>5 DEF Picker
  <2>2. {"typed", "selectedItem", "renderedQuery", "waitForFreshOptions"} \subseteq DOMAIN c
    BY <1>3 DEF Picker
  <2> QED BY <2>1, <2>2 DEF SamePages
<1> HIDE DEF q
<1>7. \A k : LiveOf(q, k) = LiveOf(picker, k)
  BY <1>2, <1>3, <1>6 DEF LiveOf, Live
<1>8. Formed(q)
  BY <1>1, <1>2, <1>3, <1>6, <1>7 DEF Formed, SameInput, SamePages
<1>9. /\ r \in Picker /\ SameInput(q, r) /\ SameList(q, r)
      /\ r.debounced = q.debounced
      /\ r.pageState = NoPage /\ r.paginationLoading = FALSE
      /\ Live(r) = LiveOf(q, "search")
  BY <1>8, CancelOthersFacts
<1> HIDE DEF r
<1>10. Live(r) \subseteq LiveOf(r, "search")
  BY <1>9 DEF LiveOf
<1>11. /\ r.items = <<>> /\ r.activeIndex = 0 /\ Named(r)
       /\ r.kind = "institution" => ~r.debounced
  BY <1>3, <1>6, <1>8, <1>9 DEF SameInput, SameList, Named, Formed
<1>12. Searchable(r)
  BY <1>9, <1>10, <1>11, FreshIsSearchable
<1> QED BY <1>1, <1>4, <1>12, BeginSearchGood DEF IInv, Version

LEMMA DebounceEndsGood ==
    ASSUME IInv, DebounceEnds
    PROVE  IInv'
<1> DEFINE q == [picker EXCEPT !.debounced = FALSE]
<1>1. version \in Version /\ Good(picker) /\ Searchable(picker) /\ picker \in Picker
  BY DEF IInv, Good, Searchable, Formed
<1>2. picker.debounced /\ picker' = PerformSearch(q) /\ version' = version
  BY DEF DebounceEnds, Becomes
<1>3. LiveOf(picker, "search") = {} /\ LiveOf(picker, "reverse") = {}
  BY <1>1, <1>2 DEF Good, SearchFits
<1>4. /\ q \in Picker /\ SameInput(picker, q) /\ SameList(picker, q) /\ SamePages(picker, q)
      /\ q.debounced = FALSE /\ q.calls = picker.calls
  BY <1>1 DEF Picker, SameInput, SameList, SamePages
<1> HIDE DEF q
<1>5. Live(q) = Live(picker) /\ \A k : LiveOf(q, k) = LiveOf(picker, k)
  BY <1>4 DEF Live, LiveOf
<1>6. Searchable(q)
  BY <1>1, <1>4, <1>5, SearchableKept
<1> QED BY <1>1, <1>2, <1>3, <1>4, <1>5, <1>6, PerformSearchGood DEF IInv, Version

LEMMA ChooseGood ==
    ASSUME IInv, NEW site \in Site, Becomes(Choose(picker, site))
    PROVE  IInv'
BY ChooseIsQuiet, QuietIsGood DEF IInv, Good, Searchable, Becomes, Version

\* The name of a listed option is that of a site.
LEMMA ListedSite ==
    ASSUME IInv, NEW i \in 1..Len(picker.items)
    PROVE  picker.items[i].site \in Site
<1>1. picker.items \in Seq(Option)
  BY DEF IInv, Good, Searchable, Formed, Picker
<1>2. picker.items[i] \in Option
  BY <1>1, ElementOfSeq
<1> QED BY <1>2 DEF Option

LEMMA PressEnterGood ==
    ASSUME IInv, PressEnter
    PROVE  IInv'
<1>1. /\ version \in Version /\ Good(picker) /\ picker \in Picker
      /\ picker.activeIndex <= Len(picker.items) /\ picker.activeIndex \in Nat
  BY DEF IInv, Good, Searchable, Formed, Picker
<1>2. CASE picker.activeIndex > 0 /\ Becomes(Choose(picker, picker.items[picker.activeIndex].site))
  <2>1. picker.activeIndex \in 1..Len(picker.items)
    BY <1>1, <1>2 DEF Picker
  <2> QED BY <1>2, <2>1, ListedSite, ChooseGood
<1>3. CASE Becomes([picker EXCEPT !.pendingEnter = TRUE])
  <2> DEFINE q == [picker EXCEPT !.pendingEnter = TRUE]
  <2>1. /\ q \in Picker /\ SameInput(picker, q) /\ SameList(picker, q) /\ SamePages(picker, q)
        /\ q.waitForFreshOptions = picker.waitForFreshOptions
        /\ q.debounced = picker.debounced /\ q.calls = picker.calls
    BY <1>1 DEF Picker, SameInput, SameList, SamePages
  <2> HIDE DEF q
  <2>2. Live(q) = Live(picker) /\ \A k : LiveOf(q, k) = LiveOf(picker, k)
    BY <2>1 DEF Live, LiveOf
  <2>3. Waiting(q)
    BY <1>1, <2>1, <2>2 DEF Good, Waiting
  <2>4. Good(q)
    BY <1>1, <2>1, <2>2, <2>3, GoodKept DEF SameList
  <2> QED BY <1>1, <1>3, <2>4 DEF IInv, Becomes, q, Version
<1> QED BY <1>2, <1>3 DEF PressEnter

LEMMA PressEscapeGood ==
    ASSUME IInv, PressEscape
    PROVE  IInv'
<1> DEFINE f == ForgetKeys(picker)
           c == CancelPending(f)
           q == CloseList(c)
<1>1. version \in Version /\ Good(picker) /\ picker \in Picker
  BY DEF IInv, Good, Searchable, Formed
<1>2. picker' = q /\ version' = version
  BY DEF PressEscape, Becomes
<1>3. /\ f \in Picker /\ f.waitForFreshOptions = FALSE
      /\ SameInput(picker, f) /\ SameList(picker, f) /\ SamePages(picker, f)
      /\ Live(f) = Live(picker)
  BY <1>1, ForgetKeysFacts
<1> HIDE DEF f
<1>4. /\ c \in Picker /\ SameInput(f, c) /\ SameList(f, c) /\ SameKeys(f, c) /\ SamePages(f, c)
      /\ c.debounced = FALSE /\ Live(c) = Live(f) \ LiveOf(f, "search")
  BY <1>3, CancelPendingFacts
<1> HIDE DEF c
<1>5. /\ q \in Picker /\ q.activeIndex = 0 /\ q.items = c.items
      /\ SameInput(c, q) /\ SameKeys(c, q) /\ SamePages(c, q)
      /\ q.debounced = c.debounced /\ q.calls = c.calls
  BY <1>4 DEF CloseList, Picker, SameInput, SameKeys, SamePages
<1> HIDE DEF q
<1>6. /\ SameInput(picker, q) /\ SamePages(picker, q) /\ q.items = picker.items
      /\ q.waitForFreshOptions = FALSE /\ q.debounced = FALSE
  BY <1>3, <1>4, <1>5 DEF SameInput, SamePages, SameList, SameKeys
<1>7. Live(q) \subseteq Live(picker) /\ LiveOf(q, "page") = LiveOf(picker, "page")
  BY <1>3, <1>4, <1>5 DEF Live, LiveOf
<1>8. q.activeIndex <= Len(q.items)
  BY <1>1, <1>5, <1>6 DEF Picker
<1>9. Good(q)
  BY <1>1, <1>5, <1>6, <1>7, <1>8, GoodKept DEF Waiting
<1> QED BY <1>1, <1>2, <1>9 DEF IInv, Version

\* A search that starts from what the form shows.
LEMMA SearchAgainGood ==
    ASSUME IInv, Becomes(BeginSearch(picker, FALSE))
    PROVE  IInv'
BY BeginSearchGood DEF IInv, Good, Becomes, Version

LEMMA PressArrowGood ==
    ASSUME IInv, NEW move \in {-1, 1}, PressArrow(move)
    PROVE  IInv'
BY MoveActiveGood DEF IInv, PressArrow, Becomes, Version

LEMMA HandleFilterChangeGood ==
    ASSUME IInv, NEW f \in Filter, HandleFilterChange(f)
    PROVE  IInv'
<1> DEFINE p == [picker EXCEPT !.filter = f]
           q == ResetBaseSearchState(p)
           r == Clear(q, q.typed)
<1>1. version \in Version /\ Formed(picker) /\ picker \in Picker
  BY DEF IInv, Good, Searchable, Formed
<1>2. /\ picker.kind = "institution"
      /\ picker' = BeginSearch(r, FALSE) /\ version' = version
  BY DEF HandleFilterChange, Becomes
<1>3. p \in Picker /\ p.calls = picker.calls
  BY <1>1 DEF Picker
<1> HIDE DEF p
<1>4. /\ q \in Picker /\ q.pageState = NoPage /\ q.paginationLoading = FALSE
      /\ Live(q) = Live(p) \ LiveOf(p, "page")
  BY <1>3, ResetFacts
<1>5. \A c \in Live(p) : c.kind \in {"search", "page", "reverse"}
  BY <1>3, CallsType
<1>6. LiveOf(p, "reverse") = {}
  BY <1>1, <1>2, <1>3 DEF Formed, LiveOf, Live
<1>7. Live(q) \subseteq LiveOf(q, "search")
  BY <1>4, <1>5, <1>6 DEF LiveOf
<1>8. q.typed \in Text
  BY <1>4 DEF Picker
<1> HIDE DEF q
<1>9. Quiet(r)
  BY <1>4, <1>7, <1>8, ClearIsQuiet
<1> HIDE DEF r
<1>10. Good(BeginSearch(r, FALSE))
  BY <1>1, <1>9, QuietIsGood, BeginSearchGood DEF Good
<1> QED BY <1>1, <1>2, <1>10 DEF IInv, Version

\* institution-picker.js, loadMore: there is a next page, so no search is on its
\* way, and none is loading, so no other page is.
LEMMA LoadMoreGood ==
    ASSUME IInv, LoadMore
    PROVE  IInv'
<1> DEFINE p == [picker EXCEPT !.paginationLoading = TRUE]
           o == picker.pageState.next
           q == Ask(p, "page", o)
           new == [kind |-> "page", text |-> p.typed, filter |-> p.filter, since |-> version,
                   offset |-> o, snapshot |-> p.pageState.snapshot,
                   current |-> TRUE]
<1>1. version \in Version /\ Good(picker) /\ Formed(picker) /\ picker \in Picker
  BY DEF IInv, Good, Searchable, Formed
<1>2. /\ ~picker.paginationLoading /\ picker.pageState.next # 0
      /\ picker' = q /\ version' = version
  BY DEF LoadMore, Becomes
<1>3. picker.kind = "institution"
  BY <1>1, <1>2 DEF Formed, NoPage, Picker
<1>4. /\ LiveOf(picker, "page") = {} /\ LiveOf(picker, "search") = {}
      /\ LiveOf(picker, "reverse") = {} /\ ~picker.debounced
  BY <1>1, <1>2, <1>3 DEF Good, PageFits, SearchFits, Formed
<1>5. Live(picker) = {}
  BY <1>1, <1>4, CallsType DEF LiveOf
<1>6. /\ p \in Picker /\ p.pageState = picker.pageState /\ p.paginationLoading = TRUE
      /\ SameInput(picker, p) /\ SameList(picker, p) /\ SameKeys(picker, p)
      /\ p.debounced = picker.debounced /\ p.calls = picker.calls
  BY <1>1 DEF Picker, SameInput, SameList, SameKeys
<1> HIDE DEF p
<1>7. Live(p) = {}
  BY <1>5, <1>6 DEF Live
<1>8. o \in Nat
  BY <1>1 DEF Picker
<1> HIDE DEF o
<1>9. /\ q \in Picker
      /\ SameInput(p, q) /\ SameList(p, q) /\ SameKeys(p, q) /\ SamePages(p, q)
      /\ q.debounced = p.debounced
      /\ Live(q) = {new}
  <2>1. /\ q \in Picker
        /\ SameInput(p, q) /\ SameList(p, q) /\ SameKeys(p, q) /\ SamePages(p, q)
        /\ q.debounced = p.debounced
        /\ Live(q) = Live(p) \cup {new}
    <3> HIDE DEF q
    <3>1. version \in Version /\ p \in Picker /\ o \in Nat /\ "page" \in {"search", "page", "reverse"}
      BY <1>1, <1>6, <1>8
    <3> QED BY ONLY <3>1, AskFacts DEF q
  <2> QED BY <1>7, <2>1
<1>10. /\ SameInput(picker, q) /\ SameList(picker, q) /\ SameKeys(picker, q)
       /\ q.pageState = picker.pageState /\ q.paginationLoading = TRUE
       /\ q.debounced = picker.debounced
  BY <1>6, <1>9 DEF SameInput, SameList, SameKeys, SamePages
<1>11. /\ new.kind = "page" /\ new.text = q.typed /\ new.filter = q.filter
       /\ new.offset = q.pageState.next /\ new.snapshot = q.pageState.snapshot
  BY <1>6, <1>10 DEF SameInput, o
<1> HIDE DEF q, new
<1>12. LiveOf(q, "page") = {new} /\ LiveOf(q, "search") = {} /\ LiveOf(q, "reverse") = {}
  BY <1>9, <1>11 DEF LiveOf
<1>13. Formed(q)
  BY <1>1, <1>3, <1>4, <1>9, <1>10, <1>12 DEF Formed, SameInput, SameList
<1>14. Searchable(q)
  BY <1>1, <1>10, <1>12, <1>13
     DEF Good, Searchable, OptionsFit, Named, ReverseFits, SameInput, SameList
<1>15. SearchFits(q)
  BY <1>4, <1>10, <1>12 DEF SearchFits
<1>16. PageFits(q)
  BY <1>1, <1>2, <1>10, <1>11, <1>12 DEF Good, PageFits, SameInput, SameList
<1>17. Waiting(q)
  BY <1>1, <1>4, <1>10, <1>12 DEF Good, Waiting, SameKeys
<1> QED BY <1>1, <1>2, <1>14, <1>15, <1>16, <1>17 DEF IInv, Good, Version

\* Clearing a picker of destinations, once its look-up is outdated.
LEMMA ClearDestination ==
    ASSUME IInv, picker.kind = "destination", NEW t \in Text
    PROVE  LET q == Clear(Outdate(picker, "reverse"), t)
           IN /\ Quiet(q) /\ q.typed = t /\ q.selectedItem = None
              /\ q.kind = picker.kind /\ q.filter = picker.filter
<1> DEFINE p == Outdate(picker, "reverse")
<1>1. Formed(picker) /\ picker \in Picker
  BY DEF IInv, Good, Searchable, Formed
<1>2. /\ p \in Picker /\ SameInput(picker, p) /\ SamePages(picker, p)
      /\ Live(p) = Live(picker) \ LiveOf(picker, "reverse")
  BY <1>1, OutdateFacts
<1> HIDE DEF p
<1>3. p.pageState = NoPage /\ p.paginationLoading = FALSE
  BY <1>1, <1>2 DEF Formed, SamePages, Picker
<1>4. \A c \in Live(picker) : c.kind \in {"search", "page", "reverse"}
  BY <1>1, CallsType
<1>5. Live(p) \subseteq LiveOf(p, "search")
  BY <1>1, <1>2, <1>4 DEF LiveOf, Formed
<1>6. LET q == Clear(p, t)
      IN /\ Quiet(q) /\ q.typed = t /\ q.selectedItem = None
         /\ q.kind = p.kind /\ q.filter = p.filter
  BY <1>2, <1>3, <1>5, ClearIsQuiet
<1> QED BY <1>2, <1>6 DEF p, SameInput

\* destination-picker.js, reverseDestination: nothing is typed or selected while
\* a map click is looked up.
LEMMA ClickMapGood ==
    ASSUME IInv, ClickMap
    PROVE  IInv'
<1> DEFINE p == Clear(Outdate(picker, "reverse"), Blank)
           q == Ask(p, "reverse", 0)
           new == [kind |-> "reverse", text |-> p.typed, filter |-> p.filter,
                   since |-> version, offset |-> 0, snapshot |-> p.pageState.snapshot,
                   current |-> TRUE]
<1>1. version \in Version /\ picker.kind = "destination" /\ picker' = q /\ version' = version
  BY DEF IInv, ClickMap, Becomes
<1>2. /\ Quiet(p) /\ p.typed = Blank /\ p.selectedItem = None /\ p.kind = "destination"
  BY <1>1, ClearDestination DEF Text
<1> HIDE DEF p
<1>3. /\ q \in Picker
      /\ SameInput(p, q) /\ SameList(p, q) /\ SameKeys(p, q) /\ SamePages(p, q)
      /\ q.debounced = p.debounced
      /\ Live(q) = {new}
  BY <1>1, <1>2, AskFacts, SMTT(30) DEF Quiet
<1>4. new.kind = "reverse" /\ new.filter = q.filter
  BY <1>3 DEF SameInput
<1> HIDE DEF q, new
<1>5. LiveOf(q, "reverse") = {new} /\ LiveOf(q, "search") = {} /\ LiveOf(q, "page") = {}
  BY <1>3, <1>4 DEF LiveOf
<1>6. /\ q.kind = "destination" /\ q.typed = Blank /\ q.selectedItem = None
      /\ q.items = <<>> /\ q.activeIndex = 0 /\ q.waitForFreshOptions = FALSE
      /\ q.pageState = NoPage /\ q.paginationLoading = FALSE /\ q.debounced = FALSE
  BY <1>2, <1>3 DEF Quiet, SameInput, SameList, SameKeys, SamePages
<1>7. Formed(q)
  BY <1>3, <1>5, <1>6 DEF Formed
<1>8. OptionsFit(q, q.items) /\ Named(q)
  BY <1>6 DEF OptionsFit, Named
<1>9. ReverseFits(q)
  BY <1>4, <1>5, <1>6 DEF ReverseFits
<1>10. SearchFits(q) /\ Waiting(q)
  BY <1>5, <1>6 DEF SearchFits, Waiting
<1> QED BY <1>1, <1>6, <1>7, <1>8, <1>9, <1>10, DestinationHasNoPages
        DEF IInv, Good, Searchable, Version

LEMMA SelectResolvedGood ==
    ASSUME IInv, NEW site \in Site, SelectResolved(site)
    PROVE  IInv'
BY ChooseGood DEF SelectResolved

LEMMA ClearPickerGood ==
    ASSUME IInv, ClearPicker
    PROVE  IInv'
<1> DEFINE p == CancelOthers(picker)
<1>1. version \in Version /\ Formed(picker)
  BY DEF IInv, Good, Searchable
<1>2. /\ p \in Picker /\ p.pageState = NoPage /\ p.paginationLoading = FALSE
      /\ Live(p) = LiveOf(picker, "search")
  BY <1>1, CancelOthersFacts
<1>3. picker' = Clear(p, Blank) /\ version' = version
  BY DEF ClearPicker, Becomes
<1> HIDE DEF p
<1>4. Live(p) \subseteq LiveOf(p, "search")
  BY <1>2 DEF LiveOf
<1>5. Good(Clear(p, Blank))
  BY <1>2, <1>4, ClearIsQuiet, QuietIsGood DEF Text
<1> QED BY <1>1, <1>3, <1>5 DEF IInv, Version

LEMMA SetQueryAndSearchGood ==
    ASSUME IInv, NEW t \in Text, SetQueryAndSearch(t)
    PROVE  IInv'
<1> DEFINE p == Clear(Outdate(picker, "reverse"), t)
<1>1. version \in Version /\ picker.kind = "destination"
      /\ picker' = BeginSearch(p, FALSE) /\ version' = version
  BY DEF IInv, SetQueryAndSearch, Becomes
<1>2. Quiet(p)
  BY <1>1, ClearDestination
<1> HIDE DEF p
<1>3. Good(BeginSearch(p, FALSE))
  BY <1>1, <1>2, QuietIsGood, BeginSearchGood DEF Good
<1> QED BY <1>1, <1>3 DEF IInv, Version

-----------------------------------------------------------------------------
(* Options and pages *)

LEMMA OptionsOfType ==
    ASSUME NEW sites \in Seq(Site), NEW t \in Text, NEW f \in Filter,
           NEW v \in Version \cup {0}
    PROVE  /\ OptionsOf(sites, t, f, v) \in Seq(Option)
           /\ Len(OptionsOf(sites, t, f, v)) = Len(sites)
           /\ \A i \in 1..Len(sites) :
                OptionsOf(sites, t, f, v)[i]
                  = [site |-> sites[i], text |-> t, filter |-> f, version |-> v]
<1> DEFINE o == OptionsOf(sites, t, f, v)
<1>1. o = [i \in 1..Len(sites) |-> [site |-> sites[i], text |-> t, filter |-> f, version |-> v]]
  BY DEF OptionsOf
<1>2. \A i \in 1..Len(sites) : sites[i] \in Site
  BY ElementOfSeq
<1>3. \A i \in 1..Len(sites) :
         [site |-> sites[i], text |-> t, filter |-> f, version |-> v] \in Option
  BY <1>2 DEF Option
<1>4. Len(sites) \in Nat
  OBVIOUS
<1> HIDE DEF o
<1>5. o \in [1..Len(sites) -> Option]
  BY <1>1, <1>3
<1>6. o \in Seq(Option) /\ Len(o) = Len(sites)
  BY <1>4, <1>5
<1> QED BY <1>1, <1>6 DEF o

\* What a search finds.
LEMMA FoundFacts ==
    ASSUME NEW t \in Text, NEW f \in Filter, NEW v \in Version
    PROVE  /\ Found(t, f, v) \in Seq(Site)
           /\ Len(Found(t, f, v)) \in Nat
           /\ \A i, j \in 1..Len(Found(t, f, v)) :
                Found(t, f, v)[i] = Found(t, f, v)[j] => i = j
BY PickerAssumption

\* A page begins after the offset, and there is a next one only after it.
LEMMA PageOfFacts ==
    ASSUME NEW found \in Seq(Site), NEW offset \in 0..Len(found)
    PROVE  LET page == PageOf(found, offset)
           IN \E end \in offset..Len(found) :
                /\ page.sites = SubSeq(found, offset + 1, end)
                /\ page.next \in {0, end}
                /\ page.next \in Nat
                /\ page.next # 0 => end # 0
<1> DEFINE end == IF offset + PageSize < Len(found) THEN offset + PageSize ELSE Len(found)
<1>1. PageSize \in Nat \ {0} /\ Len(found) \in Nat
  BY PickerAssumption
<1>2. end \in offset..Len(found)
  BY <1>1
<1>3. PageOf(found, offset) = [sites |-> SubSeq(found, offset + 1, end),
                               next |-> IF end < Len(found) THEN end ELSE 0]
  BY DEF PageOf
<1> HIDE DEF end
<1> QED BY <1>1, <1>2, <1>3

\* The first places that a search finds are what it finds, as options.
LEMMA FirstOptions ==
    ASSUME NEW t \in Text, NEW f \in Filter, NEW v \in Version,
           NEW end \in 0..Len(Found(t, f, v))
    PROVE  LET options == OptionsOf(SubSeq(Found(t, f, v), 1, end), t, f, v)
           IN /\ options \in Seq(Option) /\ Len(options) = end
              /\ FoundBySearch(options, t, f, v)
<1> DEFINE found == Found(t, f, v)
           sites == SubSeq(found, 1, end)
           options == OptionsOf(sites, t, f, v)
<1>1. found \in Seq(Site) /\ Len(found) \in Nat
  BY FoundFacts
<1>2. sites \in Seq(Site) /\ Len(sites) = end
  BY <1>1, SubSeqProperties
<1>3. options \in Seq(Option) /\ Len(options) = end
  BY <1>2, OptionsOfType
<1> QED BY <1>1, <1>3 DEF FoundBySearch

-----------------------------------------------------------------------------
(* Answers *)

LEMMA WithoutFacts ==
    ASSUME IInv, NEW c \in picker.calls
    PROVE  LET q == Without(c)
           IN /\ q \in Picker
              /\ SameInput(picker, q) /\ SameList(picker, q) /\ SameKeys(picker, q)
              /\ SamePages(picker, q) /\ q.debounced = picker.debounced
              /\ Live(q) = Live(picker) \ {c}
              /\ c \in Call
<1>1. picker \in Picker /\ picker.calls \subseteq Call
  BY CallsType DEF IInv, Good, Searchable, Formed
<1> DEFINE X == picker.calls \ {c}
<1>2. Without(c) = [picker EXCEPT !.calls = X]
  BY DEF Without
<1>3. {d \in X : d.current} = Live(picker) \ {c}
  BY DEF Live
<1>4. X \subseteq Call
  BY <1>1
<1> HIDE DEF X
<1>5. LET q == [picker EXCEPT !.calls = X]
      IN /\ q \in Picker /\ q.calls = X
         /\ SameInput(picker, q) /\ SameList(picker, q) /\ SameKeys(picker, q)
         /\ SamePages(picker, q) /\ q.debounced = picker.debounced
  BY <1>1, <1>4, WithCalls
<1> QED BY <1>1, <1>2, <1>3, <1>5 DEF Live

\* The snapshot that answers is one that the server has had since the call.
LEMMA AnswerVersion ==
    ASSUME version \in Version, NEW c \in Call, NEW v \in c.since .. version
    PROVE  v \in Version
BY PickerAssumption DEF Version, Call

\* While a search counts, nothing else does.
LEMMA SearchAlone ==
    ASSUME NEW p, Good(p), NEW c \in LiveOf(p, "search")
    PROVE  /\ Live(p) = {c} /\ p.debounced = FALSE
           /\ p.pageState.next = 0 /\ p.paginationLoading = FALSE
           /\ c.text = p.typed /\ c.filter = p.filter
<1>1. p \in Picker
  BY DEF Good, Searchable, Formed
<1>2. p.pageState.next = 0 /\ LiveOf(p, "reverse") = {} /\ ~p.debounced
  BY DEF Good, SearchFits
<1>3. LiveOf(p, "page") = {} /\ ~p.paginationLoading
  BY <1>2 DEF Good, PageFits
<1>4. LiveOf(p, "search") = {c}
  BY DEF Good, SearchFits
<1>5. Live(p) = {c}
  BY <1>1, <1>2, <1>3, <1>4, CallsType DEF LiveOf
<1> QED BY <1>1, <1>2, <1>3, <1>5 DEF Good, SearchFits, Picker

LEMMA SearchAnsweredGood ==
    ASSUME IInv, NEW c \in picker.calls, SearchAnswered(c)
    PROVE  IInv'
<1>1. version \in Version /\ Good(picker) /\ picker \in Picker /\ version' = version
  BY DEF IInv, Good, Searchable, Formed, SearchAnswered, Becomes
<1>2. c \in LiveOf(picker, "search")
  BY DEF SearchAnswered, LiveOf, Live
<1>3. /\ Live(picker) = {c} /\ picker.debounced = FALSE
      /\ picker.pageState.next = 0 /\ picker.paginationLoading = FALSE
      /\ c.text = picker.typed /\ c.filter = picker.filter
  BY <1>1, <1>2, SearchAlone
<1> DEFINE q == Without(c)
<1>4. /\ q \in Picker /\ SameInput(picker, q) /\ SamePages(picker, q)
      /\ SameList(picker, q)
      /\ q.debounced = FALSE /\ Live(q) = {} /\ c \in Call
  BY <1>3, WithoutFacts
<1> HIDE DEF q
<1>5. PICK v \in c.since .. version :
        LET page == PageOf(Found(c.text, c.filter, v), 0)
            first == [q EXCEPT !.pageState = [snapshot |-> v, next |-> page.next]]
        IN IF picker.kind = "institution"
           THEN picker' = ShowResults(first, OptionsOf(page.sites, c.text, c.filter, v))
           ELSE picker' = ShowResults(q, OptionsOf(Found(c.text, c.filter, v),
                                                   c.text, c.filter, v))
  BY DEF SearchAnswered, Becomes, q
<1>6. v \in Version
  BY <1>1, <1>4, AnswerVersion
<1>7. c.text \in Text /\ c.filter \in Filter
  BY <1>4 DEF Call
<1> DEFINE found == Found(c.text, c.filter, v)
           page == PageOf(found, 0)
<1>8. found \in Seq(Site) /\ Len(found) \in Nat
  BY <1>6, <1>7, FoundFacts
<1>9. Named(picker) /\ Formed(picker)
  BY <1>1 DEF Good, Searchable
<1>10. Named(q)
  BY <1>4, <1>9 DEF Named, SameInput
<1>11. \A k : LiveOf(q, k) = {}
  BY <1>4 DEF LiveOf
<1>12. Formed(q)
  BY <1>4, <1>9, <1>11 DEF Formed, SameInput, SameList, SamePages
<1>13. CASE picker.kind = "institution"
  <2> DEFINE first == [q EXCEPT !.pageState = [snapshot |-> v, next |-> page.next]]
             options == OptionsOf(page.sites, c.text, c.filter, v)
  <2>1. PICK end \in 0..Len(found) :
          /\ page.sites = SubSeq(found, 1, end)
          /\ page.next \in {0, end} /\ page.next \in Nat
          /\ page.next # 0 => end # 0
    <3>1. 0 \in 0..Len(found) /\ 0 + 1 = 1
      BY <1>8
    <3> HIDE DEF found
    <3> QED BY <1>8, <3>1, PageOfFacts
  <2>2. /\ options \in Seq(Option) /\ Len(options) = end
        /\ FoundBySearch(options, c.text, c.filter, v)
    <3>1. options = OptionsOf(SubSeq(found, 1, end), c.text, c.filter, v)
      BY <2>1
    <3> HIDE DEF options
    <3> QED BY <1>6, <1>7, <3>1, FirstOptions
  <2> HIDE DEF page
  <2>3. /\ first \in Picker /\ SameInput(q, first) /\ SameList(q, first)
        /\ first.debounced = q.debounced /\ first.calls = q.calls
        /\ first.paginationLoading = q.paginationLoading
        /\ first.pageState.next = page.next /\ first.pageState.snapshot = v
    BY <1>4, <1>6, <2>1 DEF Picker, SameInput, SameList
  <2>4. picker' = ShowResults(first, options)
    BY <1>5, <1>13 DEF page
  <2> HIDE DEF first, options, found
  <2>5. Live(first) = {} /\ \A k : LiveOf(first, k) = {}
    BY <1>4, <2>3 DEF Live, LiveOf
  <2>6. Formed(first)
    BY <1>4, <1>12, <1>13, <2>3, <2>5 DEF Formed, SameInput, SameList
  <2>7. /\ Named(first) /\ first.typed = c.text /\ first.filter = c.filter
        /\ first.debounced = FALSE /\ first.paginationLoading = FALSE
    BY <1>3, <1>4, <1>10, <2>3 DEF Named, SameInput, SamePages
  <2>8. OptionsFit(first, options)
    BY <1>6, <2>2, <2>7 DEF OptionsFit
  <2>9. page.next # 0 => options # <<>> /\ page.next = Len(options)
    BY <2>1, <2>2
  <2>10. Answered(first, options)
    BY <1>6, <2>2, <2>3, <2>5, <2>6, <2>7, <2>8, <2>9 DEF Answered
  <2> QED BY <1>1, <2>4, <2>10, ShowResultsGood DEF IInv, Version
<1>14. CASE picker.kind = "destination"
  <2> DEFINE options == OptionsOf(found, c.text, c.filter, v)
  <2>1. /\ options \in Seq(Option)
        /\ FoundBySearch(options, c.text, c.filter, v)
    <3>1. SubSeq(found, 1, Len(found)) = found /\ Len(found) \in 0..Len(found)
      BY <1>8, SubSeqFull
    <3> QED BY <1>6, <1>7, <3>1, FirstOptions
  <2>2. picker' = ShowResults(q, options)
    BY <1>5, <1>14
  <2> HIDE DEF found, options
  <2>3. OptionsFit(q, options)
    BY <1>3, <1>4, <1>6, <2>1 DEF OptionsFit, SameInput
  <2>4. q.pageState.next = 0 /\ q.paginationLoading = FALSE
    BY <1>3, <1>4 DEF SamePages
  <2>5. Answered(q, options)
    BY <1>4, <1>10, <1>12, <2>1, <2>3, <2>4 DEF Answered
  <2> QED BY <1>1, <2>2, <2>5, ShowResultsGood DEF IInv, Version
<1> QED BY <1>1, <1>13, <1>14 DEF Picker

LEMMA SearchFailsGood ==
    ASSUME IInv, NEW c \in picker.calls, SearchFails(c)
    PROVE  IInv'
<1> DEFINE w == Without(c)
           l == ClearList(w)
           q == [l EXCEPT !.waitForFreshOptions = FALSE, !.retryVisible = TRUE]
<1>1. version \in Version /\ Good(picker) /\ c \in LiveOf(picker, "search")
  BY DEF IInv, SearchFails, LiveOf, Live
<1>2. picker' = q /\ version' = version
  BY DEF SearchFails, Becomes
<1>3. Live(picker) = {c} /\ picker.debounced = FALSE /\ picker.pageState.next = 0
  BY <1>1, SearchAlone
<1>4. /\ w \in Picker /\ SameInput(picker, w) /\ SamePages(picker, w)
      /\ w.debounced = FALSE /\ Live(w) = {}
  BY <1>3, WithoutFacts
<1> HIDE DEF w
<1>5. /\ l \in Picker /\ l.items = <<>> /\ l.activeIndex = 0
      /\ SameInput(w, l) /\ SamePages(w, l)
      /\ l.debounced = FALSE /\ Live(l) = {}
  BY <1>4, ClearListFacts
<1> HIDE DEF l
<1>6. /\ q \in Picker /\ q.items = <<>> /\ q.activeIndex = 0 /\ q.waitForFreshOptions = FALSE
      /\ SameInput(l, q) /\ SamePages(l, q)
      /\ q.debounced = FALSE /\ q.calls = l.calls
  BY <1>5 DEF Picker, SameInput, SamePages
<1> HIDE DEF q
<1>7. SameInput(picker, q) /\ SamePages(picker, q) /\ Live(q) = {}
  BY <1>4, <1>5, <1>6 DEF SameInput, SamePages, Live
<1>8. LiveOf(q, "page") = {} /\ LiveOf(picker, "page") = {}
  BY <1>1, <1>3, <1>7 DEF LiveOf
<1>9. Waiting(q) /\ q.activeIndex <= Len(q.items)
  BY <1>6, EmptySeq DEF Waiting
<1>10. Good(q)
  BY <1>1, <1>3, <1>6, <1>7, <1>8, <1>9, GoodKept
<1> QED BY <1>1, <1>2, <1>10 DEF IInv, Version

\* A page that counts is the next one, of the options there are.
LEMMA PageAlone ==
    ASSUME NEW p, Good(p), NEW c \in LiveOf(p, "page")
    PROVE  /\ p.kind = "institution" /\ p.debounced = FALSE
           /\ Live(p) = {c} /\ p.paginationLoading
           /\ c.text = p.typed /\ c.filter = p.filter
           /\ c.offset = p.pageState.next /\ c.snapshot = p.pageState.snapshot
           /\ c.offset # 0 /\ c.offset = Len(p.items) /\ c.snapshot \in Version
           /\ FoundBySearch(p.items, c.text, c.filter, c.snapshot)
<1>1. p \in Picker /\ Formed(p)
  BY DEF Good, Searchable, Formed
<1>2. p.kind = "institution"
  BY <1>1 DEF Formed, Picker
<1>3. /\ c.text = p.typed /\ c.filter = p.filter
      /\ p.pageState.next # 0 /\ p.paginationLoading
      /\ c.offset = p.pageState.next /\ c.snapshot = p.pageState.snapshot
  BY DEF Good, PageFits
<1>4. /\ p.pageState.next = Len(p.items) /\ p.pageState.snapshot \in Version
      /\ FoundBySearch(p.items, p.typed, p.filter, p.pageState.snapshot)
  BY <1>3 DEF Good, PageFits
<1>5. LiveOf(p, "search") = {} /\ LiveOf(p, "reverse") = {} /\ LiveOf(p, "page") = {c}
  BY <1>1, <1>2, <1>3 DEF Good, SearchFits, PageFits, Formed
<1>6. Live(p) = {c}
  BY <1>1, <1>5, CallsType DEF LiveOf
<1> QED BY <1>1, <1>2, <1>3, <1>4, <1>6 DEF Formed, Picker

\* No place of the next page is listed already, so none is left out: what was
\* listed and the page are the first of what the search finds.
LEMMA NextPageFits ==
    ASSUME NEW t \in Text, NEW f \in Filter, NEW v \in Version,
           NEW items \in Seq(Option), FoundBySearch(items, t, f, v),
           NEW end \in Len(items)..Len(Found(t, f, v))
    PROVE  LET sites == SubSeq(Found(t, f, v), Len(items) + 1, end)
               listed == {o.site : o \in Range(items)}
           IN /\ Unlisted(sites, listed) = sites
              /\ items \o OptionsOf(sites, t, f, v)
                   = OptionsOf(SubSeq(Found(t, f, v), 1, end), t, f, v)
<1> DEFINE found == Found(t, f, v)
           n == Len(items)
           sites == SubSeq(found, n + 1, end)
           before == SubSeq(found, 1, n)
           listed == {o.site : o \in Range(items)}
<1>1. /\ found \in Seq(Site) /\ Len(found) \in Nat /\ n \in Nat
      /\ end \in n..Len(found)
      /\ \A i, j \in 1..Len(found) : found[i] = found[j] => i = j
      /\ \A i \in 1..Len(found) : found[i] \in Site
  BY FoundFacts, ElementOfSeq
<1>2. items = OptionsOf(before, t, f, v) /\ n <= Len(found)
  BY DEF FoundBySearch
<1> HIDE DEF found, n
<1>3. /\ sites \in Seq(Site) /\ Len(sites) = end - n
      /\ \A i \in 1..(end - n) : sites[i] = found[n + i]
  BY <1>1, SubSeqProperties
<1>4. /\ before \in Seq(Site) /\ Len(before) = n
      /\ \A i \in 1..n : before[i] = found[i]
  BY <1>1, <1>2, SubSeqProperties
<1> DEFINE whole == SubSeq(found, 1, end)
<1>5. /\ whole \in Seq(Site) /\ Len(whole) = end
      /\ \A i \in 1..end : whole[i] = found[i]
  BY <1>1, SubSeqProperties
<1> HIDE DEF sites, before, whole
<1>6. \A s \in listed : \E i \in 1..n : s = found[i]
  <2> SUFFICES ASSUME NEW o \in Range(items)
               PROVE  \E i \in 1..n : o.site = found[i]
    OBVIOUS
  <2>1. PICK i \in DOMAIN items : o = items[i]
    BY DEF Range
  <2>2. i \in 1..n /\ o.site = before[i]
    BY <1>2, <1>4, <2>1 DEF OptionsOf
  <2> QED BY <1>4, <2>2
<1>7. Range(sites) \cap listed = {}
  <2> SUFFICES ASSUME NEW s \in Range(sites), s \in listed
               PROVE  FALSE
    OBVIOUS
  <2>1. PICK i \in 1..(end - n) : s = found[n + i]
    BY <1>3 DEF Range
  <2>2. PICK j \in 1..n : s = found[j]
    BY <1>6
  <2>3. n + i \in 1..Len(found) /\ j \in 1..Len(found) /\ n + i # j
    BY <1>1
  <2> QED BY <1>1, <2>1, <2>2, <2>3
<1>8. Unlisted(sites, listed) = sites
  BY <1>7 DEF Unlisted
<1>9. items \o OptionsOf(sites, t, f, v) = OptionsOf(whole, t, f, v)
  <2> DEFINE a == OptionsOf(before, t, f, v)
             b == OptionsOf(sites, t, f, v)
             all == OptionsOf(whole, t, f, v)
  <2>1. v \in Version \cup {0}
    OBVIOUS
  <2>2. /\ a \in Seq(Option) /\ Len(a) = n
        /\ \A i \in 1..n : a[i] = [site |-> found[i], text |-> t, filter |-> f, version |-> v]
    BY <1>4, <2>1, OptionsOfType
  <2>3. /\ b \in Seq(Option) /\ Len(b) = end - n
        /\ \A i \in 1..(end - n) :
             b[i] = [site |-> found[n + i], text |-> t, filter |-> f, version |-> v]
    <3>1. \A i \in 1..(end - n) : b[i] = [site |-> sites[i], text |-> t, filter |-> f, version |-> v]
      BY <1>3, <2>1, OptionsOfType
    <3> HIDE DEF b
    <3>2. b \in Seq(Option) /\ Len(b) = end - n
      BY <1>3, <2>1, OptionsOfType DEF b
    <3> QED BY <1>3, <3>1, <3>2
  <2>4. /\ all \in Seq(Option) /\ Len(all) = end
        /\ \A i \in 1..end :
             all[i] = [site |-> found[i], text |-> t, filter |-> f, version |-> v]
    <3>1. \A i \in 1..end : all[i] = [site |-> whole[i], text |-> t, filter |-> f, version |-> v]
      BY <1>5, <2>1, OptionsOfType
    <3> HIDE DEF all
    <3>2. all \in Seq(Option) /\ Len(all) = end
      BY <1>5, <2>1, OptionsOfType DEF all
    <3> QED BY <1>5, <3>1, <3>2
  <2> HIDE DEF a, b, all
  <2>5. /\ a \o b \in Seq(Option) /\ Len(a \o b) = end
        /\ \A i \in 1..end : (a \o b)[i] = IF i <= n THEN a[i] ELSE b[i - n]
    <3>1. n \in Nat /\ end \in Nat /\ n + (end - n) = end
      BY <1>1
    <3>2. /\ a \o b \in Seq(Option) /\ Len(a \o b) = Len(a) + Len(b)
          /\ \A i \in 1 .. Len(a) + Len(b) :
               (a \o b)[i] = IF i <= Len(a) THEN a[i] ELSE b[i - Len(a)]
      <4>1. a \in Seq(Option) /\ b \in Seq(Option)
        BY <2>2, <2>3
      <4> QED BY ONLY <4>1, ConcatProperties
    <3> QED BY <2>2, <2>3, <3>1, <3>2
  <2>6. \A i \in 1..end : (a \o b)[i] = all[i]
    <3> SUFFICES ASSUME NEW i \in 1..end
                 PROVE  (a \o b)[i] = all[i]
      OBVIOUS
    <3>1. CASE i <= n
      <4>1. i \in 1..n
        BY <1>1, <3>1
      <4> QED BY <2>2, <2>4, <2>5, <3>1, <4>1
    <3>2. CASE ~(i <= n)
      <4>1. i - n \in 1..(end - n) /\ n + (i - n) = i
        BY <1>1, <3>2
      <4> QED BY <2>3, <2>4, <2>5, <3>2, <4>1
    <3> QED BY <3>1, <3>2
  <2>7. a \o b = all
    BY <2>4, <2>5, <2>6, SeqEqual
  <2> QED BY <1>2, <2>7 DEF a, b, all
<1> QED BY <1>8, <1>9 DEF sites, whole, found, n

LEMMA PageAnsweredGood ==
    ASSUME IInv, NEW c \in picker.calls, PageAnswered(c)
    PROVE  IInv'
<1> DEFINE w == Without(c)
           free == [w EXCEPT !.paginationLoading = FALSE]
<1>1. version \in Version /\ Good(picker) /\ picker \in Picker /\ version' = version
  BY DEF IInv, Good, Searchable, Formed, PageAnswered, Becomes
<1>2. c \in LiveOf(picker, "page")
  BY DEF PageAnswered, LiveOf, Live
<1>3. /\ picker.kind = "institution" /\ picker.debounced = FALSE
      /\ Live(picker) = {c} /\ c.text = picker.typed /\ c.filter = picker.filter
      /\ c.offset = picker.pageState.next /\ c.snapshot = picker.pageState.snapshot
      /\ c.offset # 0 /\ c.offset = Len(picker.items) /\ c.snapshot \in Version
      /\ FoundBySearch(picker.items, c.text, c.filter, c.snapshot)
  BY <1>1, <1>2, PageAlone
<1>4. /\ w \in Picker
      /\ SameInput(picker, w) /\ SameList(picker, w) /\ SameKeys(picker, w)
      /\ SamePages(picker, w) /\ w.debounced = FALSE /\ Live(w) = {}
  BY <1>3, WithoutFacts
<1>5. PICK v \in c.since .. version :
        LET page == PageOf(Found(c.text, c.filter, v), c.offset)
            more == Unlisted(page.sites, {o.site : o \in Range(picker.items)})
        IN IF v # c.snapshot THEN picker' = BeginSearch(free, FALSE)
           ELSE picker' = [free EXCEPT !.pageState.next = page.next, !.open = TRUE,
                                       !.items = @ \o OptionsOf(more, c.text, c.filter, v)]
  BY DEF PageAnswered, Becomes
<1> HIDE DEF w
<1>6. /\ free \in Picker /\ free.pageState = w.pageState /\ free.paginationLoading = FALSE
      /\ SameInput(w, free) /\ SameList(w, free) /\ SameKeys(w, free)
      /\ free.debounced = w.debounced /\ free.calls = w.calls
  BY <1>4 DEF Picker, SameInput, SameList, SameKeys
<1> HIDE DEF free
<1>7. /\ SameInput(picker, free) /\ SameList(picker, free) /\ SameKeys(picker, free)
      /\ free.pageState = picker.pageState /\ free.debounced = FALSE /\ Live(free) = {}
  BY <1>4, <1>6 DEF SameInput, SameList, SameKeys, SamePages, Live
<1>8. \A k : LiveOf(free, k) = {}
  BY <1>7 DEF LiveOf
<1>9. Formed(free)
  BY <1>1, <1>3, <1>6, <1>7, <1>8
     DEF Good, Searchable, Formed, SameInput, SameList
<1>10. Searchable(free)
  BY <1>1, <1>7, <1>8, <1>9
     DEF Good, Searchable, OptionsFit, Named, ReverseFits, SameInput, SameList
<1>11. CASE v # c.snapshot
  BY <1>1, <1>5, <1>10, <1>11, BeginSearchGood DEF IInv, Version
<1>12. CASE v = c.snapshot
  <2> DEFINE found == Found(c.text, c.filter, v)
             page == PageOf(found, c.offset)
             listed == {o.site : o \in Range(picker.items)}
             added == OptionsOf(Unlisted(page.sites, listed), c.text, c.filter, v)
             items == picker.items \o added
             q == [free EXCEPT !.pageState.next = page.next, !.open = TRUE, !.items = items]
  <2>1. /\ v \in Version /\ c.text \in Text /\ c.filter \in Filter
        /\ picker.items \in Seq(Option)
    BY <1>1, <1>3, <1>12 DEF Picker
  <2>2. found \in Seq(Site) /\ Len(found) \in Nat /\ c.offset \in 0..Len(found)
    BY <1>3, <1>12, <2>1, FoundFacts DEF FoundBySearch
  <2>3. PICK end \in c.offset..Len(found) :
          /\ page.sites = SubSeq(found, c.offset + 1, end)
          /\ page.next \in {0, end} /\ page.next \in Nat
    <3> HIDE DEF found
    <3> QED BY <2>2, PageOfFacts
  <2>4. end \in Len(picker.items)..Len(found) /\ end \in 0..Len(found) /\ end # 0
    BY <1>3, <2>2
  <2>5. items = OptionsOf(SubSeq(found, 1, end), c.text, c.filter, v)
    <3> DEFINE sites == SubSeq(found, Len(picker.items) + 1, end)
    <3>1. page.sites = sites
      BY <1>3, <2>3
    <3>2. /\ Unlisted(sites, listed) = sites
          /\ picker.items \o OptionsOf(sites, c.text, c.filter, v)
               = OptionsOf(SubSeq(found, 1, end), c.text, c.filter, v)
      BY <1>3, <1>12, <2>1, <2>4, NextPageFits
    <3> HIDE DEF sites, page, listed
    <3> QED BY <3>1, <3>2
  <2>6. picker' = q
    BY <1>5, <1>7, <1>12 DEF SameList
  <2>7. FoundBySearch(items, c.text, c.filter, v) /\ items \in Seq(Option) /\ Len(items) = end
    <3> HIDE DEF items
    <3>1. LET options == OptionsOf(SubSeq(found, 1, end), c.text, c.filter, v)
          IN /\ options \in Seq(Option) /\ Len(options) = end
             /\ FoundBySearch(options, c.text, c.filter, v)
      BY <2>1, <2>4, FirstOptions
    <3> QED BY <2>5, <3>1
  <2> HIDE DEF items, page
  <2>8. /\ q \in Picker /\ q.items = items /\ q.activeIndex = free.activeIndex
        /\ q.pageState.next = page.next /\ q.pageState.snapshot = free.pageState.snapshot
        /\ q.paginationLoading = free.paginationLoading
        /\ SameInput(free, q) /\ SameKeys(free, q)
        /\ q.debounced = free.debounced /\ q.calls = free.calls
    BY <1>6, <2>3, <2>7 DEF Picker, SameInput, SameKeys
  <2> HIDE DEF q
  <2>9. Live(q) = {} /\ \A k : LiveOf(q, k) = {}
    BY <1>7, <2>8 DEF Live, LiveOf
  <2>10. /\ q.kind = "institution" /\ q.typed = c.text /\ q.filter = c.filter
         /\ q.debounced = FALSE /\ q.paginationLoading = FALSE
         /\ q.selectedItem = picker.selectedItem
    BY <1>3, <1>6, <1>7, <2>8 DEF SameInput
  <2>11. q.activeIndex <= Len(q.items)
    <3>1. picker.activeIndex <= Len(picker.items) /\ picker.activeIndex \in Nat
      BY <1>1 DEF Good, Searchable, Formed, Picker
    <3> QED BY <1>3, <1>7, <2>2, <2>4, <2>7, <2>8, <3>1 DEF SameList
  <2>12. Formed(q)
    BY <2>8, <2>9, <2>10, <2>11 DEF Formed
  <2>13. OptionsFit(q, q.items)
    BY <2>1, <2>7, <2>8, <2>10 DEF OptionsFit
  <2>14. Named(q)
    BY <1>1, <1>3, <2>10 DEF Good, Searchable, Named
  <2>15. ReverseFits(q) /\ SearchFits(q)
    BY <2>9, <2>10 DEF ReverseFits, SearchFits
  <2>16. PageFits(q)
    <3>1. q.pageState.snapshot = v
      BY <1>3, <1>7, <1>12, <2>8
    <3>2. q.pageState.next # 0 => q.items # <<>> /\ q.pageState.next = Len(q.items)
      BY <2>3, <2>4, <2>7, <2>8
    <3> QED BY <2>1, <2>7, <2>8, <2>9, <2>10, <3>1, <3>2 DEF PageFits
  <2>17. Waiting(q)
    <3>1. ~picker.waitForFreshOptions
      BY <1>1, <1>3, <1>2 DEF Good, Waiting, LiveOf
    <3> QED BY <1>7, <2>8, <3>1 DEF SameKeys, Waiting
  <2> QED BY <1>1, <2>6, <2>12, <2>13, <2>14, <2>15, <2>16, <2>17
          DEF IInv, Good, Searchable, Version
<1> QED BY <1>11, <1>12

LEMMA PageFailsGood ==
    ASSUME IInv, NEW c \in picker.calls, PageFails(c)
    PROVE  IInv'
<1> DEFINE w == Without(c)
           q == [w EXCEPT !.paginationLoading = FALSE]
<1>1. version \in Version /\ Good(picker) /\ picker \in Picker
  BY DEF IInv, Good, Searchable, Formed
<1>2. c \in LiveOf(picker, "page") /\ picker' = q /\ version' = version
  BY DEF PageFails, LiveOf, Live, Becomes
<1>3. /\ picker.kind = "institution" /\ picker.debounced = FALSE /\ Live(picker) = {c}
  BY <1>1, <1>2, PageAlone
<1>4. /\ w \in Picker
      /\ SameInput(picker, w) /\ SameList(picker, w) /\ SameKeys(picker, w)
      /\ SamePages(picker, w) /\ w.debounced = FALSE /\ Live(w) = {}
  BY <1>3, WithoutFacts
<1> HIDE DEF w
<1>5. /\ q \in Picker /\ q.pageState = w.pageState /\ q.paginationLoading = FALSE
      /\ SameInput(w, q) /\ SameList(w, q) /\ SameKeys(w, q)
      /\ q.debounced = w.debounced /\ q.calls = w.calls
  BY <1>4 DEF Picker, SameInput, SameList, SameKeys
<1> HIDE DEF q
<1>6. /\ SameInput(picker, q) /\ SameList(picker, q) /\ SameKeys(picker, q)
      /\ q.pageState = picker.pageState /\ q.debounced = FALSE /\ Live(q) = {}
  BY <1>4, <1>5 DEF SameInput, SameList, SameKeys, SamePages, Live
<1>7. \A k : LiveOf(q, k) = {}
  BY <1>6 DEF LiveOf
<1>8. Formed(q)
  BY <1>1, <1>3, <1>5, <1>6, <1>7 DEF Good, Searchable, Formed, SameInput, SameList
<1>9. Searchable(q)
  BY <1>1, <1>6, <1>7, <1>8
     DEF Good, Searchable, OptionsFit, Named, ReverseFits, SameInput, SameList
<1>10. SearchFits(q)
  BY <1>6, <1>7 DEF SearchFits
<1>11. PageFits(q)
  BY <1>1, <1>5, <1>6, <1>7 DEF Good, PageFits, SameInput, SameList
<1>12. Waiting(q)
  <2>1. ~picker.waitForFreshOptions
    BY <1>1, <1>2, <1>3 DEF Good, Waiting, LiveOf
  <2> QED BY <1>6, <2>1 DEF SameKeys, Waiting
<1> QED BY <1>1, <1>2, <1>9, <1>10, <1>11, <1>12 DEF IInv, Good, Version

\* A call that no longer counts, or that is answered with nothing, changes
\* nothing else.
LEMMA WithoutGood ==
    ASSUME IInv, NEW c \in picker.calls, Becomes(Without(c)), c \notin LiveOf(picker, "page"),
           c.current => picker.waitForFreshOptions = FALSE
    PROVE  IInv'
<1> DEFINE q == Without(c)
<1>1. version \in Version /\ Good(picker) /\ picker \in Picker
  BY DEF IInv, Good, Searchable, Formed
<1>2. picker' = q /\ version' = version
  BY DEF Becomes
<1>3. /\ q \in Picker
      /\ SameInput(picker, q) /\ SameList(picker, q) /\ SameKeys(picker, q)
      /\ SamePages(picker, q) /\ q.debounced = picker.debounced
      /\ Live(q) = Live(picker) \ {c}
  BY WithoutFacts
<1> HIDE DEF q
<1>4. LiveOf(q, "page") = LiveOf(picker, "page")
  BY <1>3 DEF LiveOf
<1>5. Waiting(q)
  <2>1. CASE c.current
    BY <1>3, <2>1 DEF Waiting, SameKeys
  <2>2. CASE ~c.current
    <3>1. Live(q) = Live(picker)
      BY <1>3, <2>2 DEF Live
    <3> QED BY <1>1, <1>3, <3>1 DEF Good, Waiting, SameKeys, LiveOf
  <2> QED BY <2>1, <2>2
<1>6. q.activeIndex <= Len(q.items) /\ q.items = picker.items
  BY <1>1, <1>3 DEF Good, Searchable, Formed, SameList
<1>7. Good(q)
  BY <1>1, <1>3, <1>4, <1>5, <1>6, GoodKept
<1> QED BY <1>1, <1>2, <1>7 DEF IInv, Version

LEMMA ReverseAnsweredGood ==
    ASSUME IInv, NEW c \in picker.calls, ReverseAnswered(c)
    PROVE  IInv'
<1> DEFINE w == Without(c)
<1>1. version \in Version /\ Good(picker) /\ picker \in Picker /\ Formed(picker)
      /\ version' = version
  BY DEF IInv, Good, Searchable, Formed, ReverseAnswered, Becomes
<1>2. c \in LiveOf(picker, "reverse")
  BY DEF ReverseAnswered, LiveOf, Live
<1>3. /\ picker.kind = "destination" /\ picker.debounced = FALSE
      /\ LiveOf(picker, "reverse") = {c} /\ LiveOf(picker, "search") = {}
      /\ LiveOf(picker, "page") = {}
      /\ picker.selectedItem = None /\ c.filter = picker.filter
  BY <1>1, <1>2 DEF Good, Searchable, SearchFits, ReverseFits, Formed, Picker
<1>4. Live(picker) = {c} /\ ~picker.waitForFreshOptions
  BY <1>1, <1>3, CallsType DEF LiveOf, Good, Waiting
<1>5. /\ w \in Picker /\ SameInput(picker, w) /\ SameList(picker, w) /\ SamePages(picker, w)
      /\ w.debounced = FALSE /\ Live(w) = {} /\ c \in Call
  BY <1>3, <1>4, WithoutFacts
<1>6. CASE Becomes(w)
  BY <1>1, <1>3, <1>4, <1>6, WithoutGood DEF Picker
<1> HIDE DEF w
<1>7. ASSUME NEW s \in Site
      PROVE  Good(ShowResults([w EXCEPT !.typed = s], OptionsOf(<<s>>, s, c.filter, 0)))
  <2> DEFINE q == [w EXCEPT !.typed = s]
             options == OptionsOf(<<s>>, s, c.filter, 0)
  <2>1. /\ q \in Picker /\ q.typed = s /\ q.kind = w.kind /\ q.filter = w.filter
        /\ q.selectedItem = w.selectedItem /\ SameList(w, q) /\ SamePages(w, q)
        /\ q.debounced = w.debounced /\ q.calls = w.calls
    BY <1>5 DEF Picker, SameList, SamePages, Text
  <2>2. options \in Seq(Option)
    <3>1. <<s>> \in Seq(Site) /\ s \in Text /\ c.filter \in Filter
      BY <1>5 DEF Text, Call
    <3> QED BY <3>1, OptionsOfType
  <2> HIDE DEF q, options
  <2>3. Live(q) = {} /\ \A k : LiveOf(q, k) = {}
    BY <1>5, <2>1 DEF Live, LiveOf
  <2>4. /\ q.kind = "destination" /\ q.filter = c.filter /\ q.selectedItem = None
        /\ q.debounced = FALSE /\ q.pageState = NoPage /\ q.paginationLoading = FALSE
    BY <1>1, <1>3, <1>5, <2>1 DEF SameInput, SamePages, Formed, Picker
  <2>5. q.activeIndex <= Len(q.items)
    BY <1>1, <1>5, <2>1 DEF SameList, Formed
  <2>6. Formed(q)
    BY <2>1, <2>3, <2>4, <2>5 DEF Formed
  <2>7. OptionsFit(q, options)
    BY <2>1, <2>4 DEF OptionsFit, options
  <2>8. Answered(q, options)
    BY <2>2, <2>3, <2>4, <2>6, <2>7 DEF Answered, Named, NoPage
  <2> QED BY <2>8, ShowResultsGood DEF q, options
<1>8. ASSUME NEW s \in Site,
             LET shown == ShowResults([w EXCEPT !.typed = s], OptionsOf(<<s>>, s, c.filter, 0))
             IN Becomes(shown) \/ Becomes(Focused(shown))
      PROVE  IInv'
  <2> DEFINE shown == ShowResults([w EXCEPT !.typed = s], OptionsOf(<<s>>, s, c.filter, 0))
  <2>1. Good(shown)
    BY <1>7
  <2>2. picker' = shown \/ picker' = Focused(shown)
    BY <1>8 DEF Becomes
  <2> HIDE DEF shown
  <2>3. Good(Focused(shown))
    BY <1>1, <2>1, BeginSearchGood DEF Focused, Good
  <2> QED BY <1>1, <2>1, <2>2, <2>3 DEF IInv, Version
<1> QED BY <1>6, <1>8 DEF ReverseAnswered, w

LEMMA NewSnapshotGood ==
    ASSUME IInv, NewSnapshot
    PROVE  IInv'
BY PickerAssumption DEF IInv, NewSnapshot, Version

-----------------------------------------------------------------------------
(* The invariant is inductive *)

LEMMA InitGood ==
    ASSUME Init
    PROVE  IInv
<1>1. version \in Version
  BY PickerAssumption DEF Init, Version
<1>2. /\ picker \in Picker /\ picker.calls = {} /\ picker.debounced = FALSE
      /\ picker.items = <<>> /\ picker.activeIndex = 0
      /\ picker.waitForFreshOptions = FALSE
      /\ picker.pageState = NoPage /\ picker.paginationLoading = FALSE
      /\ picker.selectedItem = None
  BY EmptySeq DEF Init, Picker, NoPage, Text
<1>3. Quiet(picker)
  BY <1>2 DEF Quiet, Named, Live
<1> QED BY <1>1, <1>3, QuietIsGood DEF IInv

LEMMA Inductive ==
    IInv /\ [Next]_vars => IInv'
<1> SUFFICES ASSUME IInv, [Next]_vars
             PROVE  IInv'
  OBVIOUS
<1>1. ASSUME NEW t \in Text, HandleInput(t)
      PROVE  IInv'
  BY <1>1, HandleInputGood
<1>2. ASSUME NEW t \in Text, SetQueryAndSearch(t)
      PROVE  IInv'
  BY <1>2, SetQueryAndSearchGood
<1>3. CASE DebounceEnds
  BY <1>3, DebounceEndsGood
<1>4. CASE HandleFocus
  <2>1. Becomes(BeginSearch(picker, FALSE))
    BY <1>4 DEF HandleFocus, Focused
  <2> QED BY <2>1, SearchAgainGood
<1>5. ASSUME NEW move \in {-1, 1}, PressArrow(move)
      PROVE  IInv'
  BY <1>5, PressArrowGood
<1>6. CASE PressEnter
  BY <1>6, PressEnterGood
<1>7. CASE PressEscape
  BY <1>7, PressEscapeGood
<1>8. CASE Retry
  BY <1>8, SearchAgainGood DEF Retry
<1>9. ASSUME NEW i \in DOMAIN picker.items, ClickOption(i)
      PROVE  IInv'
  <2>1. i \in 1..Len(picker.items)
    BY <1>9 DEF IInv, Good, Searchable, Formed, Picker
  <2> QED BY <1>9, <2>1, ListedSite, ChooseGood DEF ClickOption
<1>10. ASSUME NEW f \in Filter, HandleFilterChange(f)
       PROVE  IInv'
  BY <1>10, HandleFilterChangeGood
<1>11. CASE LoadMore
  BY <1>11, LoadMoreGood
<1>12. CASE ClickMap
  BY <1>12, ClickMapGood
<1>13. CASE ClearPicker
  BY <1>13, ClearPickerGood
<1>14. CASE NewSnapshot
  BY <1>14, NewSnapshotGood
<1>15. ASSUME NEW s \in Site, SelectResolved(s)
       PROVE  IInv'
  BY <1>15, SelectResolvedGood
<1>16. ASSUME NEW c \in picker.calls, SearchAnswered(c)
       PROVE  IInv'
  BY <1>16, SearchAnsweredGood
<1>17. ASSUME NEW c \in picker.calls, SearchFails(c)
       PROVE  IInv'
  BY <1>17, SearchFailsGood
<1>18. ASSUME NEW c \in picker.calls, PageAnswered(c)
       PROVE  IInv'
  BY <1>18, PageAnsweredGood
<1>19. ASSUME NEW c \in picker.calls, PageFails(c)
       PROVE  IInv'
  BY <1>19, PageFailsGood
<1>20. ASSUME NEW c \in picker.calls, ReverseAnswered(c)
       PROVE  IInv'
  BY <1>20, ReverseAnsweredGood
<1>21. ASSUME NEW c \in picker.calls, Ignored(c)
       PROVE  IInv'
  BY <1>21, WithoutGood DEF Ignored, LiveOf, Live
<1>22. CASE UNCHANGED vars
  <2>1. picker' = picker /\ version' = version
    BY <1>22 DEF vars
  <2> QED BY <2>1 DEF IInv, Version
<1> QED BY <1>1, <1>2, <1>3, <1>4, <1>5, <1>6, <1>7, <1>8, <1>9, <1>10, <1>11, <1>12,
           <1>13, <1>14, <1>15, <1>16, <1>17, <1>18, <1>19, <1>20, <1>21, <1>22 DEF Next

LEMMA PickerInvariant == Spec => []IInv
<1>1. Init => IInv
  BY InitGood
<1> QED BY <1>1, Inductive, PTL DEF Spec

-----------------------------------------------------------------------------
(* Theorems *)

\* The picker keeps its form, whatever is typed, pressed, clicked, answered or
\* not answered; in particular the highlighted option is always on the list.
THEOREM PickersTypeCorrect == Spec => []TypeOK
<1>1. IInv => TypeOK
  BY DEF IInv, Good, Searchable, Formed, TypeOK
<1> QED BY <1>1, PickerInvariant, PTL

\* Options that a search found say for what, and in which snapshot.
LEMMA FoundOptionsTell ==
    ASSUME NEW options \in Seq(Option), NEW t, NEW f, NEW v,
           FoundBySearch(options, t, f, v), NEW o \in Range(options)
    PROVE  o.text = t /\ o.version = v
<1>1. PICK i \in DOMAIN options : o = options[i]
  BY DEF Range
<1> DEFINE sites == SubSeq(Found(t, f, v), 1, Len(options))
<1>2. options = [j \in DOMAIN sites |->
                   [site |-> sites[j], text |-> t, filter |-> f, version |-> v]]
  BY DEF FoundBySearch, OptionsOf
<1> HIDE DEF sites
<1> QED BY <1>1, <1>2

\* The list answers the form: what is offered was found for the text and the
\* filter that are set now, in one snapshot, and is the first of what was found,
\* without a gap or a double between pages, in whatever order the searches,
\* pages and look-ups were answered.
THEOREM ListsAnswerTheForm == Spec => []OptionsAnswerTheForm
<1>1. IInv => OptionsAnswerTheForm
  <2> SUFFICES ASSUME IInv, NEW o \in Range(picker.items)
               PROVE  /\ o.text = picker.typed
                      /\ o.version # 0 =>
                           FoundBySearch(picker.items, o.text, picker.filter, o.version)
                      /\ picker.pageState.next # 0 =>
                           /\ picker.pageState.next = Len(picker.items)
                           /\ picker.pageState.snapshot = o.version
    BY DEF OptionsAnswerTheForm, FoundBySearch
  <2>1. Good(picker) /\ Formed(picker) /\ picker.items \in Seq(Option)
    BY DEF IInv, Good, Searchable, Formed, Picker
  <2>2. picker.items # <<>>
    BY DEF Range
  <2>3. picker.pageState.next # 0 =>
          /\ picker.pageState.next = Len(picker.items)
          /\ picker.pageState.snapshot = o.version
    BY <2>1, FoundOptionsTell DEF Good, PageFits
  <2>4. CASE \E v \in Version : FoundBySearch(picker.items, picker.typed, picker.filter, v)
    BY <2>1, <2>3, <2>4, FoundOptionsTell
  <2>5. CASE picker.items = OptionsOf(<<picker.typed>>, picker.typed, picker.filter, 0)
    <3>1. PICK i \in DOMAIN picker.items : o = picker.items[i]
      BY DEF Range
    <3>2. o.text = picker.typed /\ o.version = 0
      BY <2>5, <3>1 DEF OptionsOf
    <3> QED BY <2>3, <3>2
  <2> QED BY <2>1, <2>2, <2>4, <2>5 DEF Good, Searchable, OptionsFit
<1> QED BY <1>1, PickerInvariant, PTL

\* The form never calculates with a place whose name the input does not show.
THEOREM SelectionsAreNamed == Spec => []SelectionIsNamed
<1>1. IInv => SelectionIsNamed
  BY DEF IInv, Good, Searchable, Named, SelectionIsNamed
<1> QED BY <1>1, PickerInvariant, PTL

\* Neither the button for more nor the arrow keys wait for a call that can no
\* longer be answered to them.
THEOREM NothingIsLeftWaiting == Spec => []NothingWaitsForEver
<1>1. IInv => NothingWaitsForEver
  BY DEF IInv, Good, PageFits, Waiting, LiveOf, Live, NothingWaitsForEver, IsAsking
<1> QED BY <1>1, PickerInvariant, PTL
=============================================================================

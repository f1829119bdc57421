----------------------------- MODULE TtlLruCache -----------------------------
(***************************************************************************)
(* The process-wide cache of provider results: a sequence of entries, the  *)
(* least recently used one first.                                          *)
(***************************************************************************)
EXTENDS Integers, Sequences, SequencesExt

CONSTANTS MaxEntries, Missing

ASSUME MaxEntriesAssumption == MaxEntries \in Nat \ {0}

EntryAt(entries, key) == {i \in DOMAIN entries : entries[i].key = key}

Without(entries, key) ==
    IF EntryAt(entries, key) = {} THEN entries
    ELSE RemoveAt(entries, CHOOSE i \in EntryAt(entries, key) : TRUE)

\* What get() answers: an entry is dead from the instant it expires.
CacheGet(entries, key, now) ==
    IF \E i \in EntryAt(entries, key) : now < entries[i].expires
      THEN entries[CHOOSE i \in EntryAt(entries, key) : TRUE].value
      ELSE Missing

\* What get() does: a dead entry is removed, a live one was used last.
CacheAfterGet(entries, key, now) ==
    IF CacheGet(entries, key, now) = Missing THEN Without(entries, key)
    ELSE Append(Without(entries, key), entries[CHOOSE i \in EntryAt(entries, key) : TRUE])

Trimmed(entries) ==
    IF Len(entries) <= MaxEntries THEN entries
    ELSE SubSeq(entries, Len(entries) - MaxEntries + 1, Len(entries))

CacheAfterSet(entries, key, value, now, ttl) ==
    Trimmed(Append(Without(entries, key),
                   [key |-> key, value |-> value, expires |-> now + ttl]))

=============================================================================

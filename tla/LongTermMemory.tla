--------------------------- MODULE LongTermMemory ---------------------------
(***************************************************************************)
(* Tiers 2 and 3 of memory/: the vector store with its cache of objects,   *)
(* the archival pipeline, and the validator of what was retrieved.         *)
(*                                                                         *)
(* The store keeps a row of every entity in a collection and, in a cache,  *)
(* the very object its caller passed: promote and deprecate change that    *)
(* object first and then store it, which may fail.  An entity is           *)
(* known by its id, and callers hold Python objects with that id.  No      *)
(* method waits between its steps; a search and the validation of what it  *)
(* found are two calls.                                                    *)
(*                                                                         *)
(* External: the collection and its cosine distance; a similarity is one   *)
(* of the numbers below.  Embeddings are text in, numbers out, and only    *)
(* whether there is one matters.  Bounds: MaxDay, FETCH_MIN for 100.       *)
(***************************************************************************)
EXTENDS Integers, FiniteSets

CONSTANTS
    Entities,
    Objects,        \* Python objects of class MemoryEntity
    MAX_STALENESS_DAYS,
    FETCH_MIN,      \* the least number of neighbours a search asks for
    FETCH_FACTOR,   \* 10
    MaxDay

ASSUME LongTermAssumption ==
    /\ {MAX_STALENESS_DAYS, MaxDay} \subseteq Nat
    /\ {FETCH_MIN, FETCH_FACTOR} \subseteq Nat \ {0}

\* Similarities below, at and above the floor of INV-08.
Similarities == {0, 1, 2}
MIN_SIMILARITY == 1

None == "NONE"

VARIABLES
    day,
    row,            \* the collection: what is stored of an entity
    object,         \* what callers and the cache hold
    cache,          \* _entities_cache: the object of an entity
    retrieved,      \* the results of a search, not yet validated
    withdrawn,      \* history variable: entities that were deprecated or
                    \* archived, until something else is stored as them
    missed          \* history variable: those among them that were archived
                    \* unmarked, because the store did not find them

longTermVars ==
    <<day, row, object, cache, retrieved, withdrawn, missed>>

\* usable: it has an embedding and a provenance.
NoObject ==
    [id |-> None, created |-> 0, deprecated |-> FALSE, usable |-> FALSE]

NoRow == [created |-> 0, deprecated |-> FALSE, stored |-> FALSE]

LongTermInit ==
    /\ day = 0
    /\ row = [e \in Entities |-> NoRow]
    /\ object = [o \in Objects |-> NoObject]
    /\ cache = [e \in Entities |-> None]
    /\ retrieved = {}
    /\ withdrawn = {}
    /\ missed = {}

NextDay ==
    /\ day < MaxDay
    /\ day' = day + 1
    /\ UNCHANGED <<row, object, cache, retrieved, withdrawn, missed>>

\* The rows outlive the process only in a directory and under a name of their
\* own: by default every VectorStore makes up a new collection.
RestartStore ==
    /\ \E named \in BOOLEAN :
          /\ row' = IF named THEN row ELSE [e \in Entities |-> NoRow]
          /\ missed' = IF named THEN missed ELSE {}
    /\ object' = [o \in Objects |-> NoObject]
    /\ cache' = [e \in Entities |-> None]
    /\ retrieved' = {}
    /\ UNCHANGED <<day, withdrawn>>

-----------------------------------------------------------------------------
(************************** The vector store *******************************)

\* A caller makes an entity of its own, possibly with an id that is in use.
MakeEntity(o) ==
    /\ object[o] = NoObject
    /\ \E e \in Entities, usable \in BOOLEAN :
          object' = [object EXCEPT ![o] =
              [id |-> e, created |-> day, deprecated |-> FALSE, usable |-> usable]]
    /\ UNCHANGED <<day, row, cache, retrieved, withdrawn, missed>>

RowOf(obj) ==
    [created |-> obj.created, deprecated |-> obj.deprecated, stored |-> TRUE]

\* store, of an object as it is after the caller's changes.  What is not usable
\* is refused, and the upsert itself may raise.
Upserts(o, obj) ==
    /\ obj.usable
    /\ row' = [row EXCEPT ![obj.id] = RowOf(obj)]
    /\ cache' = [cache EXCEPT ![obj.id] = o]

UpsertFails == UNCHANGED <<row, cache>>

Store(o) ==
    /\ object[o] # NoObject
    /\ \/ /\ Upserts(o, object[o])
          /\ withdrawn' = IF object[o].deprecated THEN withdrawn
                          ELSE withdrawn \ {object[o].id}
          /\ missed' = missed \ {object[o].id}
       \/ UpsertFails /\ UNCHANGED <<withdrawn, missed>>
    /\ UNCHANGED <<day, object, retrieved>>

\* get: the cached object, else a new one made from the row and cached.  The
\* calls below begin with it: where it succeeds they find the entity cached.
Get(e) ==
    /\ \E o \in Objects :
          /\ cache[e] = None /\ row[e].stored /\ object[o] = NoObject
          /\ object' = [object EXCEPT ![o] =
                 [id |-> e, created |-> row[e].created,
                  deprecated |-> row[e].deprecated, usable |-> TRUE]]
          /\ cache' = [cache EXCEPT ![e] = o]
    /\ UNCHANGED <<day, row, retrieved, withdrawn, missed>>

\* get answers that there is no such entity: there is no row, or reading it has
\* raised something, whatever it was, and that is not told apart.  promote and
\* deprecate then raise KeyError.
Unknown(e) == cache[e] = None

\* promote: trust is recorded whatever the entity is, by storing it again.
Promote(e) ==
    /\ cache[e] # None
    /\ \/ Upserts(cache[e], object[cache[e]])
       \/ UpsertFails
    /\ UNCHANGED <<day, object, retrieved, withdrawn, missed>>

\* The object is marked, and the row as far as the upsert succeeds.
MarksDeprecated(e, succeeds) ==
    LET obj == [object[cache[e]] EXCEPT !.deprecated = TRUE]
    IN  /\ cache[e] # None
        /\ object' = [object EXCEPT ![cache[e]] = obj]
        /\ IF succeeds THEN Upserts(cache[e], obj) ELSE UpsertFails

\* deprecate
Deprecate(e) ==
    /\ \E succeeds \in BOOLEAN :
          /\ MarksDeprecated(e, succeeds)
          /\ withdrawn' = IF succeeds THEN withdrawn \cup {e} ELSE withdrawn
          /\ missed' = IF succeeds THEN missed \ {e} ELSE missed
    /\ UNCHANGED <<day, retrieved>>

\* What deprecate says it does not know is archived as it is, and found again if
\* it was there.
ArchivesUnknown(e) ==
    /\ Unknown(e)
    /\ missed' = IF row[e].stored THEN missed \cup {e} ELSE missed
    /\ UNCHANGED <<row, object, cache>>

\* An archive that takes any failure for an entity that is gone.
ArchiveAnyway(o) ==
    LET e == object[o].id
    IN  /\ object[o] # NoObject
        /\ \/ /\ \E succeeds \in BOOLEAN : MarksDeprecated(e, succeeds)
              /\ missed' = missed \ {e}
           \/ ArchivesUnknown(e)
        /\ withdrawn' = withdrawn \cup {e}
        /\ UNCHANGED <<day, retrieved>>

\* archive, with an address to archive to: deprecate, then record.  A KeyError
\* is no obstacle, any other failure is.
Archive(o) ==
    LET e == object[o].id
    IN  /\ object[o] # NoObject
        /\ \/ /\ \/ MarksDeprecated(e, TRUE) /\ missed' = missed \ {e}
                 \/ ArchivesUnknown(e)
              /\ withdrawn' = withdrawn \cup {e}
           \/ MarksDeprecated(e, FALSE) /\ UNCHANGED <<withdrawn, missed>>
        /\ UNCHANGED <<day, retrieved>>

\* delete: when the collection raises, nothing happens, and nobody is told.
Delete(e) ==
    /\ row' = [row EXCEPT ![e] = NoRow]
    /\ cache' = [cache EXCEPT ![e] = None]
    /\ missed' = missed \ {e}
    /\ UNCHANGED <<day, object, retrieved, withdrawn>>

\* clear
ClearStore ==
    /\ row' = [e \in Entities |-> NoRow]
    /\ cache' = [e \in Entities |-> None]
    /\ missed' = {}
    /\ UNCHANGED <<day, object, retrieved, withdrawn>>

-----------------------------------------------------------------------------
(****************************** Retrieval **********************************)

Larger(a, b) == IF a >= b THEN a ELSE b

Stale(created) == created < day - MAX_STALENESS_DAYS

\* The n entities of S that are nearest, for some choice among equals.
Nearest(S, similarity, n) ==
    {T \in SUBSET S :
        /\ Cardinality(T) = (IF Cardinality(S) < n THEN Cardinality(S) ELSE n)
        /\ \A t \in T, s \in S \ T : similarity[t] >= similarity[s]}

\* A search that believes the caller's threshold and forgets deprecation.
KeptUnfiltered(T, similarity, min) ==
    {e \in T : ~ Stale(row[e].created) /\ similarity[e] >= min}

\* What search keeps of its neighbours.
Kept(T, similarity, min) ==
    {e \in T : /\ ~ row[e].deprecated
               /\ ~ Stale(row[e].created)
               /\ similarity[e] >= Larger(min, MIN_SIMILARITY)}

\* SearchResult: a copy of the row, as it is today.
Result(e, similarity) ==
    [id |-> e, similarity |-> similarity[e], created |-> row[e].created,
     deprecated |-> row[e].deprecated, on |-> day]

\* search: the neighbours, what is left of them, and of that the limit best.
\* Its caller has them validated before it searches again.
Search ==
    /\ retrieved = {}
    /\ \E similarity \in [Entities -> Similarities], min \in {0, 2}, limit \in 1 .. 2 :
       \E T \in Nearest({e \in Entities : row[e].stored}, similarity,
                        Larger(limit * FETCH_FACTOR, FETCH_MIN)) :
       \E found \in Nearest(Kept(T, similarity, min), similarity, limit) :
          retrieved' = {Result(e, similarity) : e \in found}
    /\ UNCHANGED <<day, row, object, cache, withdrawn, missed>>

\* _check of the validator.  A row always has a provenance.
IsValid(result) ==
    /\ result.similarity >= MIN_SIMILARITY
    /\ ~ result.deprecated
    /\ ~ Stale(result.created)

\* validate: the agent gets the valid ones, and the others marked as such.
Validate ==
    /\ retrieved # {}
    /\ retrieved' = {}
    /\ UNCHANGED <<day, row, object, cache, withdrawn, missed>>

LongTermNext ==
    \/ NextDay \/ RestartStore \/ ClearStore \/ Search \/ Validate
    \/ \E o \in Objects : MakeEntity(o) \/ Store(o) \/ Archive(o)
    \/ \E e \in Entities : Get(e) \/ Promote(e) \/ Deprecate(e) \/ Delete(e)

LongTermSpec == LongTermInit /\ [][LongTermNext]_longTermVars

-----------------------------------------------------------------------------

\* What was deprecated or archived is never found again -- not after a
\* promotion, a restart or a failed upsert -- until a caller stores something
\* else under its id.  The exception is what was archived without being marked,
\* because get did not find a row that was there.
EntitiesStayOut ==
    [][retrieved = {} =>
           \A r \in retrieved' : r.id \in withdrawn => r.id \in missed]_longTermVars

\* The search and the validator behind it judge alike: on the day of the search
\* the validator rejects nothing that was found, and later only for its age.
ValidatorAgrees ==
    \A r \in retrieved :
        ~ IsValid(r) => r.on < day /\ Stale(r.created) /\ ~ r.deprecated
=============================================================================

------------------------------- MODULE Repository -------------------------------
(***************************************************************************)
(* BaseRepository: a table read page by page and written by find and       *)
(* flush.  A list is walked as its clients do: the next page is asked for  *)
(* while the answer names one.  fetch is two queries, a find and a count,  *)
(* with other requests in between.  The module has the selection of        *)
(* columns too, as sets of paths.                                          *)
(***************************************************************************)
EXTENDS Integers, Sequences, FiniteSets, Functions, FiniteSetsExt, SequencesExt

CONSTANTS
  Ids,        \* the rows a table may have
  Keys,       \* bound: values of the column that a list is sorted by
  Sizes,      \* bound: page sizes
  Failures,   \* bound: the errors a query may fail with
  MaxWrites,  \* bound: rows written
  None        \* no such row

\* what a run assumes of the constants
RepositoryAssumption ==
  /\ IsFiniteSet(Ids) /\ Ids # {}
  /\ None \notin Keys /\ Keys \subseteq Nat /\ Sizes \subseteq Nat /\ MaxWrites \in Nat

VARIABLES
  table,   \* table[id]: the sort key of the row, or None
  reader,  \* a client that walks through a list
  writer,  \* a request that writes one row
  writes   \* rows written

vars == <<table, reader, writer, writes>>

-----------------------------------------------------------------------------
(* Pages *)

\* PaginationOptions
Offset(page, size) == (page - 1) * size

\* mutant: floor instead of ceil
FullPages(count, size) == count \div size
TotalPages(count, size) == (count + size - 1) \div size

\* offset ? Math.floor(offset / limit) + 1 : 1
PageAt(offset, size) == IF offset = 0 THEN 1 ELSE offset \div size + 1

Info(count, offset, limit) ==
  LET size == IF limit = 0 THEN 10 ELSE limit
  IN [totalItems |-> count, currentPage |-> PageAt(offset, size), perPage |-> size,
      totalPages |-> TotalPages(count, size)]

NoInfo == [totalItems |-> 0, currentPage |-> 0, perPage |-> 0, totalPages |-> 0]

\* what the services answer of it: nextPage is 0 on the last page
NextPage(info, page) == IF page < info.totalPages THEN page + 1 ELSE 0

Stored(t) == {id \in Ids : t[id] # None}

\* the rows by key, newest first; the database orders equal keys as it likes, anew each time
Sortings(t) ==
  {s \in SetToSeqs(Stored(t)) : \A i, j \in DOMAIN s : i < j => t[s[i]] >= t[s[j]]}

Window(s, offset, limit) ==
  IF limit = 0 THEN s
  ELSE SubSeq(s, offset + 1, IF offset + limit < Len(s) THEN offset + limit ELSE Len(s))

-----------------------------------------------------------------------------
(* Columns: paths are sequences of names *)

Prefix(p, q) == Len(p) < Len(q) /\ SubSeq(q, 1, Len(p)) = p

\* one turn of the loop of buildPopulateFromFields over the leaves of its tree: a leaf on the
\* way cannot be given children, and a node that is named becomes a leaf
Graft(leaves, path) ==
  IF <<"throws">> \in leaves \/ \E l \in leaves : Prefix(l, path) THEN {<<"throws">>}
  ELSE {l \in leaves : ~Prefix(path, l)} \cup {path}

PopulateFromFields(fields) == FoldLeft(Graft, {}, fields)

\* buildAllPopulatesExcluding: schema is the set of the entity's paths, columns and relations.
\* A relation is opened when a path below it is excluded, or when it or a path below it is
\* populated.
PopulateExcluding(columns, relations, excluded, populate) ==
  LET Opened(r) == \/ \E e \in excluded : Prefix(r, e)
                   \/ r \in populate \/ \E p \in populate : Prefix(r, p)
  IN {p \in columns \cup relations :
        /\ \A i \in 1 .. Len(p) : SubSeq(p, 1, i) \notin excluded
        /\ \A i \in 1 .. Len(p) - 1 : Opened(SubSeq(p, 1, i))
        /\ p \in relations => ~Opened(p)}

\* fields before exclude; neither selects everything
FieldSelection(fields, excluded, populate, columns, relations) ==
  IF fields # <<>> THEN PopulateFromFields(fields)
  ELSE IF excluded # {} THEN PopulateExcluding(columns, relations, excluded, populate)
  ELSE columns

-----------------------------------------------------------------------------
(* Responses *)

\* the HTTP status of an answer; the details of an error are left out
ErrorStatus(error) ==
  CASE error = "ValidationError" -> 400
    [] error = "ConnectionError" -> 503
    [] OTHER                     -> 500

FetchOne(row) == IF row = None THEN 404 ELSE 200

\* a page without rows has no info
EmptyPage == [data |-> <<>>, meta |-> NoInfo]
Fetched(found, count, offset, limit) ==
  IF found = <<>> THEN EmptyPage ELSE [data |-> found, meta |-> Info(count, offset, limit)]

-----------------------------------------------------------------------------

Reader == [pc: {"idle", "reading", "done"}, todo: SUBSET {"find", "count"}, parallel: BOOLEAN,
           size: Sizes \cup {0}, page: Nat, found: Seq(Ids), count: Nat,
           shown: [Ids -> Nat], still: BOOLEAN]
IdleReader == [pc |-> "idle", todo |-> {}, parallel |-> FALSE, size |-> 0, page |-> 1,
               found |-> <<>>, count |-> 0, shown |-> [id \in Ids |-> 0], still |-> TRUE]

Writer == [pc: {"idle", "flush", "answered"}, op: {"none", "update", "delete"}, id: Ids,
           key: Keys \cup {None}, status: {0, 200, 201, 400, 404, 500, 503}]
IdleWriter == [pc |-> "idle", op |-> "none", id |-> CHOOSE id \in Ids : TRUE, key |-> None,
               status |-> 0]

TypeOK ==
  /\ table \in [Ids -> Keys \cup {None}]
  /\ reader \in Reader
  /\ writer \in Writer
  /\ writes \in 0 .. MaxWrites

Init ==
  /\ table \in [Ids -> Keys \cup {None}]
  /\ reader = IdleReader
  /\ writer = IdleWriter
  /\ writes = 0

Distinct(t) == \A i, j \in Stored(t) : i # j => t[i] # t[j]

-----------------------------------------------------------------------------
(* Reading a list *)

\* fetch finds and then counts; fetchAndCount does both at once
StartWalk(size, parallel) ==
  /\ reader.pc = "idle"
  /\ reader' = [IdleReader EXCEPT !.pc = "reading", !.todo = {"find", "count"},
                                  !.parallel = parallel, !.size = size]
  /\ UNCHANGED <<table, writer, writes>>

Find(sorting) ==
  /\ reader.pc = "reading" /\ "find" \in reader.todo
  /\ reader' = [reader EXCEPT !.todo = @ \ {"find"},
                  !.found = Window(sorting, Offset(reader.page, reader.size), reader.size)]
  /\ UNCHANGED <<table, writer, writes>>

Count ==
  /\ reader.pc = "reading" /\ "count" \in reader.todo
  /\ reader.parallel \/ "find" \notin reader.todo
  /\ reader' = [reader EXCEPT !.todo = @ \ {"count"}, !.count = Cardinality(Stored(table))]
  /\ UNCHANGED <<table, writer, writes>>

\* the answer is shown, and the page it names next asked for
Answer ==
  LET answer == Fetched(reader.found, reader.count, Offset(reader.page, reader.size), reader.size)
      next == NextPage(answer.meta, reader.page)
  IN /\ reader.pc = "reading" /\ reader.todo = {}
     /\ reader' = [reader EXCEPT
          !.shown = [id \in Ids |-> @[id] + Cardinality({i \in DOMAIN answer.data : answer.data[i] = id})],
          !.pc = IF next = 0 THEN "done" ELSE "reading",
          !.todo = IF next = 0 THEN {} ELSE {"find", "count"},
          !.page = IF next = 0 THEN @ ELSE next,
          !.found = <<>>, !.count = 0]
     /\ UNCHANGED <<table, writer, writes>>

LeaveList ==
  /\ reader.pc = "done"
  /\ reader' = IdleReader
  /\ UNCHANGED <<table, writer, writes>>

-----------------------------------------------------------------------------
(* Writing a row *)

\* the walk that is under way is no longer one of a table that stands still
Disturbed == [reader EXCEPT !.still = FALSE]
Respond(status) == [writer EXCEPT !.pc = "answered", !.status = status]
Write(id, key) ==
  /\ writes < MaxWrites
  /\ writes' = writes + 1
  /\ table' = [table EXCEPT ![id] = key]
  /\ reader' = Disturbed

CreateEntity(id, key) ==
  /\ writer.pc = "idle" /\ table[id] = None
  /\ Write(id, key)
  /\ writer' = Respond(201)

\* updateEntity and deleteEntity find the row first
FindToWrite(id, op, key) ==
  /\ writer.pc = "idle"
  /\ writer' = IF FetchOne(table[id]) = 404 THEN Respond(404)
               ELSE [pc |-> "flush", op |-> op, id |-> id, key |-> key, status |-> 0]
  /\ UNCHANGED <<table, reader, writes>>

\* a row that was deleted meanwhile is not written, and the answer is the same
FlushWrite ==
  /\ writer.pc = "flush"
  /\ IF table[writer.id] = None THEN UNCHANGED <<table, reader, writes>>
     ELSE Write(writer.id, IF writer.op = "delete" THEN None ELSE writer.key)
  /\ writer' = Respond(200)

\* a failing query is answered with the error's status, and nothing is written
WriteFails(error) ==
  /\ writer.pc = "flush"
  /\ writer' = Respond(ErrorStatus(error))
  /\ UNCHANGED <<table, reader, writes>>

DeleteMany(ids) ==
  /\ writer.pc = "idle" /\ writes < MaxWrites
  /\ writes' = writes + 1
  /\ table' = [id \in Ids |-> IF id \in ids THEN None ELSE table[id]]
  /\ reader' = IF ids \cap Stored(table) = {} THEN reader ELSE Disturbed
  /\ writer' = Respond(IF ids \cap Stored(table) = {} THEN 404 ELSE 200)

NextRequest ==
  /\ writer.pc = "answered"
  /\ writer' = IdleWriter
  /\ UNCHANGED <<table, reader, writes>>

\* a second request deletes the row that the first has read
DeleteBehind ==
  /\ writer.pc = "flush" /\ table[writer.id] # None
  /\ Write(writer.id, None)
  /\ UNCHANGED writer

Next ==
  \/ \E size \in Sizes, parallel \in BOOLEAN : StartWalk(size, parallel)
  \/ \E sorting \in Sortings(table) : Find(sorting)
  \/ Count \/ Answer \/ LeaveList
  \/ \E id \in Ids, key \in Keys : CreateEntity(id, key) \/ FindToWrite(id, "update", key)
  \/ \E id \in Ids : FindToWrite(id, "delete", None)
  \/ FlushWrite
  \/ \E error \in Failures : WriteFails(error)
  \/ \E ids \in SUBSET Ids : DeleteMany(ids)
  \/ NextRequest \/ DeleteBehind

Spec == Init /\ [][Next]_vars

-----------------------------------------------------------------------------
(* Properties *)

\* Walking through a list page by page, as long as a next page is named, shows every row
\* exactly once, provided that nothing is written on the way and no two rows have the same key.
WalkShowsEachRowOnce ==
  reader.pc = "done" /\ reader.still /\ Distinct(table) =>
    \A id \in Ids : reader.shown[id] = IF table[id] = None THEN 0 ELSE 1

\* The columns a list of fields selects do not depend on its order, if it selects any.
FieldsInAnyOrder(paths) ==
  \A fields \in SetToSeqs(paths) :
    PopulateFromFields(fields) \in
      {{<<"throws">>}, {p \in paths : \A q \in paths : ~Prefix(q, p)}}

=============================================================================

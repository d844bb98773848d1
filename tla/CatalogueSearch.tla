---------------------------- MODULE CatalogueSearch ----------------------------
(***************************************************************************)
(* The assistant that searches the catalogue, and the script that fills    *)
(* its index.  The script takes one reading of the active listings and     *)
(* stores them batch by batch, each batch an embedding and an upsert that  *)
(* may fail; it is run by hand and may be killed.  A chat reads the        *)
(* session's history, asks the model for the intent, searches the index,   *)
(* reads the listings it found and saves the history with its own turn.    *)
(* Chats of one session overlap.                                           *)
(***************************************************************************)
EXTENDS Integers, Sequences, FiniteSets, FiniteSetsExt, SequencesExt

CONSTANTS
  Listings,    \* Nat: the listing ids, in the order the database has them
  Prices,      \* bound: effective prices
  BatchSize, MaxResults, MaxHistory,
  Chats,       \* bound: messages of the session
  Intents,     \* bound: what the model may read in a message
  MaxRuns,     \* bound: runs of the script
  MaxMoves,    \* bound: changes of the catalogue
  None

\* what a run assumes of the constants
CatalogueSearchAssumption ==
  /\ BatchSize \in Nat \ {0} /\ MaxResults \in Nat \ {0} /\ MaxHistory \in Nat \ {0}
  /\ Listings \subseteq Nat /\ IsFiniteSet(Listings)
  /\ Prices \subseteq Nat /\ IsFiniteSet(Prices) /\ Prices # {}
  /\ MaxRuns \in Nat /\ MaxMoves \in Nat

VARIABLES
  row,      \* row[l]: [active, qty, price, brand, category] of a listing
  index,    \* index[l]: the payload of its point, or None
  script,   \* the script
  runs, moves,
  history,  \* chat:<sessionId> in Redis
  chat,     \* chat[c]: the request
  saves,    \* auxiliary: the chats whose turn was saved, in order
  lost      \* auxiliary: turns that a chat that had not read them wrote over, or that expired

scriptVars == <<index, script, runs>>
chatVars == <<history, chat, saves, lost>>
vars == <<row, index, script, runs, moves, history, chat, saves, lost>>

-----------------------------------------------------------------------------
(* embed-catalog.ts *)

\* fetchActiveListings: VALIDATED_ACTIVE and not deleted
Active == {l \in Listings : row[l].active}
InOrder(S) ==
  [i \in 1..Cardinality(S) |-> CHOOSE l \in S : Cardinality({k \in S : k < l}) = i - 1]

\* extractMetadata
Metadata(l) == [price |-> row[l].price, qty |-> row[l].qty, brand |-> row[l].brand,
                category |-> row[l].category]

Batch(s) == SubSeq(s.snapshot, s.at + 1, Min({s.at + BatchSize, Len(s.snapshot)}))
BatchNumber(s) == s.at \div BatchSize + 1

NoScript == [pc |-> "off", snapshot |-> <<>>, at |-> 0, failed |-> {}]

\* ensureCollection comes before the listings are read; an error of either ends the script
Start ==
  /\ script.pc = "off" /\ runs < MaxRuns /\ runs' = runs + 1
  /\ script' = [NoScript EXCEPT !.pc = "collection"]
  /\ UNCHANGED <<row, index, moves, chatVars>>

EnsureCollection ==
  /\ script.pc = "collection"
  /\ script' = [script EXCEPT !.pc = "listings"]
  /\ UNCHANGED <<row, index, runs, moves, chatVars>>

FetchActiveListings ==
  /\ script.pc = "listings"
  /\ LET order == InOrder(Active)
     IN script' = [script EXCEPT
          !.snapshot = [i \in DOMAIN order |-> [id |-> order[i], payload |-> Metadata(order[i])]],
          !.pc = IF Active = {} THEN "off" ELSE "embed"]
  /\ UNCHANGED <<row, index, runs, moves, chatVars>>

\* the next batch, or the summary
NextBatch(s) ==
  LET at == s.at + BatchSize
  IN [s EXCEPT !.at = at, !.pc = IF at < Len(s.snapshot) THEN "embed" ELSE "summary"]

\* mutant: a batch that failed is tried again
RetryBatch(s) == [s EXCEPT !.failed = @ \cup {BatchNumber(s)}, !.pc = "embed"]
\* a batch that failed is noted and left behind
SkipBatch(s) == NextBatch([s EXCEPT !.failed = @ \cup {BatchNumber(s)}])

GenerateEmbeddings ==
  /\ script.pc = "embed"
  /\ \/ script' = [script EXCEPT !.pc = "upsert"]
     \/ script' = SkipBatch(script)
  /\ UNCHANGED <<row, index, runs, moves, chatVars>>

\* the payload is the one of the snapshot, whatever has changed since
Upsert ==
  /\ script.pc = "upsert"
  /\ LET batch == Batch(script)
     IN \/ /\ index' = [l \in Listings |->
                          IF \E i \in DOMAIN batch : batch[i].id = l
                          THEN batch[CHOOSE i \in DOMAIN batch : batch[i].id = l].payload
                          ELSE index[l]]
           /\ script' = NextBatch(script)
        \/ script' = SkipBatch(script) /\ UNCHANGED index
  /\ UNCHANGED <<row, runs, moves, chatVars>>

Summary ==
  /\ script.pc = "summary" /\ script' = NoScript
  /\ UNCHANGED <<row, index, runs, moves, chatVars>>

\* process.exit, or the operator's interrupt
Exit ==
  /\ script.pc # "off" /\ script' = NoScript
  /\ UNCHANGED <<row, index, runs, moves, chatVars>>

-----------------------------------------------------------------------------
(* ai-search.service.ts *)

NoChat == [pc |-> "new", seen |-> <<>>, read |-> {}, intent |-> None, hits |-> {}, products |-> {}]

\* getHistory: a failed read is taken for a new session
GetHistory(c) ==
  /\ chat[c].pc = "new"
  /\ \/ chat' = [chat EXCEPT ![c] = [@ EXCEPT !.pc = "intent", !.seen = history,
                                             !.read = Range(saves)]]
     \/ chat' = [chat EXCEPT ![c] = [@ EXCEPT !.pc = "intent"]]
  /\ UNCHANGED <<row, scriptVars, moves, history, saves, lost>>

\* extractIntent: what is not JSON becomes a general search
Fallback == [type |-> None, min |-> 0, max |-> 0, brands |-> {}, followUp |-> FALSE]
ExtractIntent(c) ==
  /\ chat[c].pc = "intent"
  /\ \E intent \in Intents \cup {Fallback} :
       chat' = [chat EXCEPT ![c] = [@ EXCEPT !.intent = intent,
                  !.pc = IF intent.followUp THEN "save" ELSE "search"]]
  /\ UNCHANGED <<row, scriptVars, moves, history, saves, lost>>

\* the filter of the index; the kind and the brands are in lower case and matched as they are
Matches(p, intent) ==
  /\ p.qty > 0
  /\ intent.max # 0 => p.price <= intent.max
  /\ intent.min # 0 => p.price >= intent.min
  /\ intent.type \in {None, "other"} \/ p.category = intent.type
  /\ intent.brands # {} => p.brand \in intent.brands

SearchIndex(c) ==
  /\ chat[c].pc = "search"
  /\ LET found == {l \in Listings : index[l] # None /\ Matches(index[l], chat[c].intent)}
     IN \E hits \in kSubset(Min({MaxResults, Cardinality(found)}), found) :
          chat' = [chat EXCEPT ![c] = [@ EXCEPT !.hits = hits,
                     !.pc = IF hits = {} THEN "save" ELSE "live"]]
  /\ UNCHANGED <<row, scriptVars, moves, history, saves, lost>>

\* the listings as they are now, those that are not active left out, then the reply
FetchLive(c) ==
  /\ chat[c].pc = "live"
  /\ chat' = [chat EXCEPT ![c] = [@ EXCEPT !.products = chat[c].hits \cap Active, !.pc = "save"]]
  /\ UNCHANGED <<row, scriptVars, moves, history, saves, lost>>

Turn(c) == <<[by |-> c, role |-> "user"], [by |-> c, role |-> "assistant"]>>

\* mutant: the first messages are kept
Oldest(messages) == SubSeq(messages, 1, Min({MaxHistory, Len(messages)}))
\* slice(-MAX_HISTORY)
Newest(messages) == SubSeq(messages, Max({1, Len(messages) - MaxHistory + 1}), Len(messages))

\* saveHistory: the history of the first step with this turn
SaveHistory(c) ==
  /\ chat[c].pc = "save"
  /\ history' = Newest(chat[c].seen \o Turn(c))
  /\ lost' = lost \cup (Range(saves) \ chat[c].read)
  /\ saves' = Append(saves, c)
  /\ chat' = [chat EXCEPT ![c] = [NoChat EXCEPT !.pc = "answered",
                                    !.products = chat[c].products]]
  /\ UNCHANGED <<row, scriptVars, moves>>

\* an error of the model, of the index, of the database or of setex: no answer, nothing saved
Fail(c) ==
  /\ chat[c].pc \in {"intent", "search", "live", "save"}
  /\ chat' = [chat EXCEPT ![c] = [NoChat EXCEPT !.pc = "failed"]]
  /\ UNCHANGED <<row, scriptVars, moves, history, saves, lost>>

-----------------------------------------------------------------------------
\* SESSION_TTL
Expire ==
  /\ history # <<>> /\ history' = <<>> /\ lost' = lost \cup Range(saves)
  /\ UNCHANGED <<row, scriptVars, moves, chat, saves>>

\* External: a seller changes a listing
Move ==
  /\ moves < MaxMoves /\ moves' = moves + 1
  /\ \E l \in Listings :
       \/ row' = [row EXCEPT ![l].active = ~@]
       \/ row' = [row EXCEPT ![l].qty = 1 - @]
       \/ \E p \in Prices \ {row[l].price} : row' = [row EXCEPT ![l].price = p]
  /\ UNCHANGED <<scriptVars, chatVars>>

Init ==
  /\ row \in [Listings -> [active : {TRUE}, qty : {1}, price : {Min(Prices)},
                           brand : {"Dell"}, category : {"Laptop"}]]
  /\ index = [l \in Listings |-> None]
  /\ script = NoScript /\ runs = 0 /\ moves = 0
  /\ history = <<>> /\ chat = [c \in Chats |-> NoChat] /\ saves = <<>> /\ lost = {}

Script ==
  EnsureCollection \/ FetchActiveListings \/ GenerateEmbeddings \/ Upsert \/ Summary

Next ==
  \/ Start \/ Script \/ Exit \/ Move \/ Expire
  \/ \E c \in Chats : \/ GetHistory(c) \/ ExtractIntent(c) \/ SearchIndex(c) \/ FetchLive(c)
                      \/ SaveHistory(c) \/ Fail(c)

Spec == Init /\ [][Next]_vars

\* Every call of the script is awaited and comes back, with an answer or with an error
FairSpec == Spec /\ WF_vars(Script)

-----------------------------------------------------------------------------
TypeOK ==
  /\ \A l \in Listings : row[l].qty \in 0..1 /\ row[l].price \in Prices
  /\ script.failed \subseteq 1..Cardinality(Listings)
  /\ script.pc \in {"off", "collection", "listings", "embed", "upsert", "summary"}
  /\ Len(history) <= MaxHistory /\ lost \subseteq Range(saves)

\* The turns that the history should still have: the last ones saved, but for those that a chat
\* that had started before, or whose read failed, wrote over, and those that expired.
Kept == Range(SubSeq(saves, Max({1, Len(saves) - MaxHistory \div 2 + 1}), Len(saves))) \ lost

\* saveHistory writes the whole list that getHistory read, with no lock between: a turn gets lost
\* by an overlap only, and otherwise stands in the history, the question and then its answer,
\* until MAX_HISTORY messages came after it.
TurnsKeptUpToOverlaps ==
  \A c \in Kept : \E i \in 1..(Len(history) - 1) : SubSeq(history, i, i + 1) = Turn(c)

\* A run of the script ends, whatever the batches that fail: the loop goes on with the next.
Running == script.pc # "off"
RunEnds == Running ~> ~Running
=============================================================================

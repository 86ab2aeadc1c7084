------------------------------ MODULE Campaigns -------------------------------
(***************************************************************************)
(* Campaigns: what sessions belong to, the words they share, and the texts *)
(* a model writes about them.  Requests run side by side, and each is a    *)
(* check, a wait, and a write (web/routes/campaigns.py, glossary.py,       *)
(* sessions.py, web/generation.py, persistence/repositories.py).  A name,  *)
(* a cast member and a term are a word and its spelling, <<word, case>>;   *)
(* a note is a number, 0 where there is none.  Sessions 1 and 2 are there; *)
(* one more may come.  MaxRequests bounds the requests.                    *)
(***************************************************************************)
EXTENDS Integers, Sequences, FiniteSets, SequencesExt

CONSTANTS MaxRequests

VARIABLE books

Ids == {1, 2, 3}       \* of campaigns; 0 is the default glossary, and no campaign
Sessions == {1, 2, 3}
Newcomer == 3
Slots == {1, 2}
NoCampaign == [name |-> 0, cast |-> <<>>]
Idle == [op |-> "none", pc |-> "idle", c |-> 0, s |-> 1, x |-> <<>>]
NoText == [of |-> "none", names |-> <<>>]

Term(w, k) == <<w, k>>
Lists == {<<>>, <<Term(1, 1)>>, <<Term(2, 0), Term(1, 0)>>}
Extractions == {<<[name |-> Term(1, 0), note |-> 1]>>,
                <<[name |-> Term(1, 1), note |-> 0], [name |-> Term(2, 0), note |-> 2]>>}

CampaignsInit ==
  books \in [camp : {[c \in Ids |-> IF c = 1 THEN [name |-> 1, cast |-> <<Term(1, 0)>>] ELSE NoCampaign]},
             of : {<<1, 1, 0>>, <<1, 0, 0>>},                \* per session
             born : {{1}}, gone : {{}}, alive : {Sessions \ {Newcomer}},
             played : {<<1, 2>>},                            \* oldest first
             awaited : {TRUE},                               \* nobody has asked for the third
             gloss : {[c \in Ids \cup {0} |-> IF c = 0 THEN <<Term(1, 1), Term(2, 1)>> ELSE <<>>]},
             recap : {<<NoText, NoText, NoText>>},
             names : {<<NoText, [of |-> "model", names |-> <<[name |-> Term(1, 1), note |-> 3]>>], NoText>>},
             summed : {{2}},                                 \* sessions with a summary
             story : {[c \in Ids |-> NoText]},
             reqs : {[r \in Slots |-> Idle]}, left : {MaxRequests},
             stray : {{}}]          \* sessions given a campaign that was gone, or going

Exists(b, c) == b.camp[c].name # 0

-----------------------------------------------------------------------------
(* What a session's provider is biased towards: the cast, the campaign's own
   terms, the default list; the first spelling of a word is kept. *)
Adds(terms, term) ==
  IF \E i \in DOMAIN terms : terms[i][1] = term[1] THEN terms ELSE Append(terms, term)

AddsFolded(terms, more) == FoldLeft(Adds, terms, more)

Effective(b, c) ==
  AddsFolded(<<>>, (IF c = 0 THEN <<>> ELSE b.camp[c].cast \o b.gloss[c]) \o b.gloss[0])

(* The extractions of a campaign, oldest session first, folded by name: the
   first spelling, the newest note there is, every session it came up in. *)
Documents(b, c) ==
  SelectSeq(b.played, LAMBDA s : s \in b.alive /\ b.of[s] = c /\ b.names[s].of = "model")

MergesOldestNote(entries, s, e) ==
  LET known == {i \in DOMAIN entries : entries[i].name[1] = e.name[1]} IN
  IF known = {} THEN Append(entries, [name |-> e.name, note |-> e.note, in |-> <<s>>])
  ELSE [i \in DOMAIN entries |->
          IF i \notin known \/ s \in ToSet(entries[i].in) THEN entries[i]
          ELSE [entries[i] EXCEPT !.in = Append(@, s)]]

Merges(entries, s, e) ==
  LET known == {i \in DOMAIN entries : entries[i].name[1] = e.name[1]} IN
  IF known = {} THEN Append(entries, [name |-> e.name, note |-> e.note, in |-> <<s>>])
  ELSE [i \in DOMAIN entries |->
          IF i \notin known THEN entries[i]
          ELSE [entries[i] EXCEPT !.note = IF e.note # 0 THEN e.note ELSE @,
                                  !.in = IF s \in ToSet(@) THEN @ ELSE Append(@, s)]]

Merged(b, c) ==
  FoldLeft(LAMBDA entries, s : FoldLeft(LAMBDA es, e : Merges(es, s, e), entries, b.names[s].names),
           <<>>, Documents(b, c))

-----------------------------------------------------------------------------
(* A request begins with its check, and is refused where that fails. *)
Asks(b, r, op, c, s, x) ==
  /\ books.reqs[r].pc = "idle" /\ books.left > 0
  /\ books' = [b EXCEPT !.left = @ - 1,
                 !.reqs[r] = [op |-> op, pc |-> "writes", c |-> c, s |-> s, x |-> x]]

Living == {c \in Ids : Exists(books, c)}
NameIsFree(b, c, name) == \A d \in Ids \ {c} : b.camp[d].name # name

Creates(r) == \E c \in Ids \ books.born, name \in {1, 2} :
  /\ c - 1 \in books.born /\ NameIsFree(books, c, name)
  /\ Asks([books EXCEPT !.born = @ \cup {c}], r, "create", c, 1, <<name>>)
Renames(r) == \E c \in Living, name \in {1, 2} :
  NameIsFree(books, c, name) /\ Asks(books, r, "rename", c, 1, <<name>>)
Removes(r) == \E c \in Living : Asks(books, r, "remove", c, 1, <<>>)
Assigns(r) == \E c \in Living \cup {0}, s \in books.alive : Asks(books, r, "assign", c, s, <<>>)
PutsGlossary(r) == \E c \in {0, 1}, terms \in Lists : Asks(books, r, "put", c, 1, terms)

(* Adding reads the list at once and writes it, longer, later. *)
AddsGlossary(r) == \E c \in Living, terms \in Lists :
  Asks(books, r, "put", c, 1, AddsFolded(books.gloss[c], terms))

(* A session comes: recorded from now on, with whatever campaign the request
   names; or imported, of whenever it was played, with a campaign checked before
   the upload and the decode; or merged of the first two, with the campaign the
   older one had before their audio was copied. *)
Begins(r, c, orders) == \E order \in orders :
  /\ books.awaited
  /\ Asks([books EXCEPT !.awaited = FALSE], r, "begin", c, Newcomer, order)

Starts(r) == \E c \in Living \cup books.gone \cup {0} : Begins(r, c, {<<1, 2, 3>>})
Imports(r) == \E c \in Living \cup {0} : Begins(r, c, {<<3, 1, 2>>, <<1, 3, 2>>, <<1, 2, 3>>})
MergesSessions(r) ==
  {1, 2} \subseteq books.alive /\ Begins(r, books.of[1], {<<3, 1, 2>>, <<1, 3, 2>>})

(* A text about a session, or the "previously on" of a campaign, from what
   its sessions have, a recap or a summary; the model takes its time. *)
Summarizes(r) == \E s \in books.alive : Asks(books, r, "summary", 0, s, <<>>)
Recaps(r) == \E s \in books.alive : Asks(books, r, "recap", 0, s, <<>>)
Extracts(r) == \E s \in books.alive, found \in Extractions : Asks(books, r, "names", 0, s, found)
Previously(r) == \E c \in Living :
  /\ \E s \in books.alive : books.of[s] = c /\ (books.recap[s] # NoText \/ s \in books.summed)
  /\ Asks(books, r, "story", c, 1, <<>>)
Erases(r) == \E s \in books.alive : Asks(books, r, "erase", 0, s, <<>>)

-----------------------------------------------------------------------------
Text(x) == [of |-> "model", names |-> x]

(* The name is unique in the table, and a text hangs on its subject by a
   foreign key: the write that breaks either is an error, and writes nothing.
   An update of a row that has gone writes nothing either. *)
RowNamed(b, q) == IF NameIsFree(b, q.c, q.x[1]) THEN [b EXCEPT !.camp[q.c].name = q.x[1]] ELSE b

RowUpdated(b, q) == IF Exists(b, q.c) THEN RowNamed(b, q) ELSE b

(* A deletion has already unassigned its sessions. *)
Going(b, c) ==
  \E r \in Slots : /\ b.reqs[r].op = "remove" /\ b.reqs[r].c = c
                  /\ b.reqs[r].pc \in {"glossary", "row"}

Assigned(b, q) ==
  IF q.s \notin b.alive THEN b
  ELSE [b EXCEPT !.of[q.s] = q.c,
                 !.stray = IF q.c # 0 /\ (~Exists(b, q.c) \/ Going(b, q.c))
                           THEN @ \cup {q.s} ELSE @ \ {q.s}]

(* The row of a session that comes, with the campaign asked for back then. *)
Begun(b, q) == Assigned([b EXCEPT !.alive = @ \cup {q.s}, !.played = q.x], q)

GlossaryPut(b, q) == [b EXCEPT !.gloss[q.c] = q.x]

Summed(b, q) == [b EXCEPT !.summed = @ \cup ({q.s} \cap b.alive)]

TextStored(b, q) == IF q.s \in b.alive THEN Text(q.x) ELSE NoText

StoryStored(b, q) == [b EXCEPT !.story[q.c] = IF Exists(b, q.c) THEN Text(<<>>) ELSE NoText]

CampaignRowGone(b, c) == [b EXCEPT !.camp[c] = NoCampaign, !.story[c] = NoText, !.gone = @ \cup {c}]

Written(b, q) ==
  CASE q.op = "create"  -> RowNamed(b, q)
    [] q.op = "rename"  -> RowUpdated(b, q)
    [] q.op = "assign"  -> Assigned(b, q)
    [] q.op = "begin"   -> Begun(b, q)
    [] q.op = "put"     -> GlossaryPut(b, q)
    [] q.op = "summary" -> Summed(b, q)
    [] q.op = "recap"   -> [b EXCEPT !.recap[q.s] = TextStored(b, q)]
    [] q.op = "names"   -> [b EXCEPT !.names[q.s] = TextStored(b, q)]
    [] q.op = "story"   -> StoryStored(b, q)

Writes(r) ==
  LET q == books.reqs[r] IN
  /\ q.pc = "writes" /\ q.op \notin {"remove", "erase"}
  /\ books' = [Written(books, q) EXCEPT !.reqs[r] = Idle]

(* The model's answer never came, or the audio of a session that was to come
   cannot be had: nothing is written. *)
Fails(r) ==
  /\ books.reqs[r].pc = "writes" /\ books.reqs[r].op \in {"summary", "recap", "names", "story", "begin"}
  /\ books' = [books EXCEPT !.reqs[r] = Idle]

(* Mutant: the sessions keep the name. *)
UnassignsNothing(b, c) == b

(* A campaign goes in steps: its sessions are unassigned, its glossary and
   then its row go, the documents with the row. *)
Unassigned(b, c) == [b EXCEPT !.of = [s \in Sessions |-> IF @[s] = c THEN 0 ELSE @[s]],
                              !.stray = {s \in @ : b.of[s] # c}]

RemoveSteps(r) ==
  LET q == books.reqs[r] IN
  /\ q.op = "remove"
  /\ \/ /\ q.pc = "writes"
        /\ books' = [Unassigned(books, q.c) EXCEPT !.reqs[r].pc = "glossary"]
     \/ /\ q.pc = "glossary"
        /\ books' = [books EXCEPT !.gloss[q.c] = <<>>, !.reqs[r].pc = "row"]
     \/ /\ q.pc = "row"
        /\ books' = [CampaignRowGone(books, q.c) EXCEPT !.reqs[r] = Idle]

(* A session's row goes last, and its texts with it. *)
SessionGoes(r) ==
  LET q == books.reqs[r] IN
  /\ q.op = "erase" /\ q.pc = "writes"
  /\ books' = [books EXCEPT !.alive = @ \ {q.s}, !.of[q.s] = 0,
                 !.summed = @ \ {q.s}, !.recap[q.s] = NoText, !.names[q.s] = NoText, !.stray = @ \ {q.s},
                 !.reqs[r] = Idle]

CampaignsNext ==
  \E r \in Slots :
    \/ Creates(r) \/ Renames(r) \/ Removes(r) \/ Assigns(r) \/ PutsGlossary(r) \/ AddsGlossary(r)
    \/ Summarizes(r) \/ Recaps(r) \/ Extracts(r) \/ Previously(r) \/ Erases(r)
    \/ Starts(r) \/ Imports(r) \/ MergesSessions(r)
    \/ Writes(r) \/ Fails(r) \/ RemoveSteps(r) \/ SessionGoes(r)
=============================================================================

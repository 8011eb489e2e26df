---------------------------- MODULE Transactions ----------------------------
(***************************************************************************)
(* MongoDB as the handlers of data/database/dbContext.go use it: documents *)
(* and transactions with snapshot isolation.                               *)
(*                                                                         *)
(* WithinTransaction runs a handler against a snapshot. The server commits *)
(* what it wrote unless another commit has written one of the same         *)
(* documents since; then the driver runs it again. So a transaction is one *)
(* step that has read one of the last states of the database and writes    *)
(* only documents nobody has written since: everything the handler has     *)
(* read without writing it may be out of date by then. Reads outside a     *)
(* transaction are of one of the last states too.                          *)
(***************************************************************************)
EXTENDS Naturals, Sequences

CONSTANT MaxAge   \* bound: commits that may overtake one handler

VARIABLES
  db,             \* content of each document of each collection, as committed
  past            \* what it was before each of the last commits, latest first,
                  \* with the documents written since

\* What a handler that is about to finish may have read.
Snapshots ==
  {[age |-> 0, data |-> db, wrote |-> {}]}
    \cup {[age |-> i, data |-> past[i].data, wrote |-> past[i].wrote] : i \in DOMAIN past}

Untouched(t, docs) == docs \cap t.wrote = {}

\* What a handler writes: contents for some documents. Where both give one, the
\* first counts.
Write(doc, content) == [d \in {doc} |-> content]
writes ++ others ==
  [d \in DOMAIN writes \cup DOMAIN others |->
     IF d \in DOMAIN writes THEN writes[d] ELSE others[d]]

Apply(writes) ==
  /\ db' = writes ++ db
  /\ past' = [i \in 1 .. IF Len(past) < MaxAge THEN Len(past) + 1 ELSE MaxAge |->
                IF i = 1 THEN [data |-> db, wrote |-> DOMAIN writes]
                ELSE [data |-> past[i - 1].data, wrote |-> past[i - 1].wrote \cup DOMAIN writes]]

\* The transaction that has read snapshot t commits.
Commit(t, writes) ==
  /\ Untouched(t, DOMAIN writes)
  /\ Apply(writes)

TransactionsInit(content) ==
  /\ db = content
  /\ past = << >>
=============================================================================
